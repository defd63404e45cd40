------------------------ MODULE ReasoningLog_proofs ------------------------
(***************************************************************************)
(* Proofs about ReasoningLog, for any number of connections, steps,        *)
(* results and other messages, in both storage modes and with every fault. *)
(***************************************************************************)
EXTENDS ReasoningLog, FiniteSetTheorems, WellFoundedInduction, TLAPS

-----------------------------------------------------------------------------
(* Shares of the first n tokens.                                            *)
LEMMA PartOf ==
  ASSUME NEW n \in Nat, NEW T \in SUBSET (1 .. n)
  PROVE  IsFiniteSet(T) /\ Cardinality(T) \in Nat /\ Cardinality(T) <= n
<1>1. IsFiniteSet(1 .. n) /\ Cardinality(1 .. n) = n
  BY FS_Interval
<1>2. IsFiniteSet(T) /\ Cardinality(T) <= n
  BY <1>1, FS_Subset
<1> QED BY <1>2, FS_CardinalityType

LEMMA JoinParts ==
  ASSUME NEW n \in Nat, NEW S \in SUBSET (1 .. n), NEW T \in SUBSET (1 .. n), S \cap T = {}
  PROVE  S \cup T \in SUBSET (1 .. n) /\ Cardinality(S \cup T) = Cardinality(S) + Cardinality(T)
<1>1. Cardinality(S \cup T) = Cardinality(S) + Cardinality(T) - Cardinality(S \cap T)
  BY PartOf, FS_Union
<1>2. Cardinality(S \cap T) = 0
  BY FS_EmptySet
<1>3. Cardinality(S) \in Nat /\ Cardinality(T) \in Nat
  BY PartOf
<1> QED BY <1>1, <1>2, <1>3

(* A count together with the map is never more than what was reported.      *)
LEMMA NeverMore ==
  ASSUME NEW n \in Nat, NEW m, NEW V, NEW f, Accounted(m, V, f, n), NEW v \in V
  PROVE  v + m <= n /\ v \in Nat /\ m \in Nat
<1>1. PICK M \in SUBSET (1 .. n), T \in SUBSET (1 .. n) :
         Cardinality(M) = m /\ Cardinality(T) = v /\ T \cap M = {}
  BY DEF Accounted
<1>2. Cardinality(T \cup M) = v + m /\ T \cup M \in SUBSET (1 .. n)
  BY <1>1, JoinParts
<1> QED BY <1>1, <1>2, PartOf

(* The map is emptied, or keeps what it has, and counts are forgotten.      *)
LEMMA Forget ==
  ASSUME NEW n \in Nat, NEW m, NEW V, NEW f, Accounted(m, V, f, n), NEW W \in SUBSET V
  PROVE  Accounted(m, W, f, n) /\ Accounted(0, W, f, n)
<1>1. PICK M \in SUBSET (1 .. n), F \in [Handler -> SUBSET (1 .. n)] :
        /\ Cardinality(M) = m
        /\ \A x \in Handler : Cardinality(F[x]) = f[x] /\ F[x] \cap M = {}
        /\ \A x, y \in Handler : x # y => F[x] \cap F[y] = {}
        /\ \A v \in V : \E T \in SUBSET (1 .. n) :
              Cardinality(T) = v /\ T \cap M = {} /\ \A x \in Handler : T \cap F[x] = {}
  BY DEF Accounted
<1>2. Accounted(m, W, f, n)
  BY <1>1 DEF Accounted
<1>3. {} \in SUBSET (1 .. n) /\ Cardinality({}) = 0
  BY FS_EmptySet
<1>4. Accounted(0, W, f, n)
  BY <1>1, <1>3 DEF Accounted
<1> QED BY <1>2, <1>4

(* One more token is put into the map.                                      *)
LEMMA Report ==
  ASSUME NEW n \in Nat, NEW m \in Nat, NEW V, NEW f, Accounted(m, V, f, n)
  PROVE  Accounted(m + 1, V, f, n + 1)
<1>1. PICK M \in SUBSET (1 .. n), F \in [Handler -> SUBSET (1 .. n)] :
        /\ Cardinality(M) = m
        /\ \A x \in Handler : Cardinality(F[x]) = f[x] /\ F[x] \cap M = {}
        /\ \A x, y \in Handler : x # y => F[x] \cap F[y] = {}
        /\ \A v \in V : \E T \in SUBSET (1 .. n) :
              Cardinality(T) = v /\ T \cap M = {} /\ \A x \in Handler : T \cap F[x] = {}
  BY DEF Accounted
<1> DEFINE N == M \cup {n + 1}
<1>2. SUBSET (1 .. n) \subseteq SUBSET (1 .. (n + 1)) /\ n + 1 \notin 1 .. n
      /\ n + 1 \in 1 .. (n + 1)
  OBVIOUS
<1>3. Cardinality(N) = m + 1 /\ N \in SUBSET (1 .. (n + 1))
  BY <1>1, <1>2, PartOf, FS_AddElement
<1>4. F \in [Handler -> SUBSET (1 .. (n + 1))]
  BY <1>1, <1>2
<1>5. \A T \in SUBSET (1 .. n) : T \cap M = {} => T \cap N = {}
  BY <1>2
<1>6. \A x \in Handler : Cardinality(F[x]) = f[x] /\ F[x] \cap N = {}
  BY <1>1, <1>5
<1>7. \A v \in V : \E T \in SUBSET (1 .. (n + 1)) :
              Cardinality(T) = v /\ T \cap N = {} /\ \A x \in Handler : T \cap F[x] = {}
  BY <1>1, <1>2, <1>5
<1> HIDE DEF N
<1> QED BY <1>1, <1>3, <1>4, <1>6, <1>7 DEF Accounted

(* The map is drained into a count.                                         *)
LEMMA DrainInto ==
  ASSUME NEW n \in Nat, NEW m, NEW V, NEW f, Accounted(m, V, f, n), NEW v \in V
  PROVE  Accounted(0, V \cup {v + m}, f, n)
<1>1. PICK M \in SUBSET (1 .. n), F \in [Handler -> SUBSET (1 .. n)] :
        /\ Cardinality(M) = m
        /\ \A x \in Handler : Cardinality(F[x]) = f[x] /\ F[x] \cap M = {}
        /\ \A x, y \in Handler : x # y => F[x] \cap F[y] = {}
        /\ \A w \in V : \E T \in SUBSET (1 .. n) :
              Cardinality(T) = w /\ T \cap M = {} /\ \A x \in Handler : T \cap F[x] = {}
  BY DEF Accounted
<1>2. PICK T \in SUBSET (1 .. n) :
         Cardinality(T) = v /\ T \cap M = {} /\ \A x \in Handler : T \cap F[x] = {}
  BY <1>1
<1>3. Cardinality(T \cup M) = v + m /\ T \cup M \in SUBSET (1 .. n)
  BY <1>1, <1>2, JoinParts
<1>4. \A x \in Handler : (T \cup M) \cap F[x] = {}
  BY <1>1, <1>2
<1>5. \A w \in V \cup {v + m} : \E U \in SUBSET (1 .. n) :
              Cardinality(U) = w /\ U \cap {} = {} /\ \A x \in Handler : U \cap F[x] = {}
  BY <1>1, <1>3, <1>4
<1>6. {} \in SUBSET (1 .. n) /\ Cardinality({}) = 0
  BY FS_EmptySet
<1>7. \A x \in Handler : Cardinality(F[x]) = f[x] /\ F[x] \cap {} = {}
  BY <1>1
<1> QED BY <1>1, <1>5, <1>6, <1>7 DEF Accounted

(* The map is drained by a second Done.                                     *)
LEMMA DrainAside ==
  ASSUME NEW n \in Nat, NEW m, NEW V, NEW f, NEW g, NEW x \in Handler, Accounted(m, V, f, n),
         g[x] = m, \A y \in Handler \ {x} : g[y] = f[y]
  PROVE  Accounted(0, V, g, n)
<1>1. PICK M \in SUBSET (1 .. n), F \in [Handler -> SUBSET (1 .. n)] :
        /\ Cardinality(M) = m
        /\ \A y \in Handler : Cardinality(F[y]) = f[y] /\ F[y] \cap M = {}
        /\ \A y, z \in Handler : y # z => F[y] \cap F[z] = {}
        /\ \A w \in V : \E T \in SUBSET (1 .. n) :
              Cardinality(T) = w /\ T \cap M = {} /\ \A y \in Handler : T \cap F[y] = {}
  BY DEF Accounted
<1> DEFINE G == [F EXCEPT ![x] = M]
<1>2. G \in [Handler -> SUBSET (1 .. n)]
  BY <1>1
<1>3. G[x] = M /\ \A y \in Handler \ {x} : G[y] = F[y]
  BY <1>1
<1> HIDE DEF G
<1>4. \A y \in Handler : Cardinality(G[y]) = g[y] /\ G[y] \cap {} = {}
  BY <1>1, <1>3
<1>5. \A y, z \in Handler : y # z => G[y] \cap G[z] = {}
  BY <1>1, <1>3
<1>6. \A w \in V : \E T \in SUBSET (1 .. n) :
              Cardinality(T) = w /\ T \cap {} = {} /\ \A y \in Handler : T \cap G[y] = {}
  <2> TAKE w \in V
  <2>1. PICK T \in SUBSET (1 .. n) :
           Cardinality(T) = w /\ T \cap M = {} /\ \A y \in Handler : T \cap F[y] = {}
    BY <1>1
  <2>2. \A y \in Handler : T \cap G[y] = {}
    BY <1>3, <2>1
  <2> QED BY <2>1, <2>2
<1>7. {} \in SUBSET (1 .. n) /\ Cardinality({}) = 0
  BY FS_EmptySet
<1> QED BY <1>2, <1>4, <1>5, <1>6, <1>7 DEF Accounted

(* A second Done adds what it drained to a count.                           *)
LEMMA AddTo ==
  ASSUME NEW n \in Nat, NEW m, NEW V, NEW f, NEW g, NEW x \in Handler, Accounted(m, V, f, n),
         g[x] = 0, \A y \in Handler \ {x} : g[y] = f[y], NEW v \in V
  PROVE  Accounted(m, V \cup {v + f[x]}, g, n)
<1>1. PICK M \in SUBSET (1 .. n), F \in [Handler -> SUBSET (1 .. n)] :
        /\ Cardinality(M) = m
        /\ \A y \in Handler : Cardinality(F[y]) = f[y] /\ F[y] \cap M = {}
        /\ \A y, z \in Handler : y # z => F[y] \cap F[z] = {}
        /\ \A w \in V : \E T \in SUBSET (1 .. n) :
              Cardinality(T) = w /\ T \cap M = {} /\ \A y \in Handler : T \cap F[y] = {}
  BY DEF Accounted
<1> DEFINE G == [F EXCEPT ![x] = {}]
<1>2. G \in [Handler -> SUBSET (1 .. n)]
  BY <1>1
<1>3. G[x] = {} /\ \A y \in Handler \ {x} : G[y] = F[y]
  BY <1>1
<1> HIDE DEF G
<1>4. \A y \in Handler : Cardinality(G[y]) = g[y] /\ G[y] \cap M = {}
  BY <1>1, <1>3, FS_EmptySet
<1>5. \A y, z \in Handler : y # z => G[y] \cap G[z] = {}
  BY <1>1, <1>3
<1>6. PICK T \in SUBSET (1 .. n) :
         Cardinality(T) = v /\ T \cap M = {} /\ \A y \in Handler : T \cap F[y] = {}
  BY <1>1
<1>7. Cardinality(T \cup F[x]) = v + f[x] /\ T \cup F[x] \in SUBSET (1 .. n)
  <2>1. F[x] \in SUBSET (1 .. n) /\ T \cap F[x] = {} /\ Cardinality(F[x]) = f[x]
    BY <1>1, <1>6
  <2>2. \A S, U \in SUBSET (1 .. n) : S \cap U = {} =>
          S \cup U \in SUBSET (1 .. n) /\ Cardinality(S \cup U) = Cardinality(S) + Cardinality(U)
    BY JoinParts
  <2>3. T \cup F[x] \in SUBSET (1 .. n) /\ Cardinality(T \cup F[x]) = Cardinality(T) + Cardinality(F[x])
    BY <2>1, <2>2, Zenon
  <2>4. Cardinality(T) = v
    BY <1>6
  <2> QED BY <2>1, <2>3, <2>4
<1>8. (T \cup F[x]) \cap M = {} /\ \A y \in Handler : (T \cup F[x]) \cap G[y] = {}
  BY <1>1, <1>3, <1>6
<1>9. \A w \in V \cup {v + f[x]} : \E U \in SUBSET (1 .. n) :
              Cardinality(U) = w /\ U \cap M = {} /\ \A y \in Handler : U \cap G[y] = {}
  BY <1>1, <1>3, <1>7, <1>8
<1> QED BY <1>1, <1>2, <1>4, <1>5, <1>9 DEF Accounted

-----------------------------------------------------------------------------
(* There is a number for a new mutex: the connections hold finitely many.   *)
LEMMA FreshLock ==
  ASSUME NEW Used, IsFiniteSet(Used), 0 \in Used
  PROVE  \E l \in 1 .. Cardinality(Used) : l \notin Used
<1>1. Cardinality(Used) \in Nat
  BY FS_CardinalityType
<1>2. IsFiniteSet(Used \ {0}) /\ Cardinality(Used \ {0}) = Cardinality(Used) - 1
  BY FS_RemoveElement
<1> SUFFICES ASSUME 1 .. Cardinality(Used) \subseteq Used PROVE FALSE
  OBVIOUS
<1>3. 1 .. Cardinality(Used) \in SUBSET (Used \ {0})
  BY <1>1
<1>4. Cardinality(1 .. Cardinality(Used)) <= Cardinality(Used) - 1
  BY <1>2, <1>3, FS_Subset
<1>5. Cardinality(1 .. Cardinality(Used)) = Cardinality(Used)
  BY <1>1, FS_Interval
<1> QED BY <1>1, <1>4, <1>5

(* The mutexes in use are finitely many.                                    *)
LEMMA LocksFinite ==
  LET used == {h[y].lock : y \in Handler} \cup {0}
  IN  IsFiniteSet(used)
<1> DEFINE L == {h[y].lock : y \in Handler}
           f == [y \in Handler |-> h[y].lock]
<1>1. f \in Surjection(Handler, L)
  BY DEF Surjection
<1>2. IsFiniteSet(L)
  BY <1>1, LogBounds, FS_Surjection
<1> QED BY <1>2, FS_AddElement

-----------------------------------------------------------------------------
(* The empty values have their types.                                       *)
LEMMA Blank == EmptyLog \in Logs /\ NoMeta \in Metas /\ Idle \in Handlers
BY LogBounds DEF EmptyLog, Logs, Entries, NoMeta, Metas, Idle, Handlers, HandlerPCs

(* session_write_lock takes the mutex of the session, or a new one.         *)
LEMMA LockChosen ==
  ASSUME TypeOK, NEW x \in Handler, SessionWriteLock(x)
  PROVE  \E l \in Nat : /\ l # 0 /\ (maps.lock # 0 => l = maps.lock)
                        /\ maps' = [maps EXCEPT !.lock = l]
                        /\ h' = [h EXCEPT ![x].pc = "wait", ![x].lock = l]
<1> DEFINE used == {h[y].lock : y \in Handler} \cup {0}
           fresh == CHOOSE l \in 1 .. Cardinality(used) : l \notin used
           lock == IF maps.lock # 0 THEN maps.lock ELSE fresh
<1>1. IsFiniteSet(used) /\ 0 \in used
  BY LocksFinite
<1>2. maps' = [maps EXCEPT !.lock = lock] /\ h' = [h EXCEPT ![x].pc = "wait", ![x].lock = lock]
  BY DEF SessionWriteLock
<1> HIDE DEF used
<1>3. Cardinality(used) \in Nat /\ \E l \in 1 .. Cardinality(used) : l \notin used
  BY <1>1, FreshLock, FS_CardinalityType
<1>4. fresh \in 1 .. Cardinality(used)
  BY <1>3
<1>5. lock \in Nat /\ lock # 0
  BY <1>3, <1>4 DEF TypeOK
<1> HIDE DEF fresh
<1> QED BY <1>2, <1>5

(* Every action keeps the variables in their types.                         *)
LEMMA TypeStep ==
  ASSUME TypeOK, StepsKnown, [Next]_vars
  PROVE  TypeOK'
<1> USE LogBounds
<1>1. ASSUME NEW x \in Handler, NEW n \in Step, ReasoningResult(x, n)
      PROVE  TypeOK'
  <2>1. maps' \in [tokens : Nat, provider : Nat, lock : Nat, degraded : BOOLEAN]
    BY <1>1 DEF ReasoningResult, TypeOK
  <2>2. file' \in Logs /\ cloud' \in Logs /\ meta' \in Metas /\ reg' \in Statuses
    BY <1>1 DEF ReasoningResult, TypeOK, Logs, Entries, Loops, Handlers, Metas, Statuses
  <2>3. loop' \in Loops
    BY <1>1, Blank DEF ReasoningResult, TypeOK, Loops, LoopPCs, Step
  <2>4. h' \in [Handler -> Handlers]
    <3>1. h[x] \in Handlers
      BY DEF TypeOK
    <3> n \in 0 .. MaxSteps
      BY <1>1 DEF Step
    <3>2. [h[x] EXCEPT !.pc = "arc", !.step = n] \in Handlers
      BY <3>1 DEF Handlers, HandlerPCs
    <3>3. h' = [h EXCEPT ![x] = [h[x] EXCEPT !.pc = "arc", !.step = n]]
      BY <1>1, <3>1 DEF ReasoningResult, TypeOK
    <3> QED BY <3>2, <3>3 DEF TypeOK
  <2>5. hist' \in [pushed : SUBSET Step, answered : SUBSET Step, added : Nat, padded : Nat,
                 late : BOOLEAN, misread : BOOLEAN, failed : BOOLEAN, results : Nat, others : Nat]
    BY <1>1 DEF ReasoningResult, TypeOK, Step, Handlers
  <2> QED BY <2>1, <2>2, <2>3, <2>4, <2>5 DEF TypeOK
<1>2. ASSUME NEW x \in Handler, SessionWriteLock(x)
      PROVE  TypeOK'
  <2>1. PICK l \in Nat : /\ maps' = [maps EXCEPT !.lock = l]
                         /\ h' = [h EXCEPT ![x].pc = "wait", ![x].lock = l]
    BY <1>2, LockChosen
  <2>2. h[x] \in Handlers /\ h' = [h EXCEPT ![x] = [h[x] EXCEPT !.pc = "wait", !.lock = l]]
    BY <2>1 DEF TypeOK
  <2>3. [h[x] EXCEPT !.pc = "wait", !.lock = l] \in Handlers
    BY <2>2 DEF Handlers, HandlerPCs
  <2>4. maps' \in [tokens : Nat, provider : Nat, lock : Nat, degraded : BOOLEAN]
    BY <2>1 DEF TypeOK
  <2>5. h' \in [Handler -> Handlers]
    BY <2>2, <2>3 DEF TypeOK
  <2> QED BY <1>2, <2>4, <2>5 DEF SessionWriteLock, TypeOK
<1>3. ASSUME NEW x \in Handler, Acquire(x)
      PROVE  TypeOK'
  <2>1. maps' \in [tokens : Nat, provider : Nat, lock : Nat, degraded : BOOLEAN]
    BY <1>3 DEF Acquire, TypeOK
  <2>2. file' \in Logs /\ cloud' \in Logs /\ meta' \in Metas /\ reg' \in Statuses
    BY <1>3 DEF Acquire, TypeOK, Logs, Entries, Loops, Handlers, Metas, Statuses
  <2>3. loop' \in Loops
    BY <1>3, Blank DEF Acquire, TypeOK, Loops, LoopPCs, Step
  <2>4. h' \in [Handler -> Handlers]
    <3>1. h[x] \in Handlers
      BY DEF TypeOK
    <3>2. [h[x] EXCEPT !.pc = "upsert", !.seen = file] \in Handlers
      BY <1>3, <3>1, Blank DEF Handlers, HandlerPCs, TypeOK
    <3>3. h' = [h EXCEPT ![x] = [h[x] EXCEPT !.pc = "upsert", !.seen = file]]
      BY <1>3, <3>1 DEF Acquire, TypeOK
    <3> QED BY <3>2, <3>3 DEF TypeOK
  <2>5. hist' \in [pushed : SUBSET Step, answered : SUBSET Step, added : Nat, padded : Nat,
                 late : BOOLEAN, misread : BOOLEAN, failed : BOOLEAN, results : Nat, others : Nat]
    BY <1>3 DEF Acquire, TypeOK, Step, Handlers
  <2> QED BY <2>1, <2>2, <2>3, <2>4, <2>5 DEF TypeOK
<1>4. ASSUME NEW x \in Handler, NEW ok \in BOOLEAN, UpsertEntry(x, ok)
      PROVE  TypeOK'
  <2>1. maps' \in [tokens : Nat, provider : Nat, lock : Nat, degraded : BOOLEAN]
    BY <1>4 DEF UpsertEntry, MayFail, TypeOK
  <2>2. file' \in Logs /\ cloud' \in Logs /\ meta' \in Metas /\ reg' \in Statuses
    <3>1. h[x].seen \in Logs /\ file \in Logs
      BY DEF TypeOK, Handlers
    <3>2. [h[x].seen EXCEPT ![h[x].step] = "model"] \in Logs
      BY <3>1 DEF Logs, Entries
    <3> QED BY <1>4, <3>1, <3>2 DEF UpsertEntry, TypeOK
  <2>3. loop' \in Loops
    BY <1>4, Blank DEF UpsertEntry, MayFail, TypeOK, Loops, LoopPCs, Step
  <2>4. h' \in [Handler -> Handlers]
    BY <1>4, Blank DEF UpsertEntry, MayFail, TypeOK, Handlers, HandlerPCs, Step
  <2>5. hist' \in [pushed : SUBSET Step, answered : SUBSET Step, added : Nat, padded : Nat,
                 late : BOOLEAN, misread : BOOLEAN, failed : BOOLEAN, results : Nat, others : Nat]
    BY <1>4 DEF UpsertEntry, MayFail, TypeOK, Step, Handlers
  <2> QED BY <2>1, <2>2, <2>3, <2>4, <2>5 DEF TypeOK
<1>5. ASSUME NEW x \in Handler, NEW ok \in BOOLEAN, ReadLog(x, ok)
      PROVE  TypeOK'
  <2>1. maps' \in [tokens : Nat, provider : Nat, lock : Nat, degraded : BOOLEAN]
    BY <1>5 DEF ReadLog, Goto, MayFail, TypeOK
  <2>2. file' \in Logs /\ cloud' \in Logs /\ meta' \in Metas /\ reg' \in Statuses
    BY <1>5 DEF ReadLog, Goto, MayFail, TypeOK, Logs, Entries, Loops, Handlers, Metas,
      Statuses
  <2>3. loop' \in Loops
    BY <1>5, Blank DEF ReadLog, Goto, MayFail, TypeOK, Loops, LoopPCs, Step
  <2>4. h' \in [Handler -> Handlers]
    BY <1>5, Blank DEF ReadLog, Goto, MayFail, TypeOK, Handlers, HandlerPCs, Step
  <2>5. hist' \in [pushed : SUBSET Step, answered : SUBSET Step, added : Nat, padded : Nat,
                 late : BOOLEAN, misread : BOOLEAN, failed : BOOLEAN, results : Nat, others : Nat]
    BY <1>5 DEF ReadLog, Goto, MayFail, TypeOK, Step, Handlers
  <2> QED BY <2>1, <2>2, <2>3, <2>4, <2>5 DEF TypeOK
<1>6. ASSUME NEW x \in Handler, NEW ok \in BOOLEAN, PutLog(x, ok)
      PROVE  TypeOK'
  <2>1. maps' \in [tokens : Nat, provider : Nat, lock : Nat, degraded : BOOLEAN]
    BY <1>6 DEF PutLog, Put, MayFail, TypeOK
  <2>2. file' \in Logs /\ cloud' \in Logs /\ meta' \in Metas /\ reg' \in Statuses
    BY <1>6 DEF PutLog, Put, MayFail, TypeOK, Logs, Entries, Loops, Handlers, Metas,
      Statuses
  <2>3. loop' \in Loops
    BY <1>6, Blank DEF PutLog, Put, MayFail, TypeOK, Loops, LoopPCs, Step
  <2>4. h' \in [Handler -> Handlers]
    <3>1. h[x] \in Handlers
      BY DEF TypeOK
    <3>2. [h[x] EXCEPT !.pc = "tokens", !.seen = EmptyLog] \in Handlers
      BY <1>6, <3>1, Blank DEF Handlers, HandlerPCs, TypeOK
    <3>3. h' = [h EXCEPT ![x] = [h[x] EXCEPT !.pc = "tokens", !.seen = EmptyLog]]
      BY <1>6, <3>1 DEF PutLog, TypeOK
    <3> QED BY <3>2, <3>3 DEF TypeOK
  <2>5. hist' \in [pushed : SUBSET Step, answered : SUBSET Step, added : Nat, padded : Nat,
                 late : BOOLEAN, misread : BOOLEAN, failed : BOOLEAN, results : Nat, others : Nat]
    BY <1>6 DEF PutLog, Put, MayFail, TypeOK, Step, Handlers
  <2> QED BY <2>1, <2>2, <2>3, <2>4, <2>5 DEF TypeOK
<1>7. ASSUME NEW x \in Handler, AddTokens(x)
      PROVE  TypeOK'
  <2>1. maps' \in [tokens : Nat, provider : Nat, lock : Nat, degraded : BOOLEAN]
    BY <1>7 DEF AddTokens, Goto, TypeOK
  <2>2. file' \in Logs /\ cloud' \in Logs /\ meta' \in Metas /\ reg' \in Statuses
    BY <1>7 DEF AddTokens, Goto, TypeOK, Logs, Entries, Loops, Handlers, Metas, Statuses
  <2>3. loop' \in Loops
    BY <1>7, Blank DEF AddTokens, Goto, TypeOK, Loops, LoopPCs, Step
  <2>4. h' \in [Handler -> Handlers]
    BY <1>7, Blank DEF AddTokens, Goto, TypeOK, Handlers, HandlerPCs, Step
  <2>5. hist' \in [pushed : SUBSET Step, answered : SUBSET Step, added : Nat, padded : Nat,
                 late : BOOLEAN, misread : BOOLEAN, failed : BOOLEAN, results : Nat, others : Nat]
    BY <1>7 DEF AddTokens, Goto, TypeOK, Step, Handlers
  <2> QED BY <2>1, <2>2, <2>3, <2>4, <2>5 DEF TypeOK
<1>8. ASSUME NEW x \in Handler, AddProviderTokens(x)
      PROVE  TypeOK'
  <2>1. maps' \in [tokens : Nat, provider : Nat, lock : Nat, degraded : BOOLEAN]
    BY <1>8 DEF AddProviderTokens, TypeOK
  <2>2. file' \in Logs /\ cloud' \in Logs /\ meta' \in Metas /\ reg' \in Statuses
    BY <1>8 DEF AddProviderTokens, TypeOK, Logs, Entries, Loops, Handlers, Metas, Statuses
  <2>3. loop' \in Loops
    BY <1>8, Blank DEF AddProviderTokens, TypeOK, Loops, LoopPCs, Step
  <2>4. h' \in [Handler -> Handlers]
    BY <1>8, Blank DEF AddProviderTokens, TypeOK, Handlers, HandlerPCs, Step
  <2>5. hist' \in [pushed : SUBSET Step, answered : SUBSET Step, added : Nat, padded : Nat,
                 late : BOOLEAN, misread : BOOLEAN, failed : BOOLEAN, results : Nat, others : Nat]
    <3>1. h[x].step \in Step
      BY <1>8 DEF AddProviderTokens, StepsKnown, Writing, TypeOK
    <3>2. hist.answered \cup {h[x].step} \in SUBSET Step /\ hist.padded + 1 \in Nat
      BY <3>1 DEF TypeOK
    <3> DEFINE A == hist.answered \cup {h[x].step}
               P == hist.padded + 1
    <3>3. hist' = [hist EXCEPT !.answered = A, !.padded = P]
      BY <1>8 DEF AddProviderTokens
    <3> HIDE DEF A, P
    <3> QED BY <3>2, <3>3 DEF TypeOK, A, P
  <2> QED BY <2>1, <2>2, <2>3, <2>4, <2>5 DEF TypeOK
<1>9. ASSUME NEW x \in Handler, ReasoningDegraded(x)
      PROVE  TypeOK'
  <2>1. maps' \in [tokens : Nat, provider : Nat, lock : Nat, degraded : BOOLEAN]
    BY <1>9 DEF ReasoningDegraded, Other, Goto, TypeOK
  <2>2. file' \in Logs /\ cloud' \in Logs /\ meta' \in Metas /\ reg' \in Statuses
    BY <1>9 DEF ReasoningDegraded, Other, Goto, TypeOK, Logs, Entries, Loops, Handlers,
      Metas, Statuses
  <2>3. loop' \in Loops
    BY <1>9, Blank DEF ReasoningDegraded, Other, Goto, TypeOK, Loops, LoopPCs, Step
  <2>4. h' \in [Handler -> Handlers]
    BY <1>9, Blank DEF ReasoningDegraded, Other, Goto, TypeOK, Handlers, HandlerPCs, Step
  <2>5. hist' \in [pushed : SUBSET Step, answered : SUBSET Step, added : Nat, padded : Nat,
                 late : BOOLEAN, misread : BOOLEAN, failed : BOOLEAN, results : Nat, others : Nat]
    BY <1>9 DEF ReasoningDegraded, Other, Goto, TypeOK, Step, Handlers
  <2> QED BY <2>1, <2>2, <2>3, <2>4, <2>5 DEF TypeOK
<1>10. ASSUME NEW x \in Handler, CircuitReset(x)
      PROVE  TypeOK'
  <2>1. maps' \in [tokens : Nat, provider : Nat, lock : Nat, degraded : BOOLEAN]
    BY <1>10 DEF CircuitReset, Other, Goto, TypeOK
  <2>2. file' \in Logs /\ cloud' \in Logs /\ meta' \in Metas /\ reg' \in Statuses
    BY <1>10 DEF CircuitReset, Other, Goto, TypeOK, Logs, Entries, Loops, Handlers, Metas,
      Statuses
  <2>3. loop' \in Loops
    BY <1>10, Blank DEF CircuitReset, Other, Goto, TypeOK, Loops, LoopPCs, Step
  <2>4. h' \in [Handler -> Handlers]
    BY <1>10, Blank DEF CircuitReset, Other, Goto, TypeOK, Handlers, HandlerPCs, Step
  <2>5. hist' \in [pushed : SUBSET Step, answered : SUBSET Step, added : Nat, padded : Nat,
                 late : BOOLEAN, misread : BOOLEAN, failed : BOOLEAN, results : Nat, others : Nat]
    BY <1>10 DEF CircuitReset, Other, Goto, TypeOK, Step, Handlers
  <2> QED BY <2>1, <2>2, <2>3, <2>4, <2>5 DEF TypeOK
<1>11. ASSUME NEW x \in Handler, SetStatus(x)
      PROVE  TypeOK'
  <2>1. maps' \in [tokens : Nat, provider : Nat, lock : Nat, degraded : BOOLEAN]
    BY <1>11 DEF SetStatus, TypeOK
  <2>2. file' \in Logs /\ cloud' \in Logs /\ meta' \in Metas /\ reg' \in Statuses
    BY <1>11 DEF SetStatus, TypeOK, Logs, Entries, Loops, Handlers, Metas, Statuses
  <2>3. loop' \in Loops
    BY <1>11, Blank DEF SetStatus, TypeOK, Loops, LoopPCs, Step
  <2>4. h' \in [Handler -> Handlers]
    BY <1>11, Blank DEF SetStatus, TypeOK, Handlers, HandlerPCs, Step
  <2>5. hist' \in [pushed : SUBSET Step, answered : SUBSET Step, added : Nat, padded : Nat,
                 late : BOOLEAN, misread : BOOLEAN, failed : BOOLEAN, results : Nat, others : Nat]
    BY <1>11 DEF SetStatus, TypeOK, Step, Handlers
  <2> QED BY <2>1, <2>2, <2>3, <2>4, <2>5 DEF TypeOK
<1>12. ASSUME NEW x \in Handler, DirectDone(x)
      PROVE  TypeOK'
  <2>1. maps' \in [tokens : Nat, provider : Nat, lock : Nat, degraded : BOOLEAN]
    BY <1>12 DEF DirectDone, Other, Goto, TypeOK
  <2>2. file' \in Logs /\ cloud' \in Logs /\ meta' \in Metas /\ reg' \in Statuses
    BY <1>12 DEF DirectDone, Other, Goto, TypeOK, Logs, Entries, Loops, Handlers, Metas,
      Statuses
  <2>3. loop' \in Loops
    BY <1>12, Blank DEF DirectDone, Other, Goto, TypeOK, Loops, LoopPCs, Step
  <2>4. h' \in [Handler -> Handlers]
    BY <1>12, Blank DEF DirectDone, Other, Goto, TypeOK, Handlers, HandlerPCs, Step
  <2>5. hist' \in [pushed : SUBSET Step, answered : SUBSET Step, added : Nat, padded : Nat,
                 late : BOOLEAN, misread : BOOLEAN, failed : BOOLEAN, results : Nat, others : Nat]
    BY <1>12 DEF DirectDone, Other, Goto, TypeOK, Step, Handlers
  <2> QED BY <2>1, <2>2, <2>3, <2>4, <2>5 DEF TypeOK
<1>13. ASSUME NEW x \in Handler, DirectFetch(x)
      PROVE  TypeOK'
  <2>1. maps' \in [tokens : Nat, provider : Nat, lock : Nat, degraded : BOOLEAN]
    BY <1>13 DEF DirectFetch, TypeOK
  <2>2. file' \in Logs /\ cloud' \in Logs /\ meta' \in Metas /\ reg' \in Statuses
    BY <1>13 DEF DirectFetch, TypeOK, Logs, Entries, Loops, Handlers, Metas, Statuses
  <2>3. loop' \in Loops
    BY <1>13, Blank DEF DirectFetch, TypeOK, Loops, LoopPCs, Step
  <2>4. h' \in [Handler -> Handlers]
    <3> DEFINE m == [tokens |-> meta.tokens + h[x].meta.tokens,
                     provider |-> meta.provider + h[x].meta.provider]
    <3>1. h[x] \in Handlers /\ meta \in Metas /\ h[x].meta \in Metas
      BY DEF TypeOK, Handlers
    <3>2. m \in Metas
      BY <3>1 DEF Metas
    <3>3. h' = [h EXCEPT ![x] = [h[x] EXCEPT !.pc = "write", !.meta = m]]
      BY <1>13, <3>1 DEF DirectFetch, TypeOK
    <3> HIDE DEF m
    <3>4. [h[x] EXCEPT !.pc = "write", !.meta = m] \in Handlers
      BY <3>1, <3>2 DEF Handlers, HandlerPCs
    <3> QED BY <3>3, <3>4 DEF TypeOK
  <2>5. hist' \in [pushed : SUBSET Step, answered : SUBSET Step, added : Nat, padded : Nat,
                 late : BOOLEAN, misread : BOOLEAN, failed : BOOLEAN, results : Nat, others : Nat]
    BY <1>13 DEF DirectFetch, TypeOK, Step, Handlers
  <2> QED BY <2>1, <2>2, <2>3, <2>4, <2>5 DEF TypeOK
<1>14. ASSUME NEW x \in Handler, NEW ok \in BOOLEAN, DirectWrite(x, ok)
      PROVE  TypeOK'
  <2>1. maps' \in [tokens : Nat, provider : Nat, lock : Nat, degraded : BOOLEAN]
    BY <1>14 DEF DirectWrite, TypeOK
  <2>2. file' \in Logs /\ cloud' \in Logs /\ meta' \in Metas /\ reg' \in Statuses
    BY <1>14 DEF DirectWrite, TypeOK, Logs, Entries, Loops, Handlers, Metas, Statuses
  <2>3. loop' \in Loops
    BY <1>14, Blank DEF DirectWrite, TypeOK, Loops, LoopPCs, Step
  <2>4. h' \in [Handler -> Handlers]
    <3>1. h[x] \in Handlers
      BY DEF TypeOK
    <3>2. [h[x] EXCEPT !.pc = "asked", !.meta = NoMeta] \in Handlers
      BY <1>14, <3>1, Blank DEF Handlers, HandlerPCs, TypeOK
    <3>3. h' = [h EXCEPT ![x] = [h[x] EXCEPT !.pc = "asked", !.meta = NoMeta]]
      BY <1>14, <3>1 DEF DirectWrite, TypeOK
    <3> QED BY <3>2, <3>3 DEF TypeOK
  <2>5. hist' \in [pushed : SUBSET Step, answered : SUBSET Step, added : Nat, padded : Nat,
                 late : BOOLEAN, misread : BOOLEAN, failed : BOOLEAN, results : Nat, others : Nat]
    BY <1>14 DEF DirectWrite, TypeOK, Step, Handlers
  <2> QED BY <2>1, <2>2, <2>3, <2>4, <2>5 DEF TypeOK
<1>15. ASSUME NEW x \in Handler, DirectAsk(x)
      PROVE  TypeOK'
  <2>1. maps' \in [tokens : Nat, provider : Nat, lock : Nat, degraded : BOOLEAN]
    BY <1>15 DEF DirectAsk, TypeOK
  <2>2. file' \in Logs /\ cloud' \in Logs /\ meta' \in Metas /\ reg' \in Statuses
    BY <1>15 DEF DirectAsk, TypeOK, Logs, Entries, Loops, Handlers, Metas, Statuses
  <2>3. loop' \in Loops
    BY <1>15, Blank DEF DirectAsk, TypeOK, Loops, LoopPCs, Step
  <2>4. h' \in [Handler -> Handlers]
    <3>1. h[x] \in Handlers
      BY DEF TypeOK
    <3>2. [h[x] EXCEPT !.pc = "remove", !.degraded = maps.degraded] \in Handlers
      BY <1>15, <3>1, Blank DEF Handlers, HandlerPCs, TypeOK
    <3>3. h' = [h EXCEPT ![x] = [h[x] EXCEPT !.pc = "remove", !.degraded = maps.degraded]]
      BY <1>15, <3>1 DEF DirectAsk, TypeOK
    <3> QED BY <3>2, <3>3 DEF TypeOK
  <2>5. hist' \in [pushed : SUBSET Step, answered : SUBSET Step, added : Nat, padded : Nat,
                 late : BOOLEAN, misread : BOOLEAN, failed : BOOLEAN, results : Nat, others : Nat]
    BY <1>15 DEF DirectAsk, TypeOK, Step, Handlers
  <2> QED BY <2>1, <2>2, <2>3, <2>4, <2>5 DEF TypeOK
<1>16. ASSUME NEW x \in Handler, DirectRemove(x)
      PROVE  TypeOK'
  <2>1. maps' \in [tokens : Nat, provider : Nat, lock : Nat, degraded : BOOLEAN]
    BY <1>16 DEF DirectRemove, RemoveSession, NoTokens, Goto, TypeOK
  <2>2. file' \in Logs /\ cloud' \in Logs /\ meta' \in Metas /\ reg' \in Statuses
    BY <1>16 DEF DirectRemove, RemoveSession, NoTokens, Goto, TypeOK, Logs, Entries, Loops,
      Handlers, Metas, Statuses
  <2>3. loop' \in Loops
    BY <1>16, Blank DEF DirectRemove, RemoveSession, NoTokens, Goto, TypeOK, Loops,
      LoopPCs, Step
  <2>4. h' \in [Handler -> Handlers]
    BY <1>16, Blank DEF DirectRemove, RemoveSession, NoTokens, Goto, TypeOK, Handlers,
      HandlerPCs, Step
  <2>5. hist' \in [pushed : SUBSET Step, answered : SUBSET Step, added : Nat, padded : Nat,
                 late : BOOLEAN, misread : BOOLEAN, failed : BOOLEAN, results : Nat, others : Nat]
    BY <1>16 DEF DirectRemove, RemoveSession, NoTokens, Goto, TypeOK, Step, Handlers
  <2> QED BY <2>1, <2>2, <2>3, <2>4, <2>5 DEF TypeOK
<1>17. ASSUME NEW push \in BOOLEAN, Capture(push)
      PROVE  TypeOK'
  <2>1. maps' \in [tokens : Nat, provider : Nat, lock : Nat, degraded : BOOLEAN]
    BY <1>17 DEF Capture, TypeOK
  <2>2. file' \in Logs /\ cloud' \in Logs /\ meta' \in Metas /\ reg' \in Statuses
    BY <1>17 DEF Capture, TypeOK, Logs, Entries, Loops, Handlers, Metas, Statuses
  <2>3. loop' \in Loops
    <3>1. loop \in Loops
      BY DEF TypeOK
    <3> loop.steps + 1 \in 0 .. MaxSteps
      BY <1>17, <3>1 DEF Capture, Loops
    <3>2. [loop EXCEPT !.pc = "flush", !.steps = loop.steps + 1] \in Loops
      BY <3>1 DEF Loops, LoopPCs
    <3> QED BY <1>17, <3>2 DEF Capture, TypeOK
  <2>4. h' \in [Handler -> Handlers]
    BY <1>17, Blank DEF Capture, TypeOK, Handlers, HandlerPCs, Step
  <2>5. hist' \in [pushed : SUBSET Step, answered : SUBSET Step, added : Nat, padded : Nat,
                 late : BOOLEAN, misread : BOOLEAN, failed : BOOLEAN, results : Nat, others : Nat]
    <3>1. loop.steps + 1 \in Step
      BY <1>17 DEF Capture, TypeOK, Loops, Step
    <3> QED BY <1>17, <3>1 DEF Capture, TypeOK
  <2> QED BY <2>1, <2>2, <2>3, <2>4, <2>5 DEF TypeOK
<1>18. ASSUME SkipFlush
      PROVE  TypeOK'
  <2>1. maps' \in [tokens : Nat, provider : Nat, lock : Nat, degraded : BOOLEAN]
    BY <1>18 DEF SkipFlush, TypeOK
  <2>2. file' \in Logs /\ cloud' \in Logs /\ meta' \in Metas /\ reg' \in Statuses
    BY <1>18 DEF SkipFlush, TypeOK, Logs, Entries, Loops, Handlers, Metas, Statuses
  <2>3. loop' \in Loops
    <3>1. loop \in Loops
      BY DEF TypeOK
    <3> loop.due + 1 \in Nat
      BY <3>1 DEF Loops
    <3>2. [loop EXCEPT !.pc = "run", !.due = @ + 1] \in Loops
      BY <3>1 DEF Loops, LoopPCs
    <3> QED BY <1>18, <3>2 DEF SkipFlush, TypeOK
  <2>4. h' \in [Handler -> Handlers]
    BY <1>18, Blank DEF SkipFlush, TypeOK, Handlers, HandlerPCs, Step
  <2>5. hist' \in [pushed : SUBSET Step, answered : SUBSET Step, added : Nat, padded : Nat,
                 late : BOOLEAN, misread : BOOLEAN, failed : BOOLEAN, results : Nat, others : Nat]
    BY <1>18 DEF SkipFlush, TypeOK, Step, Handlers
  <2> QED BY <2>1, <2>2, <2>3, <2>4, <2>5 DEF TypeOK
<1>19. ASSUME FlushDrain
      PROVE  TypeOK'
  <2>1. maps' \in [tokens : Nat, provider : Nat, lock : Nat, degraded : BOOLEAN]
    BY <1>19 DEF FlushDrain, Drain, TypeOK
  <2>2. file' \in Logs /\ cloud' \in Logs /\ meta' \in Metas /\ reg' \in Statuses
    BY <1>19 DEF FlushDrain, Drain, TypeOK, Logs, Entries, Loops, Handlers, Metas, Statuses
  <2>3. loop' \in Loops
    <3>1. loop \in Loops /\ loop.mem \in Metas /\ maps.tokens \in Nat
      BY DEF TypeOK, Loops
    <3>2. [loop.mem EXCEPT !.tokens = @ + maps.tokens] \in Metas
      BY <3>1 DEF Metas
    <3>3. loop' = [loop EXCEPT !.pc = "drained", !.due = 0,
                               !.mem = [loop.mem EXCEPT !.tokens = @ + maps.tokens]]
      BY <1>19, <3>1 DEF FlushDrain, Drain, Loops, Metas
    <3> QED BY <3>1, <3>2, <3>3 DEF Loops, LoopPCs
  <2>4. h' \in [Handler -> Handlers]
    BY <1>19, Blank DEF FlushDrain, Drain, TypeOK, Handlers, HandlerPCs, Step
  <2>5. hist' \in [pushed : SUBSET Step, answered : SUBSET Step, added : Nat, padded : Nat,
                 late : BOOLEAN, misread : BOOLEAN, failed : BOOLEAN, results : Nat, others : Nat]
    BY <1>19 DEF FlushDrain, Drain, TypeOK, Step, Handlers
  <2> QED BY <2>1, <2>2, <2>3, <2>4, <2>5 DEF TypeOK
<1>20. ASSUME NEW ok \in BOOLEAN, FlushStore(ok)
      PROVE  TypeOK'
  <2>1. maps' \in [tokens : Nat, provider : Nat, lock : Nat, degraded : BOOLEAN]
    BY <1>20 DEF FlushStore, Store, TypeOK
  <2>2. file' \in Logs /\ cloud' \in Logs /\ meta' \in Metas /\ reg' \in Statuses
    <3>1. loop.mem \in Metas /\ maps.provider \in Nat
      BY DEF TypeOK, Loops
    <3>2. [loop.mem EXCEPT !.provider = @ + maps.provider] \in Metas
      BY <3>1 DEF Metas
    <3> QED BY <1>20, <3>1, <3>2 DEF FlushStore, Store, TypeOK
  <2>3. loop' \in Loops
    <3>1. loop \in Loops /\ loop.mem \in Metas /\ maps.provider \in Nat
      BY DEF TypeOK, Loops
    <3> DEFINE m == [loop.mem EXCEPT !.provider = @ + maps.provider]
               pc == "run"
    <3>2. m \in Metas
      BY <3>1 DEF Metas
    <3>3. loop' = [loop EXCEPT !.pc = pc, !.mem = m]
      BY <1>20 DEF FlushStore, Store
    <3>4. pc \in LoopPCs
      BY DEF LoopPCs
    <3> HIDE DEF m, pc
    <3> QED BY <3>1, <3>2, <3>3, <3>4 DEF Loops
  <2>4. h' \in [Handler -> Handlers]
    BY <1>20, Blank DEF FlushStore, Store, TypeOK, Handlers, HandlerPCs, Step
  <2>5. hist' \in [pushed : SUBSET Step, answered : SUBSET Step, added : Nat, padded : Nat,
                 late : BOOLEAN, misread : BOOLEAN, failed : BOOLEAN, results : Nat, others : Nat]
    BY <1>20 DEF FlushStore, Store, TypeOK, Step, Handlers
  <2> QED BY <2>1, <2>2, <2>3, <2>4, <2>5 DEF TypeOK
<1>21. ASSUME NEW clean \in BOOLEAN, Break(clean)
      PROVE  TypeOK'
  <2>1. maps' \in [tokens : Nat, provider : Nat, lock : Nat, degraded : BOOLEAN]
    BY <1>21 DEF Break, TypeOK
  <2>2. file' \in Logs /\ cloud' \in Logs /\ meta' \in Metas /\ reg' \in Statuses
    BY <1>21 DEF Break, TypeOK, Logs, Entries, Loops, Handlers, Metas, Statuses
  <2>3. loop' \in Loops
    BY <1>21, Blank DEF Break, TypeOK, Loops, LoopPCs, Step
  <2>4. h' \in [Handler -> Handlers]
    BY <1>21, Blank DEF Break, TypeOK, Handlers, HandlerPCs, Step
  <2>5. hist' \in [pushed : SUBSET Step, answered : SUBSET Step, added : Nat, padded : Nat,
                 late : BOOLEAN, misread : BOOLEAN, failed : BOOLEAN, results : Nat, others : Nat]
    BY <1>21 DEF Break, TypeOK, Step, Handlers
  <2> QED BY <2>1, <2>2, <2>3, <2>4, <2>5 DEF TypeOK
<1>22. ASSUME WasDegraded
      PROVE  TypeOK'
  <2>1. maps' \in [tokens : Nat, provider : Nat, lock : Nat, degraded : BOOLEAN]
    BY <1>22 DEF WasDegraded, TypeOK
  <2>2. file' \in Logs /\ cloud' \in Logs /\ meta' \in Metas /\ reg' \in Statuses
    BY <1>22 DEF WasDegraded, TypeOK, Logs, Entries, Loops, Handlers, Metas, Statuses
  <2>3. loop' \in Loops
    BY <1>22, Blank DEF WasDegraded, TypeOK, Loops, LoopPCs, Step
  <2>4. h' \in [Handler -> Handlers]
    BY <1>22, Blank DEF WasDegraded, TypeOK, Handlers, HandlerPCs, Step
  <2>5. hist' \in [pushed : SUBSET Step, answered : SUBSET Step, added : Nat, padded : Nat,
                 late : BOOLEAN, misread : BOOLEAN, failed : BOOLEAN, results : Nat, others : Nat]
    BY <1>22 DEF WasDegraded, TypeOK, Step, Handlers
  <2> QED BY <2>1, <2>2, <2>3, <2>4, <2>5 DEF TypeOK
<1>23. ASSUME LoopRemoves
      PROVE  TypeOK'
  <2>1. maps' \in [tokens : Nat, provider : Nat, lock : Nat, degraded : BOOLEAN]
    BY <1>23 DEF LoopRemoves, RemoveSession, NoTokens, LoopGoto, TypeOK
  <2>2. file' \in Logs /\ cloud' \in Logs /\ meta' \in Metas /\ reg' \in Statuses
    BY <1>23 DEF LoopRemoves, RemoveSession, NoTokens, LoopGoto, TypeOK, Logs, Entries,
      Loops, Handlers, Metas, Statuses
  <2>3. loop' \in Loops
    BY <1>23, Blank DEF LoopRemoves, RemoveSession, NoTokens, LoopGoto, TypeOK, Loops,
      LoopPCs, Step
  <2>4. h' \in [Handler -> Handlers]
    BY <1>23, Blank DEF LoopRemoves, RemoveSession, NoTokens, LoopGoto, TypeOK, Handlers,
      HandlerPCs, Step
  <2>5. hist' \in [pushed : SUBSET Step, answered : SUBSET Step, added : Nat, padded : Nat,
                 late : BOOLEAN, misread : BOOLEAN, failed : BOOLEAN, results : Nat, others : Nat]
    BY <1>23 DEF LoopRemoves, RemoveSession, NoTokens, LoopGoto, TypeOK, Step, Handlers
  <2> QED BY <2>1, <2>2, <2>3, <2>4, <2>5 DEF TypeOK
<1>24. ASSUME LastDrain
      PROVE  TypeOK'
  <2>1. maps' \in [tokens : Nat, provider : Nat, lock : Nat, degraded : BOOLEAN]
    BY <1>24 DEF LastDrain, Drain, TypeOK
  <2>2. file' \in Logs /\ cloud' \in Logs /\ meta' \in Metas /\ reg' \in Statuses
    BY <1>24 DEF LastDrain, Drain, TypeOK, Logs, Entries, Loops, Handlers, Metas, Statuses
  <2>3. loop' \in Loops
    <3>1. loop \in Loops /\ loop.mem \in Metas /\ maps.tokens \in Nat
      BY DEF TypeOK, Loops
    <3>2. [loop.mem EXCEPT !.tokens = @ + maps.tokens] \in Metas
      BY <3>1 DEF Metas
    <3>3. loop' = [loop EXCEPT !.pc = "lastdrained", !.due = 0,
                               !.mem = [loop.mem EXCEPT !.tokens = @ + maps.tokens]]
      BY <1>24, <3>1 DEF LastDrain, Drain, Loops, Metas
    <3> QED BY <3>1, <3>2, <3>3 DEF Loops, LoopPCs
  <2>4. h' \in [Handler -> Handlers]
    BY <1>24, Blank DEF LastDrain, Drain, TypeOK, Handlers, HandlerPCs, Step
  <2>5. hist' \in [pushed : SUBSET Step, answered : SUBSET Step, added : Nat, padded : Nat,
                 late : BOOLEAN, misread : BOOLEAN, failed : BOOLEAN, results : Nat, others : Nat]
    BY <1>24 DEF LastDrain, Drain, TypeOK, Step, Handlers
  <2> QED BY <2>1, <2>2, <2>3, <2>4, <2>5 DEF TypeOK
<1>25. ASSUME NEW ok \in BOOLEAN, LastStore(ok)
      PROVE  TypeOK'
  <2>1. maps' \in [tokens : Nat, provider : Nat, lock : Nat, degraded : BOOLEAN]
    BY <1>25 DEF LastStore, Store, TypeOK
  <2>2. file' \in Logs /\ cloud' \in Logs /\ meta' \in Metas /\ reg' \in Statuses
    <3>1. loop.mem \in Metas /\ maps.provider \in Nat
      BY DEF TypeOK, Loops
    <3>2. [loop.mem EXCEPT !.provider = @ + maps.provider] \in Metas
      BY <3>1 DEF Metas
    <3> QED BY <1>25, <3>1, <3>2 DEF LastStore, Store, TypeOK
  <2>3. loop' \in Loops
    <3>1. loop \in Loops /\ loop.mem \in Metas /\ maps.provider \in Nat
      BY DEF TypeOK, Loops
    <3> DEFINE m == [loop.mem EXCEPT !.provider = @ + maps.provider]
               pc == IF loop.clean THEN "scan" ELSE "route"
    <3>2. m \in Metas
      BY <3>1 DEF Metas
    <3>3. loop' = [loop EXCEPT !.pc = pc, !.mem = m]
      BY <1>25 DEF LastStore, Store
    <3>4. pc \in LoopPCs
      BY DEF LoopPCs
    <3> HIDE DEF m, pc
    <3> QED BY <3>1, <3>2, <3>3, <3>4 DEF Loops
  <2>4. h' \in [Handler -> Handlers]
    BY <1>25, Blank DEF LastStore, Store, TypeOK, Handlers, HandlerPCs, Step
  <2>5. hist' \in [pushed : SUBSET Step, answered : SUBSET Step, added : Nat, padded : Nat,
                 late : BOOLEAN, misread : BOOLEAN, failed : BOOLEAN, results : Nat, others : Nat]
    BY <1>25 DEF LastStore, Store, TypeOK, Step, Handlers
  <2> QED BY <2>1, <2>2, <2>3, <2>4, <2>5 DEF TypeOK
<1>26. ASSUME NEW ok \in BOOLEAN, Scan(ok)
      PROVE  TypeOK'
  <2>1. maps' \in [tokens : Nat, provider : Nat, lock : Nat, degraded : BOOLEAN]
    BY <1>26 DEF Scan, TypeOK
  <2>2. file' \in Logs /\ cloud' \in Logs /\ meta' \in Metas /\ reg' \in Statuses
    BY <1>26 DEF Scan, TypeOK, Logs, Entries, Loops, Handlers, Metas, Statuses
  <2>3. loop' \in Loops
    <3> DEFINE todo == (1 .. loop.steps) \ (IF ok THEN StepsIn(file) ELSE {})
    <3>1. loop \in Loops /\ loop.steps \in 0 .. MaxSteps
      BY DEF TypeOK, Loops
    <3>2. todo \in SUBSET Step
      BY <3>1 DEF Step
    <3>3. loop' = [loop EXCEPT !.todo = todo, !.pc = "place"]
      BY <1>26 DEF Scan
    <3> HIDE DEF todo
    <3> QED BY <3>1, <3>2, <3>3 DEF Loops, LoopPCs
  <2>4. h' \in [Handler -> Handlers]
    BY <1>26, Blank DEF Scan, TypeOK, Handlers, HandlerPCs, Step
  <2>5. hist' \in [pushed : SUBSET Step, answered : SUBSET Step, added : Nat, padded : Nat,
                 late : BOOLEAN, misread : BOOLEAN, failed : BOOLEAN, results : Nat, others : Nat]
    BY <1>26 DEF Scan, TypeOK, Step, Handlers
  <2> QED BY <2>1, <2>2, <2>3, <2>4, <2>5 DEF TypeOK
<1>27. ASSUME ReadForPlaceholder
      PROVE  TypeOK'
  <2>1. maps' \in [tokens : Nat, provider : Nat, lock : Nat, degraded : BOOLEAN]
    BY <1>27 DEF ReadForPlaceholder, TypeOK
  <2>2. file' \in Logs /\ cloud' \in Logs /\ meta' \in Metas /\ reg' \in Statuses
    BY <1>27 DEF ReadForPlaceholder, TypeOK, Logs, Entries, Loops, Handlers, Metas, Statuses
  <2>3. loop' \in Loops
    BY <1>27, Blank DEF ReadForPlaceholder, TypeOK, Loops, LoopPCs, Step
  <2>4. h' \in [Handler -> Handlers]
    BY <1>27, Blank DEF ReadForPlaceholder, TypeOK, Handlers, HandlerPCs, Step
  <2>5. hist' \in [pushed : SUBSET Step, answered : SUBSET Step, added : Nat, padded : Nat,
                 late : BOOLEAN, misread : BOOLEAN, failed : BOOLEAN, results : Nat, others : Nat]
    BY <1>27 DEF ReadForPlaceholder, TypeOK, Step, Handlers
  <2> QED BY <2>1, <2>2, <2>3, <2>4, <2>5 DEF TypeOK
<1>28. ASSUME NEW ok \in BOOLEAN, WritePlaceholder(ok)
      PROVE  TypeOK'
  <2>1. maps' \in [tokens : Nat, provider : Nat, lock : Nat, degraded : BOOLEAN]
    BY <1>28 DEF WritePlaceholder, TypeOK
  <2>2. file' \in Logs /\ cloud' \in Logs /\ meta' \in Metas /\ reg' \in Statuses
    BY <1>28 DEF WritePlaceholder, TypeOK, Logs, Entries, Loops, Handlers, Metas, Statuses
  <2>3. loop' \in Loops
    BY <1>28, Blank DEF WritePlaceholder, TypeOK, Loops, LoopPCs, Step
  <2>4. h' \in [Handler -> Handlers]
    BY <1>28, Blank DEF WritePlaceholder, TypeOK, Handlers, HandlerPCs, Step
  <2>5. hist' \in [pushed : SUBSET Step, answered : SUBSET Step, added : Nat, padded : Nat,
                 late : BOOLEAN, misread : BOOLEAN, failed : BOOLEAN, results : Nat, others : Nat]
    BY <1>28 DEF WritePlaceholder, TypeOK, Step, Handlers
  <2> QED BY <2>1, <2>2, <2>3, <2>4, <2>5 DEF TypeOK
<1>29. ASSUME Placed
      PROVE  TypeOK'
  <2>1. maps' \in [tokens : Nat, provider : Nat, lock : Nat, degraded : BOOLEAN]
    BY <1>29 DEF Placed, LoopGoto, TypeOK
  <2>2. file' \in Logs /\ cloud' \in Logs /\ meta' \in Metas /\ reg' \in Statuses
    BY <1>29 DEF Placed, LoopGoto, TypeOK, Logs, Entries, Loops, Handlers, Metas, Statuses
  <2>3. loop' \in Loops
    BY <1>29, Blank DEF Placed, LoopGoto, TypeOK, Loops, LoopPCs, Step
  <2>4. h' \in [Handler -> Handlers]
    BY <1>29, Blank DEF Placed, LoopGoto, TypeOK, Handlers, HandlerPCs, Step
  <2>5. hist' \in [pushed : SUBSET Step, answered : SUBSET Step, added : Nat, padded : Nat,
                 late : BOOLEAN, misread : BOOLEAN, failed : BOOLEAN, results : Nat, others : Nat]
    BY <1>29 DEF Placed, LoopGoto, TypeOK, Step, Handlers
  <2> QED BY <2>1, <2>2, <2>3, <2>4, <2>5 DEF TypeOK
<1>30. ASSUME NEW ok \in BOOLEAN, ReadPlaceholders(ok)
      PROVE  TypeOK'
  <2>1. maps' \in [tokens : Nat, provider : Nat, lock : Nat, degraded : BOOLEAN]
    BY <1>30 DEF ReadPlaceholders, LoopGoto, TypeOK
  <2>2. file' \in Logs /\ cloud' \in Logs /\ meta' \in Metas /\ reg' \in Statuses
    BY <1>30 DEF ReadPlaceholders, LoopGoto, TypeOK, Logs, Entries, Loops, Handlers, Metas,
      Statuses
  <2>3. loop' \in Loops
    <3>1. loop \in Loops
      BY DEF TypeOK
    <3>2. [loop EXCEPT !.pc = "put", !.seen = file] \in Loops /\ [loop EXCEPT !.pc = "route"] \in Loops
      BY <3>1 DEF Loops, LoopPCs, TypeOK
    <3> QED BY <1>30, <3>2 DEF ReadPlaceholders, LoopGoto
  <2>4. h' \in [Handler -> Handlers]
    BY <1>30, Blank DEF ReadPlaceholders, LoopGoto, TypeOK, Handlers, HandlerPCs, Step
  <2>5. hist' \in [pushed : SUBSET Step, answered : SUBSET Step, added : Nat, padded : Nat,
                 late : BOOLEAN, misread : BOOLEAN, failed : BOOLEAN, results : Nat, others : Nat]
    BY <1>30 DEF ReadPlaceholders, LoopGoto, TypeOK, Step, Handlers
  <2> QED BY <2>1, <2>2, <2>3, <2>4, <2>5 DEF TypeOK
<1>31. ASSUME NEW ok \in BOOLEAN, PutPlaceholders(ok)
      PROVE  TypeOK'
  <2>1. maps' \in [tokens : Nat, provider : Nat, lock : Nat, degraded : BOOLEAN]
    BY <1>31 DEF PutPlaceholders, Put, TypeOK
  <2>2. file' \in Logs /\ cloud' \in Logs /\ meta' \in Metas /\ reg' \in Statuses
    BY <1>31 DEF PutPlaceholders, Put, TypeOK, Logs, Entries, Loops, Handlers, Metas,
      Statuses
  <2>3. loop' \in Loops
    BY <1>31, Blank DEF PutPlaceholders, Put, TypeOK, Loops, LoopPCs, Step
  <2>4. h' \in [Handler -> Handlers]
    BY <1>31, Blank DEF PutPlaceholders, Put, TypeOK, Handlers, HandlerPCs, Step
  <2>5. hist' \in [pushed : SUBSET Step, answered : SUBSET Step, added : Nat, padded : Nat,
                 late : BOOLEAN, misread : BOOLEAN, failed : BOOLEAN, results : Nat, others : Nat]
    BY <1>31 DEF PutPlaceholders, Put, TypeOK, Step, Handlers
  <2> QED BY <2>1, <2>2, <2>3, <2>4, <2>5 DEF TypeOK
<1>32. ASSUME LoopEnds
      PROVE  TypeOK'
  <2>1. maps' \in [tokens : Nat, provider : Nat, lock : Nat, degraded : BOOLEAN]
    BY <1>32 DEF LoopEnds, LoopGoto, TypeOK
  <2>2. file' \in Logs /\ cloud' \in Logs /\ meta' \in Metas /\ reg' \in Statuses
    BY <1>32 DEF LoopEnds, LoopGoto, TypeOK, Logs, Entries, Loops, Handlers, Metas, Statuses
  <2>3. loop' \in Loops
    BY <1>32, Blank DEF LoopEnds, LoopGoto, TypeOK, Loops, LoopPCs, Step
  <2>4. h' \in [Handler -> Handlers]
    BY <1>32, Blank DEF LoopEnds, LoopGoto, TypeOK, Handlers, HandlerPCs, Step
  <2>5. hist' \in [pushed : SUBSET Step, answered : SUBSET Step, added : Nat, padded : Nat,
                 late : BOOLEAN, misread : BOOLEAN, failed : BOOLEAN, results : Nat, others : Nat]
    BY <1>32 DEF LoopEnds, LoopGoto, TypeOK, Step, Handlers
  <2> QED BY <2>1, <2>2, <2>3, <2>4, <2>5 DEF TypeOK
<1>33. CASE UNCHANGED vars
  BY <1>33 DEF vars, TypeOK
<1> QED BY <1>1, <1>2, <1>3, <1>4, <1>5, <1>6, <1>7, <1>8, <1>9, <1>10, <1>11, <1>12,
      <1>13, <1>14, <1>15, <1>16, <1>17, <1>18, <1>19, <1>20, <1>21, <1>22, <1>23, <1>24,
      <1>25, <1>26, <1>27, <1>28, <1>29, <1>30, <1>31, <1>32, <1>33 DEF Next, LoopNext,
      HandlerNext

-----------------------------------------------------------------------------

(* Results and placeholders are about steps that were recorded.            *)
LEMMA StepsStep ==
  ASSUME TypeOK, StepsKnown, [Next]_vars
  PROVE  StepsKnown'
<1> USE LogBounds
<1>1. ASSUME NEW x \in Handler, NEW n \in Step, ReasoningResult(x, n)
      PROVE  StepsKnown'
  BY <1>1 DEF ReasoningResult, TypeOK, StepsKnown, Writing, Handlers, Loops, Idle, Step
<1>2. ASSUME NEW x \in Handler, SessionWriteLock(x)
      PROVE  StepsKnown'
  BY <1>2 DEF SessionWriteLock, TypeOK, StepsKnown, Writing, Handlers, Loops, Idle, Step
<1>3. ASSUME NEW x \in Handler, Acquire(x)
      PROVE  StepsKnown'
  BY <1>3 DEF Acquire, TypeOK, StepsKnown, Writing, Handlers, Loops, Idle, Step
<1>4. ASSUME NEW x \in Handler, NEW ok \in BOOLEAN, UpsertEntry(x, ok)
      PROVE  StepsKnown'
  BY <1>4 DEF UpsertEntry, MayFail, TypeOK, StepsKnown, Writing, Handlers, Loops, Idle, Step
<1>5. ASSUME NEW x \in Handler, NEW ok \in BOOLEAN, ReadLog(x, ok)
      PROVE  StepsKnown'
  BY <1>5 DEF ReadLog, Goto, MayFail, TypeOK, StepsKnown, Writing, Handlers, Loops, Idle,
    Step
<1>6. ASSUME NEW x \in Handler, NEW ok \in BOOLEAN, PutLog(x, ok)
      PROVE  StepsKnown'
  BY <1>6 DEF PutLog, Put, MayFail, TypeOK, StepsKnown, Writing, Handlers, Loops, Idle, Step
<1>7. ASSUME NEW x \in Handler, AddTokens(x)
      PROVE  StepsKnown'
  BY <1>7 DEF AddTokens, Goto, TypeOK, StepsKnown, Writing, Handlers, Loops, Idle, Step
<1>8. ASSUME NEW x \in Handler, AddProviderTokens(x)
      PROVE  StepsKnown'
  BY <1>8 DEF AddProviderTokens, TypeOK, StepsKnown, Writing, Handlers, Loops, Idle, Step
<1>9. ASSUME NEW x \in Handler, ReasoningDegraded(x)
      PROVE  StepsKnown'
  BY <1>9 DEF ReasoningDegraded, Other, Goto, TypeOK, StepsKnown, Writing, Handlers, Loops,
    Idle, Step
<1>10. ASSUME NEW x \in Handler, CircuitReset(x)
      PROVE  StepsKnown'
  BY <1>10 DEF CircuitReset, Other, Goto, TypeOK, StepsKnown, Writing, Handlers, Loops,
    Idle, Step
<1>11. ASSUME NEW x \in Handler, SetStatus(x)
      PROVE  StepsKnown'
  BY <1>11 DEF SetStatus, TypeOK, StepsKnown, Writing, Handlers, Loops, Idle, Step
<1>12. ASSUME NEW x \in Handler, DirectDone(x)
      PROVE  StepsKnown'
  BY <1>12 DEF DirectDone, Other, Goto, TypeOK, StepsKnown, Writing, Handlers, Loops, Idle,
    Step
<1>13. ASSUME NEW x \in Handler, DirectFetch(x)
      PROVE  StepsKnown'
  BY <1>13 DEF DirectFetch, TypeOK, StepsKnown, Writing, Handlers, Loops, Idle, Step
<1>14. ASSUME NEW x \in Handler, NEW ok \in BOOLEAN, DirectWrite(x, ok)
      PROVE  StepsKnown'
  BY <1>14 DEF DirectWrite, TypeOK, StepsKnown, Writing, Handlers, Loops, Idle, Step
<1>15. ASSUME NEW x \in Handler, DirectAsk(x)
      PROVE  StepsKnown'
  BY <1>15 DEF DirectAsk, TypeOK, StepsKnown, Writing, Handlers, Loops, Idle, Step
<1>16. ASSUME NEW x \in Handler, DirectRemove(x)
      PROVE  StepsKnown'
  BY <1>16 DEF DirectRemove, RemoveSession, NoTokens, Goto, TypeOK, StepsKnown, Writing,
    Handlers, Loops, Idle, Step
<1>17. ASSUME NEW push \in BOOLEAN, Capture(push)
      PROVE  StepsKnown'
  BY <1>17 DEF Capture, TypeOK, StepsKnown, Writing, Handlers, Loops, Idle, Step
<1>18. ASSUME SkipFlush
      PROVE  StepsKnown'
  BY <1>18 DEF SkipFlush, TypeOK, StepsKnown, Writing, Handlers, Loops, Idle, Step
<1>19. ASSUME FlushDrain
      PROVE  StepsKnown'
  BY <1>19 DEF FlushDrain, Drain, TypeOK, StepsKnown, Writing, Handlers, Loops, Idle, Step
<1>20. ASSUME NEW ok \in BOOLEAN, FlushStore(ok)
      PROVE  StepsKnown'
  BY <1>20 DEF FlushStore, Store, TypeOK, StepsKnown, Writing, Handlers, Loops, Idle, Step
<1>21. ASSUME NEW clean \in BOOLEAN, Break(clean)
      PROVE  StepsKnown'
  BY <1>21 DEF Break, TypeOK, StepsKnown, Writing, Handlers, Loops, Idle, Step
<1>22. ASSUME WasDegraded
      PROVE  StepsKnown'
  BY <1>22 DEF WasDegraded, TypeOK, StepsKnown, Writing, Handlers, Loops, Idle, Step
<1>23. ASSUME LoopRemoves
      PROVE  StepsKnown'
  BY <1>23 DEF LoopRemoves, RemoveSession, NoTokens, LoopGoto, TypeOK, StepsKnown, Writing,
    Handlers, Loops, Idle, Step
<1>24. ASSUME LastDrain
      PROVE  StepsKnown'
  BY <1>24 DEF LastDrain, Drain, TypeOK, StepsKnown, Writing, Handlers, Loops, Idle, Step
<1>25. ASSUME NEW ok \in BOOLEAN, LastStore(ok)
      PROVE  StepsKnown'
  BY <1>25 DEF LastStore, Store, TypeOK, StepsKnown, Writing, Handlers, Loops, Idle, Step
<1>26. ASSUME NEW ok \in BOOLEAN, Scan(ok)
      PROVE  StepsKnown'
  BY <1>26 DEF Scan, TypeOK, StepsKnown, Writing, Handlers, Loops, Idle, Step
<1>27. ASSUME ReadForPlaceholder
      PROVE  StepsKnown'
  BY <1>27 DEF ReadForPlaceholder, TypeOK, StepsKnown, Writing, Handlers, Loops, Idle, Step
<1>28. ASSUME NEW ok \in BOOLEAN, WritePlaceholder(ok)
      PROVE  StepsKnown'
  BY <1>28 DEF WritePlaceholder, TypeOK, StepsKnown, Writing, Handlers, Loops, Idle, Step
<1>29. ASSUME Placed
      PROVE  StepsKnown'
  BY <1>29 DEF Placed, LoopGoto, TypeOK, StepsKnown, Writing, Handlers, Loops, Idle, Step
<1>30. ASSUME NEW ok \in BOOLEAN, ReadPlaceholders(ok)
      PROVE  StepsKnown'
  <2>1. /\ loop'.pc \in {"put", "route"} /\ loop'.steps = loop.steps /\ loop'.todo = loop.todo
        /\ loop'.clean = loop.clean /\ loop.clean /\ h' = h /\ hist'.pushed = hist.pushed
    BY <1>30 DEF ReadPlaceholders, LoopGoto, TypeOK, StepsKnown, Loops
  <2> QED BY <2>1 DEF StepsKnown
<1>31. ASSUME NEW ok \in BOOLEAN, PutPlaceholders(ok)
      PROVE  StepsKnown'
  BY <1>31 DEF PutPlaceholders, Put, TypeOK, StepsKnown, Writing, Handlers, Loops, Idle,
    Step
<1>32. ASSUME LoopEnds
      PROVE  StepsKnown'
  BY <1>32 DEF LoopEnds, LoopGoto, TypeOK, StepsKnown, Writing, Handlers, Loops, Idle, Step
<1>33. CASE UNCHANGED vars
  BY <1>33 DEF vars, TypeOK, StepsKnown, Writing, Handlers, Loops, Idle, Step
<1> QED BY <1>1, <1>2, <1>3, <1>4, <1>5, <1>6, <1>7, <1>8, <1>9, <1>10, <1>11, <1>12,
      <1>13, <1>14, <1>15, <1>16, <1>17, <1>18, <1>19, <1>20, <1>21, <1>22, <1>23, <1>24,
      <1>25, <1>26, <1>27, <1>28, <1>29, <1>30, <1>31, <1>32, <1>33 DEF Next, LoopNext,
      HandlerNext

-----------------------------------------------------------------------------
(* A set of numbers that is not empty has a least one.                      *)
LEMMA LeastOf ==
  ASSUME NEW S \in SUBSET Nat, S # {}
  PROVE  \E n \in S : \A k \in S : n <= k
<1>1. PICK n \in S : \A k \in S : ~(<<k, n>> \in OpToRel(<, Nat))
  BY NatLessThanWellFounded, WFMin
<1>2. \A k \in S : ~(k < n)
  BY <1>1 DEF OpToRel
<1> QED BY <1>2

(* The placeholder written next is one of those to be written.              *)
LEMMA LeastTodo ==
  ASSUME TypeOK, loop.todo # {}
  PROVE  (CHOOSE m \in loop.todo : \A k \in loop.todo : m <= k) \in loop.todo
<1>1. loop.todo \in SUBSET Nat
  BY LogBounds DEF TypeOK, Loops, Step
<1> QED BY <1>1, LeastOf

(* What upsert_entry leaves when the entry is written, and when it is not. *)
LEMMA UpsertEffect ==
  ASSUME TypeOK, StepsKnown, NEW x \in Handler, NEW ok \in BOOLEAN, UpsertEntry(x, ok)
  PROVE  /\ maps' = maps /\ hist' = hist /\ loop' = loop /\ cloud' = cloud
         /\ \A y \in Handler : y # x => h'[y] = h[y]
         /\ h[x].pc = "upsert" /\ h[x].step \in Step /\ h[x].seen \in Logs
         /\ h[x].step \in hist.pushed
         /\ ok => /\ file' = [h[x].seen EXCEPT ![h[x].step] = "model"]
                  /\ h'[x].pc = IF Cloud THEN "read" ELSE "tokens"
                  /\ h'[x].lock = h[x].lock /\ h'[x].step = h[x].step
         /\ ~ok => file' = file /\ h'[x].pc = "idle"
<1>1. h[x].pc = "upsert" /\ h[x] \in Handlers /\ h[x].step \in hist.pushed
  BY DEF UpsertEntry, TypeOK, StepsKnown, Writing
<1>2. h[x].step \in Step /\ h[x].seen \in Logs
  BY <1>1 DEF TypeOK, Handlers
<1>3. ASSUME ok
      PROVE  h'[x].pc = (IF Cloud THEN "read" ELSE "tokens") /\ h'[x].lock = h[x].lock
             /\ h'[x].step = h[x].step
  BY <1>1, <1>3 DEF UpsertEntry, TypeOK, Handlers
<1>4. ASSUME ~ok PROVE h'[x].pc = "idle"
  BY <1>4 DEF UpsertEntry, TypeOK, Idle
<1>5. \A y \in Handler : y # x => h'[y] = h[y]
  BY DEF UpsertEntry, TypeOK
<1> QED BY <1>1, <1>2, <1>3, <1>4, <1>5 DEF UpsertEntry

(* What a placeholder leaves.                                               *)
LEMMA PlaceholderEffect ==
  ASSUME TypeOK, StepsKnown, NEW ok \in BOOLEAN, WritePlaceholder(ok)
  PROVE  /\ maps' = maps /\ h' = h /\ cloud' = cloud
         /\ loop.pc = "replace" /\ loop'.pc = "place" /\ loop.clean
         /\ \E n \in loop.todo :
              /\ n \in Step /\ n \in 1 .. loop.steps
              /\ loop'.todo = loop.todo \ {n}
              /\ file' = IF ok THEN [loop.seen EXCEPT ![n] = "placeholder"] ELSE file
         /\ loop'.steps = loop.steps /\ loop'.clean = loop.clean /\ loop'.cloud = loop.cloud
         /\ loop'.wrote = (loop.wrote \/ ok)
         /\ hist'.late = hist.late /\ hist'.misread = hist.misread
         /\ hist'.failed = (hist.failed \/ ~ok) /\ hist'.answered = hist.answered
         /\ hist'.pushed = hist.pushed
<1> DEFINE n == CHOOSE m \in loop.todo : \A k \in loop.todo : m <= k
<1>1. loop.pc = "replace" /\ loop.todo # {} /\ loop.todo \subseteq 1 .. loop.steps /\ loop.clean
  BY DEF WritePlaceholder, StepsKnown
<1>2. n \in loop.todo
  BY <1>1, LeastTodo
<1>3. loop \in Loops /\ loop.todo \subseteq Step
  BY DEF TypeOK, Loops
<1>4. /\ loop' = [loop EXCEPT !.todo = @ \ {n}, !.seen = EmptyLog, !.pc = "place",
                              !.wrote = @ \/ ok]
      /\ hist' = [hist EXCEPT !.failed = @ \/ ~ok]
      /\ file' = IF ok THEN [loop.seen EXCEPT ![n] = "placeholder"] ELSE file
      /\ maps' = maps /\ h' = h /\ cloud' = cloud
  BY DEF WritePlaceholder
<1> HIDE DEF n
<1>5. /\ loop'.pc = "place" /\ loop'.todo = loop.todo \ {n}
      /\ loop'.steps = loop.steps /\ loop'.clean = loop.clean /\ loop'.cloud = loop.cloud
      /\ loop'.wrote = (loop.wrote \/ ok)
  BY <1>3, <1>4 DEF Loops
<1>6. /\ hist'.late = hist.late /\ hist'.misread = hist.misread
      /\ hist'.failed = (hist.failed \/ ~ok) /\ hist'.answered = hist.answered
      /\ hist'.pushed = hist.pushed
  BY <1>4 DEF TypeOK
<1> QED BY <1>1, <1>2, <1>3, <1>4, <1>5, <1>6

(* Results are written one at a time, and none while placeholders are.      *)
LEMMA AloneStep ==
  ASSUME TypeOK, StepsKnown, WritersAlone, [Next]_vars
  PROVE  WritersAlone'
<1> USE LogBounds
<1>1. ASSUME NEW x \in Handler, NEW n \in Step, ReasoningResult(x, n)
      PROVE  WritersAlone'
  BY <1>1 DEF ReasoningResult, TypeOK, StepsKnown, WritersAlone, Writing, Closing, StepsIn,
    Handlers, Loops, Idle
<1>2. ASSUME NEW x \in Handler, SessionWriteLock(x)
      PROVE  WritersAlone'
  <2>1. PICK l \in Nat : /\ l # 0 /\ (maps.lock # 0 => l = maps.lock)
                         /\ maps' = [maps EXCEPT !.lock = l]
                         /\ h' = [h EXCEPT ![x].pc = "wait", ![x].lock = l]
    BY <1>2, LockChosen
  <2>2. file' = file /\ loop' = loop /\ hist' = hist
    BY <1>2 DEF SessionWriteLock
  <2>3. /\ maps'.lock = l /\ h'[x].pc = "wait" /\ h'[x].lock = l
        /\ \A y \in Handler : y # x => h'[y] = h[y]
    BY <2>1 DEF TypeOK, Handlers
  <2> SUFFICES ASSUME ~hist.late PROVE WritersAlone'
    BY <2>2 DEF WritersAlone
  <2>4. \A y \in Handler : h'[y].pc \in Writing \cup {"wait"} =>
           h'[y].lock # 0 /\ h'[y].lock = maps'.lock
    <3>1. l # 0 /\ (maps.lock # 0 => l = maps.lock)
      BY <2>1
    <3> QED BY <2>3, <3>1 DEF WritersAlone
  <2>5. \A y \in Handler : h'[y].pc \in Writing => y # x /\ h'[y] = h[y]
    BY <2>3 DEF Writing
  <2>6. \A y \in Handler : h'[y].pc = "upsert" => y # x /\ h'[y] = h[y]
    BY <2>3
  <2> QED BY <2>2, <2>4, <2>5, <2>6 DEF WritersAlone, Closing, StepsIn
<1>3. ASSUME NEW x \in Handler, Acquire(x)
      PROVE  WritersAlone'
  <2>1. maps' = maps /\ file' = file /\ loop' = loop /\ h[x].pc = "wait"
    BY <1>3 DEF Acquire
  <2>2. /\ h'[x].pc = "upsert" /\ h'[x].seen = file /\ h'[x].lock = h[x].lock
        /\ \A y \in Handler : y # x => h'[y] = h[y]
    BY <1>3 DEF Acquire, TypeOK, Handlers
  <2>3. hist'.late = (hist.late \/ Closing)
    BY <1>3 DEF Acquire, TypeOK
  <2>4. \A y \in Handler : h[y].lock = h[x].lock => h[y].pc \notin Writing
    BY <1>3 DEF Acquire
  <2>5. ASSUME ~hist'.late PROVE \A y \in Handler : h[y].pc \notin Writing
    <3>1. ~hist.late
      BY <2>3, <2>5
    <3>2. \A y \in Handler : h[y].pc \in Writing \cup {"wait"} => h[y].lock = maps.lock
      BY <3>1 DEF WritersAlone
    <3> QED BY <2>1, <2>4, <3>2
  <2> SUFFICES ASSUME ~hist'.late PROVE WritersAlone'
    BY DEF WritersAlone
  <2>6. ~hist.late /\ ~Closing
    BY <2>3
  <2>7. \A y \in Handler : h'[y].pc \in Writing \cup {"wait"} =>
           h'[y].lock # 0 /\ h'[y].lock = maps'.lock
    BY <2>1, <2>2, <2>6 DEF WritersAlone
  <2>8. \A y \in Handler : h'[y].pc \in Writing => y = x
    BY <2>2, <2>5
  <2>9. \A y \in Handler : h'[y].pc = "upsert" => h'[y].seen = file'
    BY <2>1, <2>2, <2>8 DEF Writing
  <2> QED BY <2>1, <2>6, <2>7, <2>8, <2>9 DEF WritersAlone, Closing, StepsIn
<1>4. ASSUME NEW x \in Handler, NEW ok \in BOOLEAN, UpsertEntry(x, ok)
      PROVE  WritersAlone'
  <2>1. /\ maps' = maps /\ hist' = hist /\ loop' = loop
        /\ \A y \in Handler : y # x => h'[y] = h[y]
        /\ h[x].pc = "upsert" /\ h[x].step \in Step /\ h[x].seen \in Logs
        /\ h[x].step \in hist.pushed
        /\ ok => /\ file' = [h[x].seen EXCEPT ![h[x].step] = "model"]
                 /\ h'[x].pc = IF Cloud THEN "read" ELSE "tokens"
                 /\ h'[x].lock = h[x].lock
        /\ ~ok => file' = file /\ h'[x].pc = "idle"
    BY <1>4, UpsertEffect
  <2> SUFFICES ASSUME ~hist.late PROVE WritersAlone'
    BY <2>1 DEF WritersAlone
  <2>2. h[x].seen = file /\ \A y \in Handler : y # x => h[y].pc \notin Writing
    BY <2>1 DEF WritersAlone, Writing
  <2>3. loop.pc # "replace"
    BY <2>1 DEF WritersAlone, Closing, Writing
  <2>4. StepsIn(file') \subseteq 1 .. loop.steps
    <3>1. StepsIn(file) \subseteq 1 .. loop.steps /\ h[x].step \in 1 .. loop.steps
      BY <2>1 DEF WritersAlone, StepsKnown
    <3> QED BY <2>1, <2>2, <3>1 DEF StepsIn, Logs
  <2>5. \A y \in Handler : h'[y].pc \in Writing => y = x
    BY <2>1, <2>2
  <2>6. h'[x].pc # "upsert" /\ (h'[x].pc \in Writing \cup {"wait"} => h'[x].lock = h[x].lock)
    BY <2>1 DEF Writing
  <2> QED BY <2>1, <2>2, <2>3, <2>4, <2>5, <2>6 DEF WritersAlone, Writing, Closing
<1>5. ASSUME NEW x \in Handler, NEW ok \in BOOLEAN, ReadLog(x, ok)
      PROVE  WritersAlone'
  BY <1>5 DEF ReadLog, Goto, MayFail, TypeOK, StepsKnown, WritersAlone, Writing, Closing,
    StepsIn, Handlers, Loops, Idle
<1>6. ASSUME NEW x \in Handler, NEW ok \in BOOLEAN, PutLog(x, ok)
      PROVE  WritersAlone'
  BY <1>6 DEF PutLog, Put, MayFail, TypeOK, StepsKnown, WritersAlone, Writing, Closing,
    StepsIn, Handlers, Loops, Idle
<1>7. ASSUME NEW x \in Handler, AddTokens(x)
      PROVE  WritersAlone'
  BY <1>7 DEF AddTokens, Goto, TypeOK, StepsKnown, WritersAlone, Writing, Closing, StepsIn,
    Handlers, Loops, Idle
<1>8. ASSUME NEW x \in Handler, AddProviderTokens(x)
      PROVE  WritersAlone'
  BY <1>8 DEF AddProviderTokens, TypeOK, StepsKnown, WritersAlone, Writing, Closing,
    StepsIn, Handlers, Loops, Idle
<1>9. ASSUME NEW x \in Handler, ReasoningDegraded(x)
      PROVE  WritersAlone'
  BY <1>9 DEF ReasoningDegraded, Other, Goto, TypeOK, StepsKnown, WritersAlone, Writing,
    Closing, StepsIn, Handlers, Loops, Idle
<1>10. ASSUME NEW x \in Handler, CircuitReset(x)
      PROVE  WritersAlone'
  BY <1>10 DEF CircuitReset, Other, Goto, TypeOK, StepsKnown, WritersAlone, Writing,
    Closing, StepsIn, Handlers, Loops, Idle
<1>11. ASSUME NEW x \in Handler, SetStatus(x)
      PROVE  WritersAlone'
  BY <1>11 DEF SetStatus, TypeOK, StepsKnown, WritersAlone, Writing, Closing, StepsIn,
    Handlers, Loops, Idle
<1>12. ASSUME NEW x \in Handler, DirectDone(x)
      PROVE  WritersAlone'
  <2>1. /\ file' = file /\ loop' = loop /\ maps'.lock = maps.lock /\ hist'.late = hist.late
        /\ h'[x].pc \in {"asked", "fetch"} /\ \A y \in Handler : y # x => h'[y] = h[y]
    BY <1>12 DEF DirectDone, Other, Goto, TypeOK, Handlers
  <2> QED BY <2>1 DEF WritersAlone, Writing, Closing, StepsIn
<1>13. ASSUME NEW x \in Handler, DirectFetch(x)
      PROVE  WritersAlone'
  BY <1>13 DEF DirectFetch, TypeOK, StepsKnown, WritersAlone, Writing, Closing, StepsIn,
    Handlers, Loops, Idle
<1>14. ASSUME NEW x \in Handler, NEW ok \in BOOLEAN, DirectWrite(x, ok)
      PROVE  WritersAlone'
  BY <1>14 DEF DirectWrite, TypeOK, StepsKnown, WritersAlone, Writing, Closing, StepsIn,
    Handlers, Loops, Idle
<1>15. ASSUME NEW x \in Handler, DirectAsk(x)
      PROVE  WritersAlone'
  BY <1>15 DEF DirectAsk, TypeOK, StepsKnown, WritersAlone, Writing, Closing, StepsIn,
    Handlers, Loops, Idle
<1>16. ASSUME NEW x \in Handler, DirectRemove(x)
      PROVE  WritersAlone'
  <2>1. /\ file' = file /\ loop' = loop
        /\ hist'.late = (hist.late \/ \E y \in Handler : h[y].pc \in Writing \cup {"wait"})
    BY <1>16 DEF DirectRemove, RemoveSession, TypeOK
  <2>2. h'[x].pc = "route" /\ \A y \in Handler : y # x => h'[y] = h[y]
    BY <1>16 DEF DirectRemove, Goto, TypeOK, Handlers
  <2>3. ASSUME ~hist'.late PROVE \A y \in Handler : h'[y].pc \notin Writing \cup {"wait"}
    BY <2>1, <2>2, <2>3 DEF Writing
  <2> QED BY <2>1, <2>3 DEF WritersAlone, Writing, Closing, StepsIn
<1>17. ASSUME NEW push \in BOOLEAN, Capture(push)
      PROVE  WritersAlone'
  BY <1>17 DEF Capture, TypeOK, StepsKnown, WritersAlone, Writing, Closing, StepsIn,
    Handlers, Loops, Idle
<1>18. ASSUME SkipFlush
      PROVE  WritersAlone'
  BY <1>18 DEF SkipFlush, TypeOK, StepsKnown, WritersAlone, Writing, Closing, StepsIn,
    Handlers, Loops, Idle
<1>19. ASSUME FlushDrain
      PROVE  WritersAlone'
  BY <1>19 DEF FlushDrain, Drain, TypeOK, StepsKnown, WritersAlone, Writing, Closing,
    StepsIn, Handlers, Loops, Idle
<1>20. ASSUME NEW ok \in BOOLEAN, FlushStore(ok)
      PROVE  WritersAlone'
  BY <1>20 DEF FlushStore, Store, TypeOK, StepsKnown, WritersAlone, Writing, Closing,
    StepsIn, Handlers, Loops, Idle
<1>21. ASSUME NEW clean \in BOOLEAN, Break(clean)
      PROVE  WritersAlone'
  BY <1>21 DEF Break, TypeOK, StepsKnown, WritersAlone, Writing, Closing, StepsIn,
    Handlers, Loops, Idle
<1>22. ASSUME WasDegraded
      PROVE  WritersAlone'
  BY <1>22 DEF WasDegraded, TypeOK, StepsKnown, WritersAlone, Writing, Closing, StepsIn,
    Handlers, Loops, Idle
<1>23. ASSUME LoopRemoves
      PROVE  WritersAlone'
  BY <1>23 DEF LoopRemoves, RemoveSession, NoTokens, LoopGoto, TypeOK, StepsKnown,
    WritersAlone, Writing, Closing, StepsIn, Handlers, Loops, Idle
<1>24. ASSUME LastDrain
      PROVE  WritersAlone'
  BY <1>24 DEF LastDrain, Drain, TypeOK, StepsKnown, WritersAlone, Writing, Closing,
    StepsIn, Handlers, Loops, Idle
<1>25. ASSUME NEW ok \in BOOLEAN, LastStore(ok)
      PROVE  WritersAlone'
  BY <1>25 DEF LastStore, Store, TypeOK, StepsKnown, WritersAlone, Writing, Closing,
    StepsIn, Handlers, Loops, Idle
<1>26. ASSUME NEW ok \in BOOLEAN, Scan(ok)
      PROVE  WritersAlone'
  BY <1>26 DEF Scan, TypeOK, StepsKnown, WritersAlone, Writing, Closing, StepsIn, Handlers,
    Loops, Idle
<1>27. ASSUME ReadForPlaceholder
      PROVE  WritersAlone'
  BY <1>27 DEF ReadForPlaceholder, TypeOK, StepsKnown, WritersAlone, Writing, Closing,
    StepsIn, Handlers, Loops, Idle
<1>28. ASSUME NEW ok \in BOOLEAN, WritePlaceholder(ok)
      PROVE  WritersAlone'
  <2>1. /\ maps' = maps /\ h' = h /\ loop.pc = "replace" /\ loop'.pc = "place"
        /\ loop'.steps = loop.steps /\ hist'.late = hist.late /\ hist'.misread = hist.misread
        /\ hist'.answered = hist.answered
    BY <1>28, PlaceholderEffect
  <2>2. PICK n \in loop.todo :
          /\ n \in Step /\ n \in 1 .. loop.steps /\ loop'.todo = loop.todo \ {n}
          /\ file' = IF ok THEN [loop.seen EXCEPT ![n] = "placeholder"] ELSE file
    BY <1>28, PlaceholderEffect
  <2> SUFFICES ASSUME ~hist.late PROVE WritersAlone'
    BY <2>1 DEF WritersAlone
  <2>3. loop.seen = file /\ \A x \in Handler : h[x].pc \notin Writing
    BY <2>1 DEF WritersAlone, Closing
  <2>4. StepsIn(file') \subseteq 1 .. loop.steps
    BY <2>1, <2>2, <2>3 DEF WritersAlone, StepsIn, TypeOK, Logs
  <2> QED BY <2>1, <2>3, <2>4 DEF WritersAlone, Writing, Closing
<1>29. ASSUME Placed
      PROVE  WritersAlone'
  BY <1>29 DEF Placed, LoopGoto, TypeOK, StepsKnown, WritersAlone, Writing, Closing,
    StepsIn, Handlers, Loops, Idle
<1>30. ASSUME NEW ok \in BOOLEAN, ReadPlaceholders(ok)
      PROVE  WritersAlone'
  BY <1>30 DEF ReadPlaceholders, LoopGoto, TypeOK, StepsKnown, WritersAlone, Writing,
    Closing, StepsIn, Handlers, Loops, Idle
<1>31. ASSUME NEW ok \in BOOLEAN, PutPlaceholders(ok)
      PROVE  WritersAlone'
  BY <1>31 DEF PutPlaceholders, Put, TypeOK, StepsKnown, WritersAlone, Writing, Closing,
    StepsIn, Handlers, Loops, Idle
<1>32. ASSUME LoopEnds
      PROVE  WritersAlone'
  BY <1>32 DEF LoopEnds, LoopGoto, TypeOK, StepsKnown, WritersAlone, Writing, Closing,
    StepsIn, Handlers, Loops, Idle
<1>33. CASE UNCHANGED vars
  BY <1>33 DEF vars, TypeOK, StepsKnown, WritersAlone, Writing, Closing, StepsIn, Handlers,
    Loops, Idle
<1> QED BY <1>1, <1>2, <1>3, <1>4, <1>5, <1>6, <1>7, <1>8, <1>9, <1>10, <1>11, <1>12,
      <1>13, <1>14, <1>15, <1>16, <1>17, <1>18, <1>19, <1>20, <1>21, <1>22, <1>23, <1>24,
      <1>25, <1>26, <1>27, <1>28, <1>29, <1>30, <1>31, <1>32, <1>33 DEF Next, LoopNext,
      HandlerNext

(* No entry takes the place of an accepted result.                          *)
LEMMA KeptStep ==
  ASSUME TypeOK, StepsKnown, WritersAlone, ResultsKept, [Next]_vars
  PROVE  ResultsKept'
<1> USE LogBounds
<1>1. ASSUME NEW x \in Handler, NEW n \in Step, ReasoningResult(x, n)
      PROVE  ResultsKept'
  BY <1>1 DEF ReasoningResult, TypeOK, StepsKnown, WritersAlone, ResultsKept, AcceptedKept,
    Writing, Closing, StepsIn, Handlers, Loops, Idle
<1>2. ASSUME NEW x \in Handler, SessionWriteLock(x)
      PROVE  ResultsKept'
  BY <1>2 DEF SessionWriteLock, TypeOK, StepsKnown, WritersAlone, ResultsKept,
    AcceptedKept, Writing, Closing, StepsIn, Handlers, Loops, Idle
<1>3. ASSUME NEW x \in Handler, Acquire(x)
      PROVE  ResultsKept'
  BY <1>3 DEF Acquire, TypeOK, StepsKnown, WritersAlone, ResultsKept, AcceptedKept,
    Writing, Closing, StepsIn, Handlers, Loops, Idle
<1>4. ASSUME NEW x \in Handler, NEW ok \in BOOLEAN, UpsertEntry(x, ok)
      PROVE  ResultsKept'
  <2>1. /\ maps' = maps /\ hist' = hist /\ loop' = loop
        /\ \A y \in Handler : y # x => h'[y] = h[y]
        /\ h[x].pc = "upsert" /\ h[x].step \in Step /\ h[x].seen \in Logs
        /\ ok => /\ file' = [h[x].seen EXCEPT ![h[x].step] = "model"]
                 /\ h'[x].step = h[x].step
        /\ ~ok => file' = file /\ h'[x].pc = "idle"
    BY <1>4, UpsertEffect
  <2> SUFFICES ASSUME ~hist.late, ~hist.misread PROVE ResultsKept'
    BY <2>1 DEF ResultsKept, AcceptedKept
  <2>2. h[x].seen = file /\ loop.pc \notin {"place", "replace"}
    BY <2>1 DEF WritersAlone, Closing, Writing
  <2>3. ok => \A n \in Step : file'[n] = IF n = h[x].step THEN "model" ELSE file[n]
    BY <2>1, <2>2 DEF Logs
  <2>4. hist.answered \subseteq Step /\ \A y \in Handler : h[y].pc \in Writing => h[y].step \in Step
    BY DEF TypeOK, StepsKnown
  <2>5. AcceptedKept'
    BY <2>1, <2>3, <2>4 DEF ResultsKept, AcceptedKept
  <2>6. ASSUME NEW y \in Handler, h'[y].pc \in Writing \ {"upsert"} PROVE file'[h'[y].step] = "model"
    <3>1. CASE y = x
      BY <2>1, <2>3, <2>6, <3>1 DEF Writing
    <3>2. CASE y # x
      BY <2>1, <2>3, <2>4, <2>6, <3>2 DEF ResultsKept
    <3> QED BY <3>1, <3>2
  <2> QED BY <2>1, <2>2, <2>5, <2>6 DEF ResultsKept
<1>5. ASSUME NEW x \in Handler, NEW ok \in BOOLEAN, ReadLog(x, ok)
      PROVE  ResultsKept'
  BY <1>5 DEF ReadLog, Goto, MayFail, TypeOK, StepsKnown, WritersAlone, ResultsKept,
    AcceptedKept, Writing, Closing, StepsIn, Handlers, Loops, Idle
<1>6. ASSUME NEW x \in Handler, NEW ok \in BOOLEAN, PutLog(x, ok)
      PROVE  ResultsKept'
  BY <1>6 DEF PutLog, Put, MayFail, TypeOK, StepsKnown, WritersAlone, ResultsKept,
    AcceptedKept, Writing, Closing, StepsIn, Handlers, Loops, Idle
<1>7. ASSUME NEW x \in Handler, AddTokens(x)
      PROVE  ResultsKept'
  BY <1>7 DEF AddTokens, Goto, TypeOK, StepsKnown, WritersAlone, ResultsKept, AcceptedKept,
    Writing, Closing, StepsIn, Handlers, Loops, Idle
<1>8. ASSUME NEW x \in Handler, AddProviderTokens(x)
      PROVE  ResultsKept'
  BY <1>8 DEF AddProviderTokens, TypeOK, StepsKnown, WritersAlone, ResultsKept,
    AcceptedKept, Writing, Closing, StepsIn, Handlers, Loops, Idle
<1>9. ASSUME NEW x \in Handler, ReasoningDegraded(x)
      PROVE  ResultsKept'
  BY <1>9 DEF ReasoningDegraded, Other, Goto, TypeOK, StepsKnown, WritersAlone,
    ResultsKept, AcceptedKept, Writing, Closing, StepsIn, Handlers, Loops, Idle
<1>10. ASSUME NEW x \in Handler, CircuitReset(x)
      PROVE  ResultsKept'
  BY <1>10 DEF CircuitReset, Other, Goto, TypeOK, StepsKnown, WritersAlone, ResultsKept,
    AcceptedKept, Writing, Closing, StepsIn, Handlers, Loops, Idle
<1>11. ASSUME NEW x \in Handler, SetStatus(x)
      PROVE  ResultsKept'
  BY <1>11 DEF SetStatus, TypeOK, StepsKnown, WritersAlone, ResultsKept, AcceptedKept,
    Writing, Closing, StepsIn, Handlers, Loops, Idle
<1>12. ASSUME NEW x \in Handler, DirectDone(x)
      PROVE  ResultsKept'
  BY <1>12 DEF DirectDone, Other, Goto, TypeOK, StepsKnown, WritersAlone, ResultsKept,
    AcceptedKept, Writing, Closing, StepsIn, Handlers, Loops, Idle
<1>13. ASSUME NEW x \in Handler, DirectFetch(x)
      PROVE  ResultsKept'
  BY <1>13 DEF DirectFetch, TypeOK, StepsKnown, WritersAlone, ResultsKept, AcceptedKept,
    Writing, Closing, StepsIn, Handlers, Loops, Idle
<1>14. ASSUME NEW x \in Handler, NEW ok \in BOOLEAN, DirectWrite(x, ok)
      PROVE  ResultsKept'
  BY <1>14 DEF DirectWrite, TypeOK, StepsKnown, WritersAlone, ResultsKept, AcceptedKept,
    Writing, Closing, StepsIn, Handlers, Loops, Idle
<1>15. ASSUME NEW x \in Handler, DirectAsk(x)
      PROVE  ResultsKept'
  BY <1>15 DEF DirectAsk, TypeOK, StepsKnown, WritersAlone, ResultsKept, AcceptedKept,
    Writing, Closing, StepsIn, Handlers, Loops, Idle
<1>16. ASSUME NEW x \in Handler, DirectRemove(x)
      PROVE  ResultsKept'
  BY <1>16 DEF DirectRemove, RemoveSession, NoTokens, Goto, TypeOK, StepsKnown,
    WritersAlone, ResultsKept, AcceptedKept, Writing, Closing, StepsIn, Handlers, Loops,
    Idle
<1>17. ASSUME NEW push \in BOOLEAN, Capture(push)
      PROVE  ResultsKept'
  BY <1>17 DEF Capture, TypeOK, StepsKnown, WritersAlone, ResultsKept, AcceptedKept,
    Writing, Closing, StepsIn, Handlers, Loops, Idle
<1>18. ASSUME SkipFlush
      PROVE  ResultsKept'
  BY <1>18 DEF SkipFlush, TypeOK, StepsKnown, WritersAlone, ResultsKept, AcceptedKept,
    Writing, Closing, StepsIn, Handlers, Loops, Idle
<1>19. ASSUME FlushDrain
      PROVE  ResultsKept'
  BY <1>19 DEF FlushDrain, Drain, TypeOK, StepsKnown, WritersAlone, ResultsKept,
    AcceptedKept, Writing, Closing, StepsIn, Handlers, Loops, Idle
<1>20. ASSUME NEW ok \in BOOLEAN, FlushStore(ok)
      PROVE  ResultsKept'
  BY <1>20 DEF FlushStore, Store, TypeOK, StepsKnown, WritersAlone, ResultsKept,
    AcceptedKept, Writing, Closing, StepsIn, Handlers, Loops, Idle
<1>21. ASSUME NEW clean \in BOOLEAN, Break(clean)
      PROVE  ResultsKept'
  BY <1>21 DEF Break, TypeOK, StepsKnown, WritersAlone, ResultsKept, AcceptedKept, Writing,
    Closing, StepsIn, Handlers, Loops, Idle
<1>22. ASSUME WasDegraded
      PROVE  ResultsKept'
  BY <1>22 DEF WasDegraded, TypeOK, StepsKnown, WritersAlone, ResultsKept, AcceptedKept,
    Writing, Closing, StepsIn, Handlers, Loops, Idle
<1>23. ASSUME LoopRemoves
      PROVE  ResultsKept'
  BY <1>23 DEF LoopRemoves, RemoveSession, NoTokens, LoopGoto, TypeOK, StepsKnown,
    WritersAlone, ResultsKept, AcceptedKept, Writing, Closing, StepsIn, Handlers, Loops,
    Idle
<1>24. ASSUME LastDrain
      PROVE  ResultsKept'
  BY <1>24 DEF LastDrain, Drain, TypeOK, StepsKnown, WritersAlone, ResultsKept,
    AcceptedKept, Writing, Closing, StepsIn, Handlers, Loops, Idle
<1>25. ASSUME NEW ok \in BOOLEAN, LastStore(ok)
      PROVE  ResultsKept'
  BY <1>25 DEF LastStore, Store, TypeOK, StepsKnown, WritersAlone, ResultsKept,
    AcceptedKept, Writing, Closing, StepsIn, Handlers, Loops, Idle
<1>26. ASSUME NEW ok \in BOOLEAN, Scan(ok)
      PROVE  ResultsKept'
  <2>1. /\ file' = file /\ h' = h /\ hist'.late = hist.late /\ hist'.misread = (hist.misread \/ ~ok)
        /\ hist'.answered = hist.answered
        /\ loop'.todo = (1 .. loop.steps) \ (IF ok THEN StepsIn(file) ELSE {})
    BY <1>26 DEF Scan, TypeOK, Loops
  <2> SUFFICES ASSUME ~hist.late, ~hist.misread, ok PROVE ResultsKept'
    BY <2>1 DEF ResultsKept, AcceptedKept
  <2> QED BY <2>1 DEF ResultsKept, AcceptedKept, Writing, StepsIn
<1>27. ASSUME ReadForPlaceholder
      PROVE  ResultsKept'
  BY <1>27 DEF ReadForPlaceholder, TypeOK, StepsKnown, WritersAlone, ResultsKept,
    AcceptedKept, Writing, Closing, StepsIn, Handlers, Loops, Idle
<1>28. ASSUME NEW ok \in BOOLEAN, WritePlaceholder(ok)
      PROVE  ResultsKept'
  <2> SUFFICES ASSUME ~hist'.late, ~hist'.misread PROVE ResultsKept'
    BY DEF ResultsKept, AcceptedKept
  <2>1. /\ maps' = maps /\ h' = h /\ loop.pc = "replace" /\ loop'.pc = "place"
        /\ loop'.steps = loop.steps /\ hist'.late = hist.late /\ hist'.misread = hist.misread
        /\ hist'.answered = hist.answered
    BY <1>28, PlaceholderEffect
  <2>2. PICK n \in loop.todo :
          /\ n \in Step /\ n \in 1 .. loop.steps /\ loop'.todo = loop.todo \ {n}
          /\ file' = IF ok THEN [loop.seen EXCEPT ![n] = "placeholder"] ELSE file
    BY <1>28, PlaceholderEffect
  <2>3. loop.seen = file /\ \A x \in Handler : h[x].pc \notin Writing
    BY <2>1 DEF WritersAlone, Closing
  <2>4. file[n] = "none" /\ \A k \in hist.answered : file[k] = "model"
    BY <2>1, <2>2 DEF ResultsKept, AcceptedKept, StepsIn
  <2>5. \A k \in Step : file'[k] = IF ok /\ k = n THEN "placeholder" ELSE file[k]
    BY <2>2, <2>3 DEF TypeOK, Logs
  <2>6. hist.answered \subseteq Step /\ loop.todo \subseteq Step
    BY DEF TypeOK, Loops
  <2>7. AcceptedKept'
    BY <2>1, <2>4, <2>5, <2>6 DEF AcceptedKept
  <2>8. \A k \in loop'.todo : k \in Step /\ file'[k] = "none"
    <3>1. loop.todo \cap {k \in Step : file[k] # "none"} = {}
      BY <2>1 DEF ResultsKept, StepsIn
    <3> QED BY <2>2, <2>5, <2>6, <3>1
  <2> QED BY <2>1, <2>3, <2>7, <2>8 DEF ResultsKept, StepsIn
<1>29. ASSUME Placed
      PROVE  ResultsKept'
  BY <1>29 DEF Placed, LoopGoto, TypeOK, StepsKnown, WritersAlone, ResultsKept,
    AcceptedKept, Writing, Closing, StepsIn, Handlers, Loops, Idle
<1>30. ASSUME NEW ok \in BOOLEAN, ReadPlaceholders(ok)
      PROVE  ResultsKept'
  <2>1. /\ file' = file /\ h' = h /\ hist'.late = hist.late /\ hist'.misread = hist.misread
        /\ hist'.answered = hist.answered
    BY <1>30 DEF ReadPlaceholders, TypeOK
  <2>2. loop'.pc \notin {"place", "replace"}
    BY <1>30 DEF ReadPlaceholders, LoopGoto, TypeOK, Loops
  <2> QED BY <2>1, <2>2 DEF ResultsKept, AcceptedKept
<1>31. ASSUME NEW ok \in BOOLEAN, PutPlaceholders(ok)
      PROVE  ResultsKept'
  BY <1>31 DEF PutPlaceholders, Put, TypeOK, StepsKnown, WritersAlone, ResultsKept,
    AcceptedKept, Writing, Closing, StepsIn, Handlers, Loops, Idle
<1>32. ASSUME LoopEnds
      PROVE  ResultsKept'
  BY <1>32 DEF LoopEnds, LoopGoto, TypeOK, StepsKnown, WritersAlone, ResultsKept,
    AcceptedKept, Writing, Closing, StepsIn, Handlers, Loops, Idle
<1>33. CASE UNCHANGED vars
  BY <1>33 DEF vars, TypeOK, StepsKnown, WritersAlone, ResultsKept, AcceptedKept, Writing,
    Closing, StepsIn, Handlers, Loops, Idle
<1> QED BY <1>1, <1>2, <1>3, <1>4, <1>5, <1>6, <1>7, <1>8, <1>9, <1>10, <1>11, <1>12,
      <1>13, <1>14, <1>15, <1>16, <1>17, <1>18, <1>19, <1>20, <1>21, <1>22, <1>23, <1>24,
      <1>25, <1>26, <1>27, <1>28, <1>29, <1>30, <1>31, <1>32, <1>33 DEF Next, LoopNext,
      HandlerNext

(* What is not in the log is still to be written.                           *)
LEMMA CoveredStep ==
  ASSUME TypeOK, StepsKnown, WritersAlone, StepsCovered, [Next]_vars
  PROVE  StepsCovered'
<1> USE LogBounds
<1>1. ASSUME NEW x \in Handler, NEW n \in Step, ReasoningResult(x, n)
      PROVE  StepsCovered'
  BY <1>1 DEF ReasoningResult, TypeOK, StepsKnown, WritersAlone, StepsCovered, Writing,
    Closing, StepsIn, Handlers, Loops, Idle
<1>2. ASSUME NEW x \in Handler, SessionWriteLock(x)
      PROVE  StepsCovered'
  BY <1>2 DEF SessionWriteLock, TypeOK, StepsKnown, WritersAlone, StepsCovered, Writing,
    Closing, StepsIn, Handlers, Loops, Idle
<1>3. ASSUME NEW x \in Handler, Acquire(x)
      PROVE  StepsCovered'
  BY <1>3 DEF Acquire, TypeOK, StepsKnown, WritersAlone, StepsCovered, Writing, Closing,
    StepsIn, Handlers, Loops, Idle
<1>4. ASSUME NEW x \in Handler, NEW ok \in BOOLEAN, UpsertEntry(x, ok)
      PROVE  StepsCovered'
  <2>1. /\ hist' = hist /\ loop' = loop /\ h[x].pc = "upsert"
        /\ h[x].step \in Step /\ h[x].seen \in Logs
        /\ ok => file' = [h[x].seen EXCEPT ![h[x].step] = "model"]
        /\ ~ok => file' = file
    BY <1>4, UpsertEffect
  <2> SUFFICES ASSUME ~hist.late, ~hist.failed PROVE StepsCovered'
    BY <2>1 DEF StepsCovered
  <2>2. h[x].seen = file
    BY <2>1 DEF WritersAlone
  <2>3. StepsIn(file) \subseteq StepsIn(file')
    BY <2>1, <2>2 DEF StepsIn, Logs
  <2> QED BY <2>1, <2>3 DEF StepsCovered, StepsIn
<1>5. ASSUME NEW x \in Handler, NEW ok \in BOOLEAN, ReadLog(x, ok)
      PROVE  StepsCovered'
  BY <1>5 DEF ReadLog, Goto, MayFail, TypeOK, StepsKnown, WritersAlone, StepsCovered,
    Writing, Closing, StepsIn, Handlers, Loops, Idle
<1>6. ASSUME NEW x \in Handler, NEW ok \in BOOLEAN, PutLog(x, ok)
      PROVE  StepsCovered'
  BY <1>6 DEF PutLog, Put, MayFail, TypeOK, StepsKnown, WritersAlone, StepsCovered,
    Writing, Closing, StepsIn, Handlers, Loops, Idle
<1>7. ASSUME NEW x \in Handler, AddTokens(x)
      PROVE  StepsCovered'
  BY <1>7 DEF AddTokens, Goto, TypeOK, StepsKnown, WritersAlone, StepsCovered, Writing,
    Closing, StepsIn, Handlers, Loops, Idle
<1>8. ASSUME NEW x \in Handler, AddProviderTokens(x)
      PROVE  StepsCovered'
  BY <1>8 DEF AddProviderTokens, TypeOK, StepsKnown, WritersAlone, StepsCovered, Writing,
    Closing, StepsIn, Handlers, Loops, Idle
<1>9. ASSUME NEW x \in Handler, ReasoningDegraded(x)
      PROVE  StepsCovered'
  BY <1>9 DEF ReasoningDegraded, Other, Goto, TypeOK, StepsKnown, WritersAlone,
    StepsCovered, Writing, Closing, StepsIn, Handlers, Loops, Idle
<1>10. ASSUME NEW x \in Handler, CircuitReset(x)
      PROVE  StepsCovered'
  BY <1>10 DEF CircuitReset, Other, Goto, TypeOK, StepsKnown, WritersAlone, StepsCovered,
    Writing, Closing, StepsIn, Handlers, Loops, Idle
<1>11. ASSUME NEW x \in Handler, SetStatus(x)
      PROVE  StepsCovered'
  BY <1>11 DEF SetStatus, TypeOK, StepsKnown, WritersAlone, StepsCovered, Writing, Closing,
    StepsIn, Handlers, Loops, Idle
<1>12. ASSUME NEW x \in Handler, DirectDone(x)
      PROVE  StepsCovered'
  BY <1>12 DEF DirectDone, Other, Goto, TypeOK, StepsKnown, WritersAlone, StepsCovered,
    Writing, Closing, StepsIn, Handlers, Loops, Idle
<1>13. ASSUME NEW x \in Handler, DirectFetch(x)
      PROVE  StepsCovered'
  BY <1>13 DEF DirectFetch, TypeOK, StepsKnown, WritersAlone, StepsCovered, Writing,
    Closing, StepsIn, Handlers, Loops, Idle
<1>14. ASSUME NEW x \in Handler, NEW ok \in BOOLEAN, DirectWrite(x, ok)
      PROVE  StepsCovered'
  BY <1>14 DEF DirectWrite, TypeOK, StepsKnown, WritersAlone, StepsCovered, Writing,
    Closing, StepsIn, Handlers, Loops, Idle
<1>15. ASSUME NEW x \in Handler, DirectAsk(x)
      PROVE  StepsCovered'
  BY <1>15 DEF DirectAsk, TypeOK, StepsKnown, WritersAlone, StepsCovered, Writing, Closing,
    StepsIn, Handlers, Loops, Idle
<1>16. ASSUME NEW x \in Handler, DirectRemove(x)
      PROVE  StepsCovered'
  BY <1>16 DEF DirectRemove, RemoveSession, NoTokens, Goto, TypeOK, StepsKnown,
    WritersAlone, StepsCovered, Writing, Closing, StepsIn, Handlers, Loops, Idle
<1>17. ASSUME NEW push \in BOOLEAN, Capture(push)
      PROVE  StepsCovered'
  BY <1>17 DEF Capture, TypeOK, StepsKnown, WritersAlone, StepsCovered, Writing, Closing,
    StepsIn, Handlers, Loops, Idle
<1>18. ASSUME SkipFlush
      PROVE  StepsCovered'
  BY <1>18 DEF SkipFlush, TypeOK, StepsKnown, WritersAlone, StepsCovered, Writing, Closing,
    StepsIn, Handlers, Loops, Idle
<1>19. ASSUME FlushDrain
      PROVE  StepsCovered'
  BY <1>19 DEF FlushDrain, Drain, TypeOK, StepsKnown, WritersAlone, StepsCovered, Writing,
    Closing, StepsIn, Handlers, Loops, Idle
<1>20. ASSUME NEW ok \in BOOLEAN, FlushStore(ok)
      PROVE  StepsCovered'
  BY <1>20 DEF FlushStore, Store, TypeOK, StepsKnown, WritersAlone, StepsCovered, Writing,
    Closing, StepsIn, Handlers, Loops, Idle
<1>21. ASSUME NEW clean \in BOOLEAN, Break(clean)
      PROVE  StepsCovered'
  BY <1>21 DEF Break, TypeOK, StepsKnown, WritersAlone, StepsCovered, Writing, Closing,
    StepsIn, Handlers, Loops, Idle
<1>22. ASSUME WasDegraded
      PROVE  StepsCovered'
  BY <1>22 DEF WasDegraded, TypeOK, StepsKnown, WritersAlone, StepsCovered, Writing,
    Closing, StepsIn, Handlers, Loops, Idle
<1>23. ASSUME LoopRemoves
      PROVE  StepsCovered'
  BY <1>23 DEF LoopRemoves, RemoveSession, NoTokens, LoopGoto, TypeOK, StepsKnown,
    WritersAlone, StepsCovered, Writing, Closing, StepsIn, Handlers, Loops, Idle
<1>24. ASSUME LastDrain
      PROVE  StepsCovered'
  BY <1>24 DEF LastDrain, Drain, TypeOK, StepsKnown, WritersAlone, StepsCovered, Writing,
    Closing, StepsIn, Handlers, Loops, Idle
<1>25. ASSUME NEW ok \in BOOLEAN, LastStore(ok)
      PROVE  StepsCovered'
  BY <1>25 DEF LastStore, Store, TypeOK, StepsKnown, WritersAlone, StepsCovered, Writing,
    Closing, StepsIn, Handlers, Loops, Idle
<1>26. ASSUME NEW ok \in BOOLEAN, Scan(ok)
      PROVE  StepsCovered'
  BY <1>26 DEF Scan, TypeOK, StepsKnown, WritersAlone, StepsCovered, Writing, Closing,
    StepsIn, Handlers, Loops, Idle
<1>27. ASSUME ReadForPlaceholder
      PROVE  StepsCovered'
  BY <1>27 DEF ReadForPlaceholder, TypeOK, StepsKnown, WritersAlone, StepsCovered, Writing,
    Closing, StepsIn, Handlers, Loops, Idle
<1>28. ASSUME NEW ok \in BOOLEAN, WritePlaceholder(ok)
      PROVE  StepsCovered'
  <2>1. /\ loop.pc = "replace" /\ loop'.pc = "place"
        /\ loop'.steps = loop.steps /\ hist'.late = hist.late
        /\ hist'.failed = (hist.failed \/ ~ok)
    BY <1>28, PlaceholderEffect
  <2>2. PICK n \in loop.todo :
          /\ n \in Step /\ n \in 1 .. loop.steps /\ loop'.todo = loop.todo \ {n}
          /\ file' = IF ok THEN [loop.seen EXCEPT ![n] = "placeholder"] ELSE file
    BY <1>28, PlaceholderEffect
  <2> SUFFICES ASSUME ~hist.late, ~hist.failed, ok PROVE StepsCovered'
    BY <2>1 DEF StepsCovered
  <2>3. loop.seen = file /\ file \in Logs
    BY <2>1 DEF WritersAlone, TypeOK
  <2>4. StepsIn(file') = StepsIn(file) \cup {n}
    BY <2>2, <2>3 DEF StepsIn, Logs
  <2>5. 1 .. loop.steps \subseteq StepsIn(file) \cup loop.todo
    BY <2>1 DEF StepsCovered
  <2>6. 1 .. loop'.steps \subseteq StepsIn(file') \cup loop'.todo
    BY <2>1, <2>2, <2>4, <2>5
  <2> QED BY <2>1, <2>6 DEF StepsCovered, StepsIn
<1>29. ASSUME Placed
      PROVE  StepsCovered'
  BY <1>29 DEF Placed, LoopGoto, TypeOK, StepsKnown, WritersAlone, StepsCovered, Writing,
    Closing, StepsIn, Handlers, Loops, Idle
<1>30. ASSUME NEW ok \in BOOLEAN, ReadPlaceholders(ok)
      PROVE  StepsCovered'
  BY <1>30 DEF ReadPlaceholders, LoopGoto, TypeOK, StepsKnown, WritersAlone, StepsCovered,
    Writing, Closing, StepsIn, Handlers, Loops, Idle
<1>31. ASSUME NEW ok \in BOOLEAN, PutPlaceholders(ok)
      PROVE  StepsCovered'
  BY <1>31 DEF PutPlaceholders, Put, TypeOK, StepsKnown, WritersAlone, StepsCovered,
    Writing, Closing, StepsIn, Handlers, Loops, Idle
<1>32. ASSUME LoopEnds
      PROVE  StepsCovered'
  BY <1>32 DEF LoopEnds, LoopGoto, TypeOK, StepsKnown, WritersAlone, StepsCovered, Writing,
    Closing, StepsIn, Handlers, Loops, Idle
<1>33. CASE UNCHANGED vars
  BY <1>33 DEF vars, TypeOK, StepsKnown, WritersAlone, StepsCovered, Writing, Closing,
    StepsIn, Handlers, Loops, Idle
<1> QED BY <1>1, <1>2, <1>3, <1>4, <1>5, <1>6, <1>7, <1>8, <1>9, <1>10, <1>11, <1>12,
      <1>13, <1>14, <1>15, <1>16, <1>17, <1>18, <1>19, <1>20, <1>21, <1>22, <1>23, <1>24,
      <1>25, <1>26, <1>27, <1>28, <1>29, <1>30, <1>31, <1>32, <1>33 DEF Next, LoopNext,
      HandlerNext

(* What is not uploaded is still to be uploaded.                            *)
LEMMA UploadedStep ==
  ASSUME TypeOK, StepsKnown, WritersAlone, Uploaded, [Next]_vars
  PROVE  Uploaded'
<1> USE LogBounds
<1>1. ASSUME NEW x \in Handler, NEW n \in Step, ReasoningResult(x, n)
      PROVE  Uploaded'
  BY <1>1 DEF ReasoningResult, TypeOK, StepsKnown, WritersAlone, Uploaded, LoopOwes, Cloud,
    Writing, Closing, Handlers, Loops, Idle
<1>2. ASSUME NEW x \in Handler, SessionWriteLock(x)
      PROVE  Uploaded'
  BY <1>2 DEF SessionWriteLock, TypeOK, StepsKnown, WritersAlone, Uploaded, LoopOwes,
    Cloud, Writing, Closing, Handlers, Loops, Idle
<1>3. ASSUME NEW x \in Handler, Acquire(x)
      PROVE  Uploaded'
  BY <1>3 DEF Acquire, TypeOK, StepsKnown, WritersAlone, Uploaded, LoopOwes, Cloud,
    Writing, Closing, Handlers, Loops, Idle
<1>4. ASSUME NEW x \in Handler, NEW ok \in BOOLEAN, UpsertEntry(x, ok)
      PROVE  Uploaded'
  BY <1>4 DEF UpsertEntry, MayFail, TypeOK, StepsKnown, WritersAlone, Uploaded, LoopOwes,
    Cloud, Writing, Closing, Handlers, Loops, Idle
<1>5. ASSUME NEW x \in Handler, NEW ok \in BOOLEAN, ReadLog(x, ok)
      PROVE  Uploaded'
  BY <1>5 DEF ReadLog, Goto, MayFail, TypeOK, StepsKnown, WritersAlone, Uploaded, LoopOwes,
    Cloud, Writing, Closing, Handlers, Loops, Idle
<1>6. ASSUME NEW x \in Handler, NEW ok \in BOOLEAN, PutLog(x, ok)
      PROVE  Uploaded'
  BY <1>6 DEF PutLog, Put, MayFail, TypeOK, StepsKnown, WritersAlone, Uploaded, LoopOwes,
    Cloud, Writing, Closing, Handlers, Loops, Idle
<1>7. ASSUME NEW x \in Handler, AddTokens(x)
      PROVE  Uploaded'
  BY <1>7 DEF AddTokens, Goto, TypeOK, StepsKnown, WritersAlone, Uploaded, LoopOwes, Cloud,
    Writing, Closing, Handlers, Loops, Idle
<1>8. ASSUME NEW x \in Handler, AddProviderTokens(x)
      PROVE  Uploaded'
  BY <1>8 DEF AddProviderTokens, TypeOK, StepsKnown, WritersAlone, Uploaded, LoopOwes,
    Cloud, Writing, Closing, Handlers, Loops, Idle
<1>9. ASSUME NEW x \in Handler, ReasoningDegraded(x)
      PROVE  Uploaded'
  BY <1>9 DEF ReasoningDegraded, Other, Goto, TypeOK, StepsKnown, WritersAlone, Uploaded,
    LoopOwes, Cloud, Writing, Closing, Handlers, Loops, Idle
<1>10. ASSUME NEW x \in Handler, CircuitReset(x)
      PROVE  Uploaded'
  BY <1>10 DEF CircuitReset, Other, Goto, TypeOK, StepsKnown, WritersAlone, Uploaded,
    LoopOwes, Cloud, Writing, Closing, Handlers, Loops, Idle
<1>11. ASSUME NEW x \in Handler, SetStatus(x)
      PROVE  Uploaded'
  BY <1>11 DEF SetStatus, TypeOK, StepsKnown, WritersAlone, Uploaded, LoopOwes, Cloud,
    Writing, Closing, Handlers, Loops, Idle
<1>12. ASSUME NEW x \in Handler, DirectDone(x)
      PROVE  Uploaded'
  <2>1. /\ file' = file /\ cloud' = cloud /\ loop' = loop /\ hist'.late = hist.late
        /\ hist'.failed = hist.failed
        /\ h[x].pc = "idle" /\ h'[x].pc \in {"asked", "fetch"}
        /\ \A y \in Handler : y # x => h'[y] = h[y]
    BY <1>12 DEF DirectDone, Other, Goto, TypeOK, Handlers
  <2> QED BY <2>1 DEF Uploaded, LoopOwes, Cloud
<1>13. ASSUME NEW x \in Handler, DirectFetch(x)
      PROVE  Uploaded'
  BY <1>13 DEF DirectFetch, TypeOK, StepsKnown, WritersAlone, Uploaded, LoopOwes, Cloud,
    Writing, Closing, Handlers, Loops, Idle
<1>14. ASSUME NEW x \in Handler, NEW ok \in BOOLEAN, DirectWrite(x, ok)
      PROVE  Uploaded'
  BY <1>14 DEF DirectWrite, TypeOK, StepsKnown, WritersAlone, Uploaded, LoopOwes, Cloud,
    Writing, Closing, Handlers, Loops, Idle
<1>15. ASSUME NEW x \in Handler, DirectAsk(x)
      PROVE  Uploaded'
  BY <1>15 DEF DirectAsk, TypeOK, StepsKnown, WritersAlone, Uploaded, LoopOwes, Cloud,
    Writing, Closing, Handlers, Loops, Idle
<1>16. ASSUME NEW x \in Handler, DirectRemove(x)
      PROVE  Uploaded'
  BY <1>16 DEF DirectRemove, RemoveSession, NoTokens, Goto, TypeOK, StepsKnown,
    WritersAlone, Uploaded, LoopOwes, Cloud, Writing, Closing, Handlers, Loops, Idle
<1>17. ASSUME NEW push \in BOOLEAN, Capture(push)
      PROVE  Uploaded'
  BY <1>17 DEF Capture, TypeOK, StepsKnown, WritersAlone, Uploaded, LoopOwes, Cloud,
    Writing, Closing, Handlers, Loops, Idle
<1>18. ASSUME SkipFlush
      PROVE  Uploaded'
  BY <1>18 DEF SkipFlush, TypeOK, StepsKnown, WritersAlone, Uploaded, LoopOwes, Cloud,
    Writing, Closing, Handlers, Loops, Idle
<1>19. ASSUME FlushDrain
      PROVE  Uploaded'
  BY <1>19 DEF FlushDrain, Drain, TypeOK, StepsKnown, WritersAlone, Uploaded, LoopOwes,
    Cloud, Writing, Closing, Handlers, Loops, Idle
<1>20. ASSUME NEW ok \in BOOLEAN, FlushStore(ok)
      PROVE  Uploaded'
  BY <1>20 DEF FlushStore, Store, TypeOK, StepsKnown, WritersAlone, Uploaded, LoopOwes,
    Cloud, Writing, Closing, Handlers, Loops, Idle
<1>21. ASSUME NEW clean \in BOOLEAN, Break(clean)
      PROVE  Uploaded'
  BY <1>21 DEF Break, TypeOK, StepsKnown, WritersAlone, Uploaded, LoopOwes, Cloud, Writing,
    Closing, Handlers, Loops, Idle
<1>22. ASSUME WasDegraded
      PROVE  Uploaded'
  BY <1>22 DEF WasDegraded, TypeOK, StepsKnown, WritersAlone, Uploaded, LoopOwes, Cloud,
    Writing, Closing, Handlers, Loops, Idle
<1>23. ASSUME LoopRemoves
      PROVE  Uploaded'
  BY <1>23 DEF LoopRemoves, RemoveSession, NoTokens, LoopGoto, TypeOK, StepsKnown,
    WritersAlone, Uploaded, LoopOwes, Cloud, Writing, Closing, Handlers, Loops, Idle
<1>24. ASSUME LastDrain
      PROVE  Uploaded'
  BY <1>24 DEF LastDrain, Drain, TypeOK, StepsKnown, WritersAlone, Uploaded, LoopOwes,
    Cloud, Writing, Closing, Handlers, Loops, Idle
<1>25. ASSUME NEW ok \in BOOLEAN, LastStore(ok)
      PROVE  Uploaded'
  <2>1. file' = file /\ cloud' = cloud /\ h' = h /\ hist' = hist /\ loop.pc = "lastdrained"
    BY <1>25 DEF LastStore, Store
  <2>2. loop'.cloud = loop.cloud /\ loop'.wrote = loop.wrote /\ loop'.pc \in {"scan", "route"}
    <3>1. PICK m : loop' = [loop EXCEPT !.pc = IF loop.clean THEN "scan" ELSE "route",
                                          !.mem = m]
      BY <1>25 DEF LastStore, Store
    <3>2. loop \in Loops
      BY DEF TypeOK
    <3>3. loop'.cloud = loop.cloud
      BY <3>1, <3>2 DEF Loops
    <3>4. loop'.wrote = loop.wrote
      BY <3>1, <3>2 DEF Loops
    <3>5. loop'.pc \in {"scan", "route"}
      BY <3>1, <3>2 DEF Loops
    <3> QED BY <3>1, <3>3, <3>4, <3>5
  <2> QED BY <2>1, <2>2 DEF Uploaded, LoopOwes, Cloud
<1>26. ASSUME NEW ok \in BOOLEAN, Scan(ok)
      PROVE  Uploaded'
  BY <1>26 DEF Scan, TypeOK, StepsKnown, WritersAlone, Uploaded, LoopOwes, Cloud, Writing,
    Closing, Handlers, Loops, Idle
<1>27. ASSUME ReadForPlaceholder
      PROVE  Uploaded'
  BY <1>27 DEF ReadForPlaceholder, TypeOK, StepsKnown, WritersAlone, Uploaded, LoopOwes,
    Cloud, Writing, Closing, Handlers, Loops, Idle
<1>28. ASSUME NEW ok \in BOOLEAN, WritePlaceholder(ok)
      PROVE  Uploaded'
  BY <1>28 DEF WritePlaceholder, TypeOK, StepsKnown, WritersAlone, Uploaded, LoopOwes,
    Cloud, Writing, Closing, Handlers, Loops, Idle
<1>29. ASSUME Placed
      PROVE  Uploaded'
  BY <1>29 DEF Placed, LoopGoto, TypeOK, StepsKnown, WritersAlone, Uploaded, LoopOwes,
    Cloud, Writing, Closing, Handlers, Loops, Idle
<1>30. ASSUME NEW ok \in BOOLEAN, ReadPlaceholders(ok)
      PROVE  Uploaded'
  <2>1. /\ file' = file /\ cloud' = cloud /\ h' = h /\ hist'.late = hist.late
        /\ hist'.failed = (hist.failed \/ ~ok) /\ loop.pc = "read"
    BY <1>30 DEF ReadPlaceholders, TypeOK
  <2>2. /\ loop'.cloud = loop.cloud /\ loop'.wrote = loop.wrote
        /\ ok => loop'.pc = "put" /\ loop'.seen = file
    <3>1. loop \in Loops
      BY DEF TypeOK
    <3>2. CASE ok
      BY <1>30, <3>1, <3>2 DEF ReadPlaceholders, Loops
    <3>3. CASE ~ok
      BY <1>30, <3>1, <3>3 DEF ReadPlaceholders, LoopGoto, Loops
    <3> QED BY <3>2, <3>3
  <2> QED BY <2>1, <2>2 DEF Uploaded, LoopOwes, Cloud
<1>31. ASSUME NEW ok \in BOOLEAN, PutPlaceholders(ok)
      PROVE  Uploaded'
  BY <1>31 DEF PutPlaceholders, Put, TypeOK, StepsKnown, WritersAlone, Uploaded, LoopOwes,
    Cloud, Writing, Closing, Handlers, Loops, Idle
<1>32. ASSUME LoopEnds
      PROVE  Uploaded'
  BY <1>32 DEF LoopEnds, LoopGoto, TypeOK, StepsKnown, WritersAlone, Uploaded, LoopOwes,
    Cloud, Writing, Closing, Handlers, Loops, Idle
<1>33. CASE UNCHANGED vars
  BY <1>33 DEF vars, TypeOK, StepsKnown, WritersAlone, Uploaded, LoopOwes, Cloud, Writing,
    Closing, Handlers, Loops, Idle
<1> QED BY <1>1, <1>2, <1>3, <1>4, <1>5, <1>6, <1>7, <1>8, <1>9, <1>10, <1>11, <1>12,
      <1>13, <1>14, <1>15, <1>16, <1>17, <1>18, <1>19, <1>20, <1>21, <1>22, <1>23, <1>24,
      <1>25, <1>26, <1>27, <1>28, <1>29, <1>30, <1>31, <1>32, <1>33 DEF Next, LoopNext,
      HandlerNext

(* No step, no result, no token.                                            *)
LEMMA LogInit ==
  ASSUME Init
  PROVE  LogInv /\ TokensInv
<1> USE LogBounds
<1>1. TypeOK
  <2>1. loop \in Loops
    BY Blank DEF Init, Loops, LoopPCs, Step
  <2>2. h \in [Handler -> Handlers]
    BY Blank DEF Init
  <2> QED BY <2>1, <2>2, Blank DEF Init, TypeOK, NoTokens, Statuses
<1>2. \A x \in Handler : h[x] = Idle
  BY DEF Init
<1>3. /\ loop.pc = "run" /\ loop.todo = {} /\ loop.steps = 0 /\ loop.mem = NoMeta
      /\ ~loop.wrote /\ file = EmptyLog /\ cloud = EmptyLog /\ meta = NoMeta
      /\ maps = NoTokens /\ hist.pushed = {} /\ hist.answered = {}
      /\ hist.added = 0 /\ hist.padded = 0
  BY DEF Init
<1>4. StepsKnown
  BY <1>2, <1>3 DEF StepsKnown, Writing, Idle
<1>5. StepsIn(file) = {}
  BY <1>3 DEF StepsIn, EmptyLog
<1>6. WritersAlone
  BY <1>2, <1>3, <1>5 DEF WritersAlone, Writing, Closing, Idle
<1>7. ResultsKept /\ StepsCovered
  BY <1>2, <1>3 DEF ResultsKept, AcceptedKept, StepsCovered, Writing, Idle
<1>8. Uploaded
  BY <1>2, <1>3 DEF Uploaded, Idle
<1>9. ASSUME NEW k \in {"tokens", "provider"}
      PROVE  Accounted(0, Counts(k), Drained(k), 0)
  <2>1. Counts(k) \subseteq {0} /\ Drained(k) = [x \in Handler |-> 0]
    BY <1>2, <1>3 DEF Counts, Drained, NoMeta, Idle
  <2>2. {} \in SUBSET (1 .. 0) /\ Cardinality({}) = 0
    BY FS_EmptySet
  <2> DEFINE M == {}
             F == [x \in Handler |-> M]
  <2>3. /\ M \in SUBSET (1 .. 0) /\ Cardinality(M) = 0 /\ F \in [Handler -> SUBSET (1 .. 0)]
        /\ \A x \in Handler : F[x] = M
    BY <2>2
  <2>4. \A v \in Counts(k) : \E T \in SUBSET (1 .. 0) :
           Cardinality(T) = v /\ T \cap M = {} /\ \A x \in Handler : T \cap F[x] = {}
    BY <2>1, <2>2
  <2>5. \A x \in Handler : Drained(k)[x] = 0
    BY <2>1
  <2> HIDE DEF M, F
  <2>6. M = {}
    BY DEF M
  <2> QED BY <2>3, <2>4, <2>5, <2>6 DEF Accounted
<1>10. TokensInv
  BY <1>3, <1>9 DEF TokensInv, NoTokens
<1> QED BY <1>1, <1>4, <1>6, <1>7, <1>8, <1>10 DEF LogInv

LEMMA LogNext ==
  ASSUME LogInv, [Next]_vars
  PROVE  LogInv'
BY TypeStep, StepsStep, AloneStep, KeptStep, CoveredStep, UploadedStep DEF LogInv

-----------------------------------------------------------------------------
(* Counts that are still held are among those that were.                    *)
LEMMA CountsWithin ==
  ASSUME NEW k, NEW W, meta'[k] \in W, loop'.mem[k] \in W,
         \A y \in Handler : h'[y].pc = "write" => h'[y].meta[k] \in W
  PROVE  Counts(k)' \in SUBSET W
BY DEF Counts

(* The counts of the file, of the loop and of a Done about to write.        *)
LEMMA CountsHeld ==
  ASSUME NEW k
  PROVE  /\ meta[k] \in Counts(k) /\ loop.mem[k] \in Counts(k)
         /\ \A y \in Handler : h[y].pc = "write" => h[y].meta[k] \in Counts(k)
BY DEF Counts

(* What a Done has drained and not yet added is as before.                  *)
LEMMA DrainedSame ==
  ASSUME NEW k, \A y \in Handler : \/ h'[y] = h[y]
                                   \/ h'[y].pc # "fetch" /\ h[y].pc # "fetch"
  PROVE  Drained(k)' = Drained(k)
BY DEF Drained

(* A step that leaves the counts where they are, or drops the map's.        *)
LEMMA CountsQuiet ==
  ASSUME NEW k, NEW n \in Nat, Accounted(maps[k], Counts(k), Drained(k), n),
         meta' = meta, loop'.mem = loop.mem, maps'[k] \in {maps[k], 0},
         \A y \in Handler : \/ h'[y] = h[y]
                            \/ h'[y].pc \notin {"fetch", "write"} /\ h[y].pc # "fetch"
  PROVE  Accounted(maps'[k], Counts(k)', Drained(k)', n)
<1>1. Drained(k)' = Drained(k)
  BY DrainedSame
<1>2. Counts(k)' \in SUBSET Counts(k)
  BY CountsWithin, CountsHeld
<1>3. Accounted(maps[k], Counts(k)', Drained(k), n) /\ Accounted(0, Counts(k)', Drained(k), n)
  BY <1>2, Forget
<1> QED BY <1>1, <1>3

LEMMA TokensQuiet ==
  ASSUME TypeOK, TokensInv, meta' = meta, loop'.mem = loop.mem,
         maps'.tokens \in {maps.tokens, 0}, maps'.provider \in {maps.provider, 0},
         hist'.added = hist.added, hist'.padded = hist.padded,
         \A y \in Handler : \/ h'[y] = h[y]
                            \/ h'[y].pc \notin {"fetch", "write"} /\ h[y].pc # "fetch"
  PROVE  TokensInv'
<1>1. hist.added \in Nat /\ hist.padded \in Nat
  BY DEF TypeOK
<1>2. Accounted(maps'.tokens, Counts("tokens")', Drained("tokens")', hist.added)
  BY <1>1, CountsQuiet DEF TokensInv
<1>3. Accounted(maps'.provider, Counts("provider")', Drained("provider")', hist.padded)
  BY <1>1, CountsQuiet DEF TokensInv
<1> QED BY <1>2, <1>3 DEF TokensInv

(* The tokens stay accounted for.                                           *)
LEMMA TokensStep ==
  ASSUME TypeOK, StepsKnown, TokensInv, [Next]_vars
  PROVE  TokensInv'
<1> USE LogBounds
<1>1. ASSUME NEW x \in Handler, NEW n \in Step, ReasoningResult(x, n)
      PROVE  TokensInv'
  <2>1. /\ meta' = meta /\ loop'.mem = loop.mem
        /\ maps'.tokens \in {maps.tokens, 0} /\ maps'.provider \in {maps.provider, 0}
        /\ hist'.added = hist.added /\ hist'.padded = hist.padded
    BY <1>1 DEF ReasoningResult, TypeOK, Loops
  <2>2. \A y \in Handler : \/ h'[y] = h[y]
                           \/ h'[y].pc \notin {"fetch", "write"} /\ h[y].pc # "fetch"
    BY <1>1 DEF ReasoningResult, TypeOK, Handlers, Idle
  <2> QED BY <2>1, <2>2, TokensQuiet
<1>2. ASSUME NEW x \in Handler, SessionWriteLock(x)
      PROVE  TokensInv'
  <2>1. PICK l \in Nat : /\ maps' = [maps EXCEPT !.lock = l]
                         /\ h' = [h EXCEPT ![x].pc = "wait", ![x].lock = l]
    BY <1>2, LockChosen
  <2>2. /\ meta' = meta /\ loop' = loop /\ hist' = hist /\ h[x].pc = "arc"
    BY <1>2 DEF SessionWriteLock
  <2>3. /\ maps'.tokens = maps.tokens /\ maps'.provider = maps.provider
        /\ \A y \in Handler : \/ h'[y] = h[y]
                              \/ h'[y].pc = "wait" /\ h[y].pc = "arc"
    BY <2>1, <2>2 DEF TypeOK, Handlers
  <2> QED BY <2>2, <2>3, TokensQuiet
<1>3. ASSUME NEW x \in Handler, Acquire(x)
      PROVE  TokensInv'
  <2>1. /\ meta' = meta /\ loop'.mem = loop.mem
        /\ maps'.tokens \in {maps.tokens, 0} /\ maps'.provider \in {maps.provider, 0}
        /\ hist'.added = hist.added /\ hist'.padded = hist.padded
    BY <1>3 DEF Acquire, TypeOK, Loops
  <2>2. \A y \in Handler : \/ h'[y] = h[y]
                           \/ h'[y].pc \notin {"fetch", "write"} /\ h[y].pc # "fetch"
    BY <1>3 DEF Acquire, TypeOK, Handlers, Idle
  <2> QED BY <2>1, <2>2, TokensQuiet
<1>4. ASSUME NEW x \in Handler, NEW ok \in BOOLEAN, UpsertEntry(x, ok)
      PROVE  TokensInv'
  <2>1. /\ meta' = meta /\ loop'.mem = loop.mem
        /\ maps'.tokens \in {maps.tokens, 0} /\ maps'.provider \in {maps.provider, 0}
        /\ hist'.added = hist.added /\ hist'.padded = hist.padded
    BY <1>4 DEF UpsertEntry, MayFail, TypeOK, Loops
  <2>2. \A y \in Handler : \/ h'[y] = h[y]
                           \/ h'[y].pc \notin {"fetch", "write"} /\ h[y].pc # "fetch"
    BY <1>4 DEF UpsertEntry, MayFail, TypeOK, Handlers, Idle
  <2> QED BY <2>1, <2>2, TokensQuiet
<1>5. ASSUME NEW x \in Handler, NEW ok \in BOOLEAN, ReadLog(x, ok)
      PROVE  TokensInv'
  <2>1. /\ meta' = meta /\ loop'.mem = loop.mem
        /\ maps'.tokens \in {maps.tokens, 0} /\ maps'.provider \in {maps.provider, 0}
        /\ hist'.added = hist.added /\ hist'.padded = hist.padded
    BY <1>5 DEF ReadLog, Goto, MayFail, TypeOK, Loops
  <2>2. \A y \in Handler : \/ h'[y] = h[y]
                           \/ h'[y].pc \notin {"fetch", "write"} /\ h[y].pc # "fetch"
    BY <1>5 DEF ReadLog, Goto, MayFail, TypeOK, Handlers, Idle
  <2> QED BY <2>1, <2>2, TokensQuiet
<1>6. ASSUME NEW x \in Handler, NEW ok \in BOOLEAN, PutLog(x, ok)
      PROVE  TokensInv'
  <2>1. /\ meta' = meta /\ loop'.mem = loop.mem
        /\ maps'.tokens \in {maps.tokens, 0} /\ maps'.provider \in {maps.provider, 0}
        /\ hist'.added = hist.added /\ hist'.padded = hist.padded
    BY <1>6 DEF PutLog, Put, MayFail, TypeOK, Loops
  <2>2. \A y \in Handler : \/ h'[y] = h[y]
                           \/ h'[y].pc \notin {"fetch", "write"} /\ h[y].pc # "fetch"
    BY <1>6 DEF PutLog, Put, MayFail, TypeOK, Handlers, Idle
  <2> QED BY <2>1, <2>2, TokensQuiet
<1>7. ASSUME NEW x \in Handler, AddTokens(x)
      PROVE  TokensInv'
  <2>1. /\ hist.added \in Nat /\ hist.padded \in Nat /\ maps.tokens \in Nat
        /\ hist'.added = hist.added + 1 /\ hist'.padded = hist.padded
        /\ maps'.tokens = maps.tokens + 1 /\ maps'.provider = maps.provider
    BY <1>7 DEF AddTokens, TypeOK
  <2>2. /\ meta' = meta /\ loop' = loop
        /\ \A y \in Handler : h'[y] = h[y] \/ (h'[y].pc = "provider" /\ h[y].pc # "fetch")
    BY <1>7 DEF AddTokens, Goto, TypeOK, Handlers
  <2>3. ASSUME NEW k, NEW n \in Nat, NEW m, Accounted(m, Counts(k), Drained(k), n)
        PROVE  Accounted(m, Counts(k)', Drained(k)', n)
    <3>1. Drained(k)' = Drained(k) /\ Counts(k)' \in SUBSET Counts(k)
      BY <2>2, DrainedSame, CountsWithin, CountsHeld
    <3> QED BY <2>3, <3>1, Forget
  <2>4. Accounted(maps.tokens + 1, Counts("tokens"), Drained("tokens"), hist.added + 1)
    BY <2>1, Report DEF TokensInv
  <2> QED BY <2>1, <2>3, <2>4 DEF TokensInv
<1>8. ASSUME NEW x \in Handler, AddProviderTokens(x)
      PROVE  TokensInv'
  <2>1. /\ hist.added \in Nat /\ hist.padded \in Nat /\ maps.provider \in Nat
        /\ hist'.added = hist.added /\ hist'.padded = hist.padded + 1
        /\ maps'.tokens = maps.tokens /\ maps'.provider = maps.provider + 1
    BY <1>8 DEF AddProviderTokens, TypeOK
  <2>2. /\ meta' = meta /\ loop' = loop
        /\ \A y \in Handler : h'[y] = h[y] \/ (h'[y].pc = "idle" /\ h[y].pc # "fetch")
    BY <1>8 DEF AddProviderTokens, TypeOK, Handlers, Idle
  <2>3. ASSUME NEW k, NEW n \in Nat, NEW m, Accounted(m, Counts(k), Drained(k), n)
        PROVE  Accounted(m, Counts(k)', Drained(k)', n)
    <3>1. Drained(k)' = Drained(k) /\ Counts(k)' \in SUBSET Counts(k)
      BY <2>2, DrainedSame, CountsWithin, CountsHeld
    <3> QED BY <2>3, <3>1, Forget
  <2>4. Accounted(maps.provider + 1, Counts("provider"), Drained("provider"), hist.padded + 1)
    BY <2>1, Report DEF TokensInv
  <2> QED BY <2>1, <2>3, <2>4 DEF TokensInv
<1>9. ASSUME NEW x \in Handler, ReasoningDegraded(x)
      PROVE  TokensInv'
  <2>1. /\ meta' = meta /\ loop'.mem = loop.mem
        /\ maps'.tokens \in {maps.tokens, 0} /\ maps'.provider \in {maps.provider, 0}
        /\ hist'.added = hist.added /\ hist'.padded = hist.padded
    BY <1>9 DEF ReasoningDegraded, Other, Goto, TypeOK, Loops
  <2>2. \A y \in Handler : \/ h'[y] = h[y]
                           \/ h'[y].pc \notin {"fetch", "write"} /\ h[y].pc # "fetch"
    BY <1>9 DEF ReasoningDegraded, Other, Goto, TypeOK, Handlers, Idle
  <2> QED BY <2>1, <2>2, TokensQuiet
<1>10. ASSUME NEW x \in Handler, CircuitReset(x)
      PROVE  TokensInv'
  <2>1. /\ meta' = meta /\ loop'.mem = loop.mem
        /\ maps'.tokens \in {maps.tokens, 0} /\ maps'.provider \in {maps.provider, 0}
        /\ hist'.added = hist.added /\ hist'.padded = hist.padded
    BY <1>10 DEF CircuitReset, Other, Goto, TypeOK, Loops
  <2>2. \A y \in Handler : \/ h'[y] = h[y]
                           \/ h'[y].pc \notin {"fetch", "write"} /\ h[y].pc # "fetch"
    BY <1>10 DEF CircuitReset, Other, Goto, TypeOK, Handlers, Idle
  <2> QED BY <2>1, <2>2, TokensQuiet
<1>11. ASSUME NEW x \in Handler, SetStatus(x)
      PROVE  TokensInv'
  <2>1. /\ meta' = meta /\ loop'.mem = loop.mem
        /\ maps'.tokens \in {maps.tokens, 0} /\ maps'.provider \in {maps.provider, 0}
        /\ hist'.added = hist.added /\ hist'.padded = hist.padded
    BY <1>11 DEF SetStatus, TypeOK, Loops
  <2>2. \A y \in Handler : \/ h'[y] = h[y]
                           \/ h'[y].pc \notin {"fetch", "write"} /\ h[y].pc # "fetch"
    BY <1>11 DEF SetStatus, TypeOK, Handlers, Idle
  <2> QED BY <2>1, <2>2, TokensQuiet
<1>12. ASSUME NEW x \in Handler, DirectDone(x)
      PROVE  TokensInv'
  <2>1. /\ hist.added \in Nat /\ hist.padded \in Nat /\ hist'.added = hist.added
        /\ hist'.padded = hist.padded /\ maps'.tokens = 0 /\ maps'.provider = 0
        /\ meta' = meta /\ loop' = loop /\ h[x].pc = "idle"
    BY <1>12 DEF DirectDone, Other, TypeOK
  <2>2. CASE Cloud \/ maps.tokens + maps.provider = 0
    <3>1. \A y \in Handler : h'[y] = h[y] \/ (h'[y].pc = "asked" /\ h[y].pc = "idle")
      BY <1>12, <2>2 DEF DirectDone, Other, Goto, TypeOK, Handlers
    <3> QED BY <2>1, <3>1, TokensQuiet
  <2>3. CASE ~(Cloud \/ maps.tokens + maps.provider = 0)
    <3>1. /\ h'[x].pc = "fetch" /\ h'[x].meta = [tokens |-> maps.tokens, provider |-> maps.provider]
          /\ \A y \in Handler : y # x => h'[y] = h[y]
      BY <1>12, <2>3 DEF DirectDone, Other, TypeOK, Handlers
    <3>2. ASSUME NEW k, NEW n \in Nat, Accounted(maps[k], Counts(k), Drained(k), n),
                 h'[x].meta[k] = maps[k]
          PROVE  Accounted(0, Counts(k)', Drained(k)', n)
      <4>1. Drained(k)'[x] = maps[k] /\ \A y \in Handler \ {x} : Drained(k)'[y] = Drained(k)[y]
        BY <3>1, <3>2 DEF Drained
      <4>2. Counts(k)' \in SUBSET Counts(k)
        BY <2>1, <3>1, CountsWithin, CountsHeld
      <4>3. Accounted(0, Counts(k), Drained(k)', n)
        BY <3>2, <4>1, DrainAside
      <4> QED BY <4>2, <4>3, Forget
    <3>3. h'[x].meta["tokens"] = maps["tokens"] /\ h'[x].meta["provider"] = maps["provider"]
      BY <3>1
    <3> QED BY <2>1, <3>2, <3>3 DEF TokensInv
  <2> QED BY <2>2, <2>3
<1>13. ASSUME NEW x \in Handler, DirectFetch(x)
      PROVE  TokensInv'
  <2>1. /\ hist.added \in Nat /\ hist.padded \in Nat /\ hist' = hist /\ maps' = maps
        /\ meta' = meta /\ loop' = loop /\ h[x].pc = "fetch"
    BY <1>13 DEF DirectFetch, TypeOK
  <2>2. /\ h'[x].pc = "write"
        /\ h'[x].meta = [tokens |-> meta.tokens + h[x].meta.tokens,
                         provider |-> meta.provider + h[x].meta.provider]
        /\ \A y \in Handler : y # x => h'[y] = h[y]
    BY <1>13 DEF DirectFetch, TypeOK, Handlers
  <2>3. ASSUME NEW k, NEW n \in Nat, Accounted(maps[k], Counts(k), Drained(k), n),
               h'[x].meta[k] = meta[k] + h[x].meta[k]
        PROVE  Accounted(maps[k], Counts(k)', Drained(k)', n)
    <3> DEFINE W == Counts(k) \cup {meta[k] + Drained(k)[x]}
    <3>1. Drained(k)[x] = h[x].meta[k] /\ Drained(k)'[x] = 0
          /\ \A y \in Handler \ {x} : Drained(k)'[y] = Drained(k)[y]
      BY <2>1, <2>2 DEF Drained
    <3>2. Accounted(maps[k], W, Drained(k)', n)
      BY <2>3, <3>1, AddTo, CountsHeld
    <3>3. /\ meta[k] \in W /\ loop.mem[k] \in W
          /\ \A y \in Handler : h'[y].pc = "write" => h'[y].meta[k] \in W
      BY <2>1, <2>2, <2>3, <3>1, CountsHeld
    <3> HIDE DEF W
    <3>4. Counts(k)' \in SUBSET W
      BY <2>1, <3>3, CountsWithin
    <3> QED BY <3>2, <3>4, Forget
  <2>4. /\ h'[x].meta["tokens"] = meta["tokens"] + h[x].meta["tokens"]
        /\ h'[x].meta["provider"] = meta["provider"] + h[x].meta["provider"]
    BY <2>2
  <2> QED BY <2>1, <2>3, <2>4 DEF TokensInv
<1>14. ASSUME NEW x \in Handler, NEW ok \in BOOLEAN, DirectWrite(x, ok)
      PROVE  TokensInv'
  <2>1. /\ hist.added \in Nat /\ hist.padded \in Nat /\ hist' = hist /\ maps' = maps
        /\ loop' = loop /\ h[x].pc = "write" /\ meta' \in {meta, h[x].meta}
    BY <1>14 DEF DirectWrite, TypeOK
  <2>2. h'[x].pc = "asked" /\ \A y \in Handler : y # x => h'[y] = h[y]
    BY <1>14 DEF DirectWrite, TypeOK, Handlers
  <2>3. ASSUME NEW k, NEW n \in Nat, NEW m, Accounted(m, Counts(k), Drained(k), n)
        PROVE  Accounted(m, Counts(k)', Drained(k)', n)
    <3>1. Drained(k)' = Drained(k) /\ Counts(k)' \in SUBSET Counts(k)
      BY <2>1, <2>2, DrainedSame, CountsWithin, CountsHeld
    <3> QED BY <2>3, <3>1, Forget
  <2> QED BY <2>1, <2>3 DEF TokensInv
<1>15. ASSUME NEW x \in Handler, DirectAsk(x)
      PROVE  TokensInv'
  <2>1. /\ meta' = meta /\ loop'.mem = loop.mem
        /\ maps'.tokens \in {maps.tokens, 0} /\ maps'.provider \in {maps.provider, 0}
        /\ hist'.added = hist.added /\ hist'.padded = hist.padded
    BY <1>15 DEF DirectAsk, TypeOK, Loops
  <2>2. \A y \in Handler : \/ h'[y] = h[y]
                           \/ h'[y].pc \notin {"fetch", "write"} /\ h[y].pc # "fetch"
    BY <1>15 DEF DirectAsk, TypeOK, Handlers, Idle
  <2> QED BY <2>1, <2>2, TokensQuiet
<1>16. ASSUME NEW x \in Handler, DirectRemove(x)
      PROVE  TokensInv'
  <2>1. /\ meta' = meta /\ loop'.mem = loop.mem
        /\ maps'.tokens \in {maps.tokens, 0} /\ maps'.provider \in {maps.provider, 0}
        /\ hist'.added = hist.added /\ hist'.padded = hist.padded
    BY <1>16 DEF DirectRemove, RemoveSession, NoTokens, Goto, TypeOK, Loops
  <2>2. \A y \in Handler : \/ h'[y] = h[y]
                           \/ h'[y].pc \notin {"fetch", "write"} /\ h[y].pc # "fetch"
    BY <1>16 DEF DirectRemove, RemoveSession, NoTokens, Goto, TypeOK, Handlers, Idle
  <2> QED BY <2>1, <2>2, TokensQuiet
<1>17. ASSUME NEW push \in BOOLEAN, Capture(push)
      PROVE  TokensInv'
  <2>1. /\ meta' = meta /\ loop'.mem = loop.mem
        /\ maps'.tokens \in {maps.tokens, 0} /\ maps'.provider \in {maps.provider, 0}
        /\ hist'.added = hist.added /\ hist'.padded = hist.padded
    BY <1>17 DEF Capture, TypeOK, Loops
  <2>2. \A y \in Handler : \/ h'[y] = h[y]
                           \/ h'[y].pc \notin {"fetch", "write"} /\ h[y].pc # "fetch"
    BY <1>17 DEF Capture, TypeOK, Handlers, Idle
  <2> QED BY <2>1, <2>2, TokensQuiet
<1>18. ASSUME SkipFlush
      PROVE  TokensInv'
  <2>1. /\ meta' = meta /\ loop'.mem = loop.mem
        /\ maps'.tokens \in {maps.tokens, 0} /\ maps'.provider \in {maps.provider, 0}
        /\ hist'.added = hist.added /\ hist'.padded = hist.padded
    BY <1>18 DEF SkipFlush, TypeOK, Loops
  <2>2. \A y \in Handler : \/ h'[y] = h[y]
                           \/ h'[y].pc \notin {"fetch", "write"} /\ h[y].pc # "fetch"
    BY <1>18 DEF SkipFlush, TypeOK, Handlers, Idle
  <2> QED BY <2>1, <2>2, TokensQuiet
<1>19. ASSUME FlushDrain
      PROVE  TokensInv'
  <2>1. /\ hist.added \in Nat /\ hist.padded \in Nat /\ hist' = hist /\ h' = h /\ meta' = meta
        /\ maps'.tokens = 0 /\ maps'.provider = maps.provider
    BY <1>19 DEF FlushDrain, Drain, TypeOK
  <2>2. /\ loop'.mem.tokens = loop.mem.tokens + maps.tokens
        /\ loop'.mem.provider = loop.mem.provider
    BY <1>19 DEF FlushDrain, Drain, TypeOK, Loops, Metas
  <2> DEFINE W == Counts("tokens") \cup {loop.mem.tokens + maps.tokens}
  <2>3. Accounted(0, W, Drained("tokens"), hist.added)
    BY <2>1, DrainInto, CountsHeld DEF TokensInv
  <2>4. meta'.tokens \in W /\ loop'.mem.tokens \in W
        /\ \A y \in Handler : h'[y].pc = "write" => h'[y].meta.tokens \in W
    BY <2>1, <2>2, CountsHeld
  <2> HIDE DEF W
  <2>5. Counts("tokens")' \in SUBSET W /\ Counts("provider")' \in SUBSET Counts("provider")
    BY <2>1, <2>2, <2>4, CountsWithin, CountsHeld
  <2>6. Drained("tokens")' = Drained("tokens") /\ Drained("provider")' = Drained("provider")
    BY <2>1, DrainedSame
  <2>7. Accounted(0, Counts("tokens")', Drained("tokens")', hist.added)
    BY <2>1, <2>3, <2>5, <2>6, Forget
  <2>8. Accounted(maps.provider, Counts("provider")', Drained("provider")', hist.padded)
    BY <2>1, <2>5, <2>6, Forget DEF TokensInv
  <2> QED BY <2>1, <2>7, <2>8 DEF TokensInv
<1>20. ASSUME NEW ok \in BOOLEAN, FlushStore(ok)
      PROVE  TokensInv'
  <2>1. /\ hist.added \in Nat /\ hist.padded \in Nat /\ hist' = hist /\ h' = h
        /\ maps'.tokens = maps.tokens /\ maps'.provider = 0 /\ meta' \in {meta, loop'.mem}
    <3>1. loop \in Loops
      BY DEF TypeOK
    <3>2. hist.added \in Nat /\ hist.padded \in Nat /\ hist' = hist /\ h' = h
          /\ maps'.tokens = maps.tokens /\ maps'.provider = 0
      BY <1>20 DEF FlushStore, Store, TypeOK
    <3>3. meta' \in {meta, loop'.mem}
      <4>1. PICK mem, pc : /\ loop' = [loop EXCEPT !.pc = pc, !.mem = mem]
                           /\ meta' \in {meta, mem}
        BY <1>20 DEF FlushStore, Store
      <4>2. loop'.mem = mem
        BY <3>1, <4>1 DEF Loops
      <4> QED BY <4>1, <4>2
    <3> QED BY <3>2, <3>3
  <2>2. /\ loop'.mem.tokens = loop.mem.tokens
        /\ loop'.mem.provider = loop.mem.provider + maps.provider
    BY <1>20 DEF FlushStore, Store, TypeOK, Loops, Metas
  <2> DEFINE W == Counts("provider") \cup {loop.mem.provider + maps.provider}
  <2>3. Accounted(0, W, Drained("provider"), hist.padded)
    BY <2>1, DrainInto, CountsHeld DEF TokensInv
  <2>4. meta'.provider \in W /\ loop'.mem.provider \in W
        /\ \A y \in Handler : h'[y].pc = "write" => h'[y].meta.provider \in W
    BY <2>1, <2>2, CountsHeld
  <2> HIDE DEF W
  <2>5. Counts("provider")' \in SUBSET W /\ Counts("tokens")' \in SUBSET Counts("tokens")
    BY <2>1, <2>2, <2>4, CountsWithin, CountsHeld
  <2>6. Drained("tokens")' = Drained("tokens") /\ Drained("provider")' = Drained("provider")
    BY <2>1, DrainedSame
  <2>7. Accounted(0, Counts("provider")', Drained("provider")', hist.padded)
    BY <2>1, <2>3, <2>5, <2>6, Forget
  <2>8. Accounted(maps.tokens, Counts("tokens")', Drained("tokens")', hist.added)
    BY <2>1, <2>5, <2>6, Forget DEF TokensInv
  <2> QED BY <2>1, <2>7, <2>8 DEF TokensInv
<1>21. ASSUME NEW clean \in BOOLEAN, Break(clean)
      PROVE  TokensInv'
  <2>1. /\ meta' = meta /\ loop'.mem = loop.mem
        /\ maps'.tokens \in {maps.tokens, 0} /\ maps'.provider \in {maps.provider, 0}
        /\ hist'.added = hist.added /\ hist'.padded = hist.padded
    BY <1>21 DEF Break, TypeOK, Loops
  <2>2. \A y \in Handler : \/ h'[y] = h[y]
                           \/ h'[y].pc \notin {"fetch", "write"} /\ h[y].pc # "fetch"
    BY <1>21 DEF Break, TypeOK, Handlers, Idle
  <2> QED BY <2>1, <2>2, TokensQuiet
<1>22. ASSUME WasDegraded
      PROVE  TokensInv'
  <2>1. /\ meta' = meta /\ loop'.mem = loop.mem
        /\ maps'.tokens \in {maps.tokens, 0} /\ maps'.provider \in {maps.provider, 0}
        /\ hist'.added = hist.added /\ hist'.padded = hist.padded
    BY <1>22 DEF WasDegraded, TypeOK, Loops
  <2>2. \A y \in Handler : \/ h'[y] = h[y]
                           \/ h'[y].pc \notin {"fetch", "write"} /\ h[y].pc # "fetch"
    BY <1>22 DEF WasDegraded, TypeOK, Handlers, Idle
  <2> QED BY <2>1, <2>2, TokensQuiet
<1>23. ASSUME LoopRemoves
      PROVE  TokensInv'
  <2>1. /\ meta' = meta /\ loop'.mem = loop.mem
        /\ maps'.tokens \in {maps.tokens, 0} /\ maps'.provider \in {maps.provider, 0}
        /\ hist'.added = hist.added /\ hist'.padded = hist.padded
    BY <1>23 DEF LoopRemoves, RemoveSession, NoTokens, LoopGoto, TypeOK, Loops
  <2>2. \A y \in Handler : \/ h'[y] = h[y]
                           \/ h'[y].pc \notin {"fetch", "write"} /\ h[y].pc # "fetch"
    BY <1>23 DEF LoopRemoves, RemoveSession, NoTokens, LoopGoto, TypeOK, Handlers, Idle
  <2> QED BY <2>1, <2>2, TokensQuiet
<1>24. ASSUME LastDrain
      PROVE  TokensInv'
  <2>1. /\ hist.added \in Nat /\ hist.padded \in Nat /\ hist' = hist /\ h' = h /\ meta' = meta
        /\ maps'.tokens = 0 /\ maps'.provider = maps.provider
    BY <1>24 DEF LastDrain, Drain, TypeOK
  <2>2. /\ loop'.mem.tokens = loop.mem.tokens + maps.tokens
        /\ loop'.mem.provider = loop.mem.provider
    BY <1>24 DEF LastDrain, Drain, TypeOK, Loops, Metas
  <2> DEFINE W == Counts("tokens") \cup {loop.mem.tokens + maps.tokens}
  <2>3. Accounted(0, W, Drained("tokens"), hist.added)
    BY <2>1, DrainInto, CountsHeld DEF TokensInv
  <2>4. meta'.tokens \in W /\ loop'.mem.tokens \in W
        /\ \A y \in Handler : h'[y].pc = "write" => h'[y].meta.tokens \in W
    BY <2>1, <2>2, CountsHeld
  <2> HIDE DEF W
  <2>5. Counts("tokens")' \in SUBSET W /\ Counts("provider")' \in SUBSET Counts("provider")
    BY <2>1, <2>2, <2>4, CountsWithin, CountsHeld
  <2>6. Drained("tokens")' = Drained("tokens") /\ Drained("provider")' = Drained("provider")
    BY <2>1, DrainedSame
  <2>7. Accounted(0, Counts("tokens")', Drained("tokens")', hist.added)
    BY <2>1, <2>3, <2>5, <2>6, Forget
  <2>8. Accounted(maps.provider, Counts("provider")', Drained("provider")', hist.padded)
    BY <2>1, <2>5, <2>6, Forget DEF TokensInv
  <2> QED BY <2>1, <2>7, <2>8 DEF TokensInv
<1>25. ASSUME NEW ok \in BOOLEAN, LastStore(ok)
      PROVE  TokensInv'
  <2>1. /\ hist.added \in Nat /\ hist.padded \in Nat /\ hist' = hist /\ h' = h
        /\ maps'.tokens = maps.tokens /\ maps'.provider = 0 /\ meta' \in {meta, loop'.mem}
    <3>1. loop \in Loops
      BY DEF TypeOK
    <3>2. hist.added \in Nat /\ hist.padded \in Nat /\ hist' = hist /\ h' = h
          /\ maps'.tokens = maps.tokens /\ maps'.provider = 0
      BY <1>25 DEF LastStore, Store, TypeOK
    <3>3. meta' \in {meta, loop'.mem}
      <4>1. PICK mem, pc : /\ loop' = [loop EXCEPT !.pc = pc, !.mem = mem]
                           /\ meta' \in {meta, mem}
        BY <1>25 DEF LastStore, Store
      <4>2. loop'.mem = mem
        BY <3>1, <4>1 DEF Loops
      <4> QED BY <4>1, <4>2
    <3> QED BY <3>2, <3>3
  <2>2. /\ loop'.mem.tokens = loop.mem.tokens
        /\ loop'.mem.provider = loop.mem.provider + maps.provider
    BY <1>25 DEF LastStore, Store, TypeOK, Loops, Metas
  <2> DEFINE W == Counts("provider") \cup {loop.mem.provider + maps.provider}
  <2>3. Accounted(0, W, Drained("provider"), hist.padded)
    BY <2>1, DrainInto, CountsHeld DEF TokensInv
  <2>4. meta'.provider \in W /\ loop'.mem.provider \in W
        /\ \A y \in Handler : h'[y].pc = "write" => h'[y].meta.provider \in W
    BY <2>1, <2>2, CountsHeld
  <2> HIDE DEF W
  <2>5. Counts("provider")' \in SUBSET W /\ Counts("tokens")' \in SUBSET Counts("tokens")
    BY <2>1, <2>2, <2>4, CountsWithin, CountsHeld
  <2>6. Drained("tokens")' = Drained("tokens") /\ Drained("provider")' = Drained("provider")
    BY <2>1, DrainedSame
  <2>7. Accounted(0, Counts("provider")', Drained("provider")', hist.padded)
    BY <2>1, <2>3, <2>5, <2>6, Forget
  <2>8. Accounted(maps.tokens, Counts("tokens")', Drained("tokens")', hist.added)
    BY <2>1, <2>5, <2>6, Forget DEF TokensInv
  <2> QED BY <2>1, <2>7, <2>8 DEF TokensInv
<1>26. ASSUME NEW ok \in BOOLEAN, Scan(ok)
      PROVE  TokensInv'
  <2>1. /\ meta' = meta /\ loop'.mem = loop.mem
        /\ maps'.tokens \in {maps.tokens, 0} /\ maps'.provider \in {maps.provider, 0}
        /\ hist'.added = hist.added /\ hist'.padded = hist.padded
    BY <1>26 DEF Scan, TypeOK, Loops
  <2>2. \A y \in Handler : \/ h'[y] = h[y]
                           \/ h'[y].pc \notin {"fetch", "write"} /\ h[y].pc # "fetch"
    BY <1>26 DEF Scan, TypeOK, Handlers, Idle
  <2> QED BY <2>1, <2>2, TokensQuiet
<1>27. ASSUME ReadForPlaceholder
      PROVE  TokensInv'
  <2>1. /\ meta' = meta /\ loop'.mem = loop.mem
        /\ maps'.tokens \in {maps.tokens, 0} /\ maps'.provider \in {maps.provider, 0}
        /\ hist'.added = hist.added /\ hist'.padded = hist.padded
    BY <1>27 DEF ReadForPlaceholder, TypeOK, Loops
  <2>2. \A y \in Handler : \/ h'[y] = h[y]
                           \/ h'[y].pc \notin {"fetch", "write"} /\ h[y].pc # "fetch"
    BY <1>27 DEF ReadForPlaceholder, TypeOK, Handlers, Idle
  <2> QED BY <2>1, <2>2, TokensQuiet
<1>28. ASSUME NEW ok \in BOOLEAN, WritePlaceholder(ok)
      PROVE  TokensInv'
  <2>1. /\ meta' = meta /\ loop'.mem = loop.mem
        /\ maps'.tokens \in {maps.tokens, 0} /\ maps'.provider \in {maps.provider, 0}
        /\ hist'.added = hist.added /\ hist'.padded = hist.padded
    BY <1>28 DEF WritePlaceholder, TypeOK, Loops
  <2>2. \A y \in Handler : \/ h'[y] = h[y]
                           \/ h'[y].pc \notin {"fetch", "write"} /\ h[y].pc # "fetch"
    BY <1>28 DEF WritePlaceholder, TypeOK, Handlers, Idle
  <2> QED BY <2>1, <2>2, TokensQuiet
<1>29. ASSUME Placed
      PROVE  TokensInv'
  <2>1. /\ meta' = meta /\ loop'.mem = loop.mem
        /\ maps'.tokens \in {maps.tokens, 0} /\ maps'.provider \in {maps.provider, 0}
        /\ hist'.added = hist.added /\ hist'.padded = hist.padded
    BY <1>29 DEF Placed, LoopGoto, TypeOK, Loops
  <2>2. \A y \in Handler : \/ h'[y] = h[y]
                           \/ h'[y].pc \notin {"fetch", "write"} /\ h[y].pc # "fetch"
    BY <1>29 DEF Placed, LoopGoto, TypeOK, Handlers, Idle
  <2> QED BY <2>1, <2>2, TokensQuiet
<1>30. ASSUME NEW ok \in BOOLEAN, ReadPlaceholders(ok)
      PROVE  TokensInv'
  <2>1. /\ meta' = meta /\ loop'.mem = loop.mem
        /\ maps'.tokens \in {maps.tokens, 0} /\ maps'.provider \in {maps.provider, 0}
        /\ hist'.added = hist.added /\ hist'.padded = hist.padded
    BY <1>30 DEF ReadPlaceholders, LoopGoto, TypeOK, Loops
  <2>2. \A y \in Handler : \/ h'[y] = h[y]
                           \/ h'[y].pc \notin {"fetch", "write"} /\ h[y].pc # "fetch"
    BY <1>30 DEF ReadPlaceholders, LoopGoto, TypeOK, Handlers, Idle
  <2> QED BY <2>1, <2>2, TokensQuiet
<1>31. ASSUME NEW ok \in BOOLEAN, PutPlaceholders(ok)
      PROVE  TokensInv'
  <2>1. /\ meta' = meta /\ loop'.mem = loop.mem
        /\ maps'.tokens \in {maps.tokens, 0} /\ maps'.provider \in {maps.provider, 0}
        /\ hist'.added = hist.added /\ hist'.padded = hist.padded
    BY <1>31 DEF PutPlaceholders, Put, TypeOK, Loops
  <2>2. \A y \in Handler : \/ h'[y] = h[y]
                           \/ h'[y].pc \notin {"fetch", "write"} /\ h[y].pc # "fetch"
    BY <1>31 DEF PutPlaceholders, Put, TypeOK, Handlers, Idle
  <2> QED BY <2>1, <2>2, TokensQuiet
<1>32. ASSUME LoopEnds
      PROVE  TokensInv'
  <2>1. /\ meta' = meta /\ loop'.mem = loop.mem
        /\ maps'.tokens \in {maps.tokens, 0} /\ maps'.provider \in {maps.provider, 0}
        /\ hist'.added = hist.added /\ hist'.padded = hist.padded
    BY <1>32 DEF LoopEnds, LoopGoto, TypeOK, Loops
  <2>2. \A y \in Handler : \/ h'[y] = h[y]
                           \/ h'[y].pc \notin {"fetch", "write"} /\ h[y].pc # "fetch"
    BY <1>32 DEF LoopEnds, LoopGoto, TypeOK, Handlers, Idle
  <2> QED BY <2>1, <2>2, TokensQuiet
<1>33. CASE UNCHANGED vars
  BY <1>33 DEF vars, TokensInv, Counts, Drained
<1> QED BY <1>1, <1>2, <1>3, <1>4, <1>5, <1>6, <1>7, <1>8, <1>9, <1>10, <1>11, <1>12,
      <1>13, <1>14, <1>15, <1>16, <1>17, <1>18, <1>19, <1>20, <1>21, <1>22, <1>23, <1>24,
      <1>25, <1>26, <1>27, <1>28, <1>29, <1>30, <1>31, <1>32, <1>33 DEF Next, LoopNext,
      HandlerNext

-----------------------------------------------------------------------------
(* The actions respect the types of the variables.                          *)
THEOREM LogTypes == Spec => []TypeOK
<1>1. Init => LogInv
  BY LogInit
<1>2. LogInv /\ [Next]_vars => LogInv'
  BY LogNext
<1>3. LogInv => TypeOK
  BY DEF LogInv
<1> QED BY <1>1, <1>2, <1>3, PTL DEF Spec

(* An accepted result is not replaced: the per-session mutex orders the     *)
(* results, and placeholders are written only when none can come            *)
(* (session_write_lock, upsert_entry, write_degraded_placeholders).         *)
THEOREM ResultsStay == Spec => []AcceptedKept
<1>1. Init => LogInv
  BY LogInit
<1>2. LogInv /\ [Next]_vars => LogInv'
  BY LogNext
<1>3. LogInv => AcceptedKept
  BY DEF LogInv, ResultsKept, AcceptedKept
<1> QED BY <1>1, <1>2, <1>3, PTL DEF Spec

(* A session finished cleanly has its whole log, in both places             *)
(* (write_degraded_placeholders, the upload of ReasoningResult).            *)
THEOREM LogWhole == Spec => []FinishedLogWhole
<1>1. Init => LogInv
  BY LogInit
<1>2. LogInv /\ [Next]_vars => LogInv'
  BY LogNext
<1>3. LogInv => FinishedLogWhole
  <2> SUFFICES ASSUME LogInv, loop.pc = "ended", loop.clean, ~hist.late, ~hist.failed
               PROVE  /\ StepsIn(file) = 1 .. loop.steps
                      /\ Cloud /\ Quiet => cloud = file
    BY DEF FinishedLogWhole
  <2>1. StepsIn(file) = 1 .. loop.steps
    BY DEF LogInv, WritersAlone, StepsCovered
  <2>2. Cloud /\ Quiet => cloud = file
    BY DEF LogInv, Uploaded, LoopOwes, Quiet, Writing
  <2> QED BY <2>1, <2>2
<1> QED BY <1>1, <1>2, <1>3, PTL DEF Spec

(* No token is counted twice, although the loop and every Done that finds   *)
(* no handle drain the maps and write the same file (add_tokens,            *)
(* drain_tokens, flush, Done without a handle).                             *)
THEOREM TokensOnce == Spec => []TokensCountedOnce
<1>1. Init => LogInv /\ TokensInv
  BY LogInit
<1>2. LogInv /\ TokensInv /\ [Next]_vars => (LogInv /\ TokensInv)'
  BY LogNext, TokensStep DEF LogInv
<1>3. LogInv /\ TokensInv => TokensCountedOnce
  <2> SUFFICES ASSUME TypeOK, TokensInv PROVE TokensCountedOnce
    BY DEF LogInv
  <2>1. hist.added \in Nat /\ hist.padded \in Nat
    BY DEF TypeOK
  <2>2. meta.tokens + maps.tokens <= hist.added
    BY <2>1, NeverMore, CountsHeld DEF TokensInv
  <2>3. meta.provider + maps.provider <= hist.padded
    BY <2>1, NeverMore, CountsHeld DEF TokensInv
  <2> QED BY <2>2, <2>3 DEF TokensCountedOnce
<1> QED BY <1>1, <1>2, <1>3, PTL DEF Spec
=============================================================================
