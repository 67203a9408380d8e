------------------------------ MODULE Monitors ------------------------------
(***************************************************************************)
(* The classes that block on a mutex and condition variables side by side, *)
(* and what is proved about them for every value of the constants.  At the *)
(* start one part is picked, and only that one moves                       *)
(*   "rwlock"  RWLock                                                      *)
(*   "pool"    ThreadPool                                                  *)
(*   "group"   WaitGroup                                                   *)
(*   "commit"  GroupCommit, the many-writers example                       *)
(***************************************************************************)
EXTENDS RWLock, Sequences, FiniteSetTheorems, TLAPS

CONSTANTS
  Parts,                         \* the parts to check
  PoolWorkers, Owner, MaxTasks,  \* of the pool
  Workers, Waiters,              \* of the wait group
  Users, userDataNum             \* of the group commit

VARIABLES
  part,
  tasks, stop, poolPc, current, accepted, finished,
  counter, done_flag, mutex, launched, groupPc,
  writers, g_buf, user, printed, queued, count

poolVars == <<tasks, stop, poolPc, current, accepted, finished>>
groupVars == <<counter, done_flag, mutex, launched, groupPc>>
commitVars == <<writers, g_buf, user, printed, queued, count>>
workVars == <<vars, poolVars, groupVars, commitVars, part>>

-----------------------------------------------------------------------------
(* RWLock, for any finite set of threads.                                  *)

\* A step of thread t leaves the other threads where they are in the lock,
\* though it may wake some of them.
OthersStay(t) ==
  \A u \in Threads \ {t} :
    /\ pc'[u] = "reading" <=> pc[u] = "reading"
    /\ pc'[u] = "writing" <=> pc[u] = "writing"
    /\ pc'[u] \in {"drainSleep", "drain", "writing"} <=>
         pc[u] \in {"drainSleep", "drain", "writing"}

(* Waking sleepers moves nobody into or out of the lock (Wake).            *)
LEMMA WakeFacts ==
  ASSUME TypeOK, NEW S \in SUBSET (OnReader \cup OnWriter)
  PROVE  /\ Wake(S) \in [Threads -> {"idle", "wlock", "wSleep", "drain", "drainSleep",
                                     "writing", "rlock", "rSleep", "reading"}]
         /\ \A u \in Threads :
              /\ Wake(S)[u] = "reading" <=> pc[u] = "reading"
              /\ Wake(S)[u] = "writing" <=> pc[u] = "writing"
              /\ Wake(S)[u] \in {"drainSleep", "drain", "writing"} <=>
                   pc[u] \in {"drainSleep", "drain", "writing"}
  <1>1. ASSUME NEW u \in Threads
        PROVE  \/ Wake(S)[u] = pc[u]
               \/ pc[u] = "rSleep" /\ Wake(S)[u] = "rlock"
               \/ pc[u] = "wSleep" /\ Wake(S)[u] = "wlock"
               \/ pc[u] = "drainSleep" /\ Wake(S)[u] = "drain"
    <2>1. Wake(S)[u] = IF u \in S THEN Woken(pc[u]) ELSE pc[u]
      BY DEF Wake
    <2>2. u \in S => pc[u] \in {"rSleep", "wSleep", "drainSleep"}
      BY DEF OnReader, OnWriter
    <2>3. /\ Woken("rSleep") = "rlock" /\ Woken("wSleep") = "wlock"
          /\ Woken("drainSleep") = "drain"
      BY DEF Woken
    <2> QED
      BY <2>1, <2>2, <2>3
  <1>2. Wake(S) = [u \in Threads |-> Wake(S)[u]]
    BY DEF Wake
  <1>3. \A u \in Threads :
          Wake(S)[u] \in {"idle", "wlock", "wSleep", "drain", "drainSleep",
                          "writing", "rlock", "rSleep", "reading"}
    BY <1>1 DEF TypeOK
  <1> QED
    BY <1>1, <1>2, <1>3

(* When the others stay, the sets of readers and writers change by t only. *)
LEMMA OnlyOneMoves ==
  ASSUME NEW t \in Threads, OthersStay(t)
  PROVE  /\ Reading' = IF pc'[t] = "reading" THEN Reading \cup {t} ELSE Reading \ {t}
         /\ Writing' = IF pc'[t] = "writing" THEN Writing \cup {t} ELSE Writing \ {t}
         /\ Entered' = IF pc'[t] \in {"drainSleep", "drain", "writing"}
                       THEN Entered \cup {t} ELSE Entered \ {t}
  BY DEF OthersStay, Reading, Writing, Entered

(* The readers can be counted.                                             *)
LEMMA ReadersFinite ==
  IsFiniteSet(Reading) /\ Cardinality(Reading) <= Cardinality(Threads)
  <1>1. Reading \in SUBSET Threads
    BY DEF Reading
  <1> QED
    BY <1>1, FS_Subset, RWLockAssumption

(* Steps of t outside the lock, or between two places of an entered        *)
(* writer that keeps waiting, keep IInv.                                   *)
LEMMA QuietStep ==
  ASSUME IInv, NEW t \in Threads, OthersStay(t), TypeOK',
         pc[t] # "reading", pc'[t] # "reading", pc'[t] # "writing",
         pc[t] \in {"drainSleep", "drain", "writing"} <=>
           pc'[t] \in {"drainSleep", "drain", "writing"},
         UNCHANGED <<reader_count_, writer_entered_>>
  PROVE  IInv'
  <1>1. Reading' = Reading /\ Entered' = Entered /\ Writing' \subseteq Writing
    BY OnlyOneMoves DEF Reading, Entered, Writing
  <1> QED
    BY <1>1 DEF IInv, CountersAgree

(* The empty lock satisfies IInv.                                          *)
LEMMA InitInv == Init => IInv
  <1> SUFFICES ASSUME Init PROVE IInv
    OBVIOUS
  <1>1. Reading = {} /\ Writing = {} /\ Entered = {}
    BY DEF Init, Reading, Writing, Entered
  <1>2. TypeOK
    <2>1. reader_count_ \in 0 .. MAX_READERS
      BY RWLockAssumption DEF Init
    <2>2. pc \in [Threads -> {"idle"}]
      BY DEF Init
    <2>3. writer_entered_ \in BOOLEAN
      BY Zenon DEF Init
    <2> QED
      BY <2>1, <2>2, <2>3 DEF TypeOK
  <1> QED
    BY <1>1, <1>2, FS_EmptySet DEF Init, IInv, CountersAgree

(* Every step of the lock keeps IInv.                                      *)
LEMMA StepInv == IInv /\ [Next]_vars => IInv'
  <1> SUFFICES ASSUME IInv, [Next]_vars PROVE IInv'
    OBVIOUS
  <1>1. TypeOK /\ pc = [u \in Threads |-> pc[u]]
    BY DEF IInv, TypeOK
  <1>2. ASSUME NEW t \in Threads, Call(t)
        PROVE  IInv'
    <2>1. /\ pc[t] = "idle" /\ pc'[t] \in {"wlock", "rlock"}
          /\ UNCHANGED <<reader_count_, writer_entered_>>
      BY <1>1, <1>2 DEF Call, CallWLock, CallRLock, Goto, TypeOK
    <2>2. OthersStay(t) /\ TypeOK'
      BY <1>1, <1>2 DEF Call, CallWLock, CallRLock, Goto, TypeOK, OthersStay
    <2> QED
      BY <2>1, <2>2, QuietStep
  <1>3. ASSUME NEW t \in Threads, WLock(t)
        PROVE  IInv'
    <2>1. OthersStay(t) /\ TypeOK' /\ pc[t] = "wlock" /\ UNCHANGED reader_count_
      BY <1>1, <1>3, Zenon DEF WLock, Goto, TypeOK, OthersStay
    <2>2. CASE writer_entered_
      <3>1. pc'[t] = "wSleep" /\ UNCHANGED writer_entered_
        BY <1>1, <1>3, <2>2 DEF WLock, Goto, TypeOK
      <3> QED
        BY <2>1, <3>1, QuietStep
    <2>3. CASE ~ writer_entered_
      <3>1. /\ writer_entered_' = TRUE
            /\ pc'[t] \in {"drainSleep", "writing"}
            /\ pc'[t] = "writing" => ~ (reader_count_ > 0)
        BY <1>1, <1>3, <2>3 DEF WLock, Goto, TypeOK
      <3>2. Entered = {} /\ Writing = {}
        BY <2>3 DEF IInv, CountersAgree, Entered, Writing
      <3>3. Reading' = Reading /\ Entered' = {t}
        BY <2>1, <3>1, <3>2, OnlyOneMoves DEF Reading
      <3>4. CountersAgree'
        BY <2>1, <3>1, <3>3 DEF IInv, CountersAgree
      <3>5. Writing' # {} => reader_count_' = 0
        <4>1. Writing' # {} => pc'[t] = "writing"
          BY <2>1, <3>2, OnlyOneMoves
        <4> QED
          BY <4>1, <3>1, <2>1, <1>1 DEF TypeOK
      <3> QED
        BY <2>1, <3>4, <3>5 DEF IInv
    <2> QED
      BY <2>2, <2>3
  <1>4. ASSUME NEW t \in Threads, Drain(t)
        PROVE  IInv'
    <2>1. /\ OthersStay(t) /\ TypeOK' /\ pc[t] = "drain"
          /\ UNCHANGED <<reader_count_, writer_entered_>>
          /\ pc'[t] \in {"drainSleep", "writing"}
          /\ pc'[t] = "writing" => ~ (reader_count_ > 0)
      BY <1>1, <1>4 DEF Drain, Goto, TypeOK, OthersStay
    <2>2. Reading' = Reading /\ Entered' = Entered /\ Writing' \subseteq Writing \cup {t}
      BY <2>1, OnlyOneMoves DEF Reading, Entered
    <2>3. CountersAgree'
      BY <2>1, <2>2 DEF IInv, CountersAgree
    <2>4. Writing = {}
      BY <2>1 DEF IInv, CountersAgree, Entered, Writing
    <2>5. Writing' # {} => reader_count_' = 0
      <3>1. Writing' # {} => pc'[t] = "writing"
        BY <2>1, <2>4, OnlyOneMoves
      <3> QED
        BY <3>1, <2>1, <1>1 DEF TypeOK
    <2> QED
      BY <2>1, <2>3, <2>5 DEF IInv
  <1>5. ASSUME NEW t \in Threads, WUnlock(t)
        PROVE  IInv'
    <2>1. OnReader \in SUBSET (OnReader \cup OnWriter)
      OBVIOUS
    <2>2. /\ pc[t] = "writing" /\ pc'[t] = "idle"
          /\ \A u \in Threads \ {t} : pc'[u] = Wake(OnReader)[u]
          /\ ~ writer_entered_' /\ writer_entered_' \in BOOLEAN /\ UNCHANGED reader_count_
      BY <1>5, Zenon DEF WUnlock, Wake
    <2>3. OthersStay(t)
      BY <1>1, <2>1, <2>2, WakeFacts DEF OthersStay
    <2>4. TypeOK'
      BY <1>1, <1>5, <2>1, <2>2, WakeFacts DEF TypeOK, WUnlock
    <2>5. Reading' = Reading /\ Entered' = Entered \ {t} /\ Writing' = Writing \ {t}
      BY <2>2, <2>3, OnlyOneMoves DEF Reading
    <2>6. Entered = {t} /\ Writing \subseteq Entered
      BY <2>2 DEF IInv, CountersAgree, Entered, Writing
    <2>7. CountersAgree'
      BY <2>2, <2>5, <2>6 DEF IInv, CountersAgree
    <2> QED
      BY <2>4, <2>5, <2>6, <2>7 DEF IInv
  <1>6. ASSUME NEW t \in Threads, RLock(t)
        PROVE  IInv'
    <2>1. OthersStay(t) /\ pc[t] = "rlock" /\ UNCHANGED writer_entered_
      BY <1>1, <1>6 DEF RLock, Goto, TypeOK, OthersStay
    <2>2. CASE pc'[t] = "rSleep" /\ UNCHANGED reader_count_
      <3>1. TypeOK'
        BY <1>1, <1>6, <2>2 DEF RLock, Goto, TypeOK
      <3> QED
        BY <2>1, <2>2, <3>1, QuietStep
    <2>3. CASE /\ ~ writer_entered_ /\ reader_count_ # MAX_READERS
               /\ reader_count_' = reader_count_ + 1
               /\ Goto(t, "reading")
      <3>1. pc'[t] = "reading"
        BY <1>1, <2>3 DEF Goto
      <3>2. TypeOK'
        BY <1>1, <2>1, <2>3, RWLockAssumption DEF Goto, TypeOK
      <3>3. Entered = {} /\ Writing = {}
        BY <2>3 DEF IInv, CountersAgree, Entered, Writing
      <3>4. Reading' = Reading \cup {t} /\ Entered' = {} /\ Writing' = {}
        BY <2>1, <3>1, <3>3, OnlyOneMoves
      <3>5. t \notin Reading
        BY <2>1 DEF Reading
      <3>6. Cardinality(Reading') = Cardinality(Reading) + 1
        BY <3>4, <3>5, ReadersFinite, FS_AddElement
      <3>7. CountersAgree'
        BY <2>1, <2>3, <3>3, <3>4, <3>6 DEF IInv, CountersAgree
      <3> QED
        BY <3>2, <3>4, <3>7 DEF IInv
    <2> QED
      BY <1>1, <1>6, <2>2, <2>3 DEF RLock, Goto
  <1>7. ASSUME NEW t \in Threads, RUnlock(t)
        PROVE  IInv'
    <2>1. \E S \in SUBSET (OnReader \cup OnWriter) : pc' = [Wake(S) EXCEPT ![t] = "idle"]
      <3>1. CASE Goto(t, "idle")
        <4>1. pc' = [Wake({}) EXCEPT ![t] = "idle"]
          BY <1>1, <3>1, Zenon DEF Goto, Wake
        <4> QED
          BY <4>1
      <3>2. CASE \E u \in OnReader \cup OnWriter : pc' = [Wake({u}) EXCEPT ![t] = "idle"]
        BY <3>2, Zenon
      <3> QED
        BY <1>7, <3>1, <3>2, Zenon DEF RUnlock, NotifyOne
    <2>2. PICK S \in SUBSET (OnReader \cup OnWriter) : pc' = [Wake(S) EXCEPT ![t] = "idle"]
      BY <2>1, Zenon
    <2>3. /\ pc[t] = "reading" /\ pc'[t] = "idle"
          /\ \A u \in Threads \ {t} : pc'[u] = Wake(S)[u]
          /\ reader_count_' = reader_count_ - 1 /\ UNCHANGED writer_entered_
      BY <1>7, <2>2 DEF RUnlock, Wake
    <2>4. OthersStay(t)
      BY <1>1, <2>3, WakeFacts DEF OthersStay
    <2>5. Reading' = Reading \ {t} /\ Entered' = Entered /\ Writing' = Writing
      BY <2>3, <2>4, OnlyOneMoves DEF Entered, Writing
    <2>6. t \in Reading
      BY <2>3 DEF Reading
    <2>7. Cardinality(Reading') = Cardinality(Reading) - 1
      BY <2>5, <2>6, ReadersFinite, FS_RemoveElement, Zenon
    <2>8. reader_count_ # 0
      BY <2>6, ReadersFinite, FS_EmptySet DEF IInv, CountersAgree
    <2>9. TypeOK'
      <3>1. pc' \in [Threads -> {"idle", "wlock", "wSleep", "drain", "drainSleep",
                                 "writing", "rlock", "rSleep", "reading"}]
        BY <1>1, <2>2, WakeFacts
      <3>2. reader_count_' \in 0 .. MAX_READERS
        BY <1>1, <2>3, <2>8, RWLockAssumption DEF TypeOK
      <3> QED
        BY <1>1, <2>3, <3>1, <3>2 DEF TypeOK
    <2>10. CountersAgree'
      BY <2>3, <2>5, <2>7 DEF IInv, CountersAgree
    <2>11. Writing = {}
      BY <2>8 DEF IInv
    <2> QED
      BY <2>5, <2>9, <2>10, <2>11 DEF IInv
  <1>8. ASSUME NEW t \in Threads, SpuriousWakeup(t)
        PROVE  IInv'
    <2>1. {t} \in SUBSET (OnReader \cup OnWriter)
      BY <1>8 DEF SpuriousWakeup
    <2>2. /\ pc' = Wake({t}) /\ pc[t] \in {"rSleep", "wSleep", "drainSleep"}
          /\ UNCHANGED <<reader_count_, writer_entered_>>
      BY <1>8 DEF SpuriousWakeup, OnReader, OnWriter
    <2>3. OthersStay(t) /\ TypeOK'
      BY <1>1, <2>1, <2>2, WakeFacts DEF OthersStay, TypeOK
    <2>4. /\ pc'[t] # "reading" /\ pc'[t] # "writing"
          /\ pc[t] \in {"drainSleep", "drain", "writing"} <=>
               pc'[t] \in {"drainSleep", "drain", "writing"}
      BY <1>1, <2>1, <2>2, WakeFacts
    <2> QED
      BY <2>2, <2>3, <2>4, QuietStep
  <1>9. CASE UNCHANGED vars
    BY <1>9 DEF vars, IInv, TypeOK, CountersAgree, Reading, Writing, Entered
  <1> QED
    BY <1>2, <1>3, <1>4, <1>5, <1>6, <1>7, <1>8, <1>9 DEF Next, Step, Unlock

-----------------------------------------------------------------------------

(* IInv holds in every reachable state of the lock.                        *)
THEOREM InvariantHolds == Spec => []IInv
  BY InitInv, StepInv, PTL DEF Spec

(* reader_count_ and writer_entered_ always tell who is inside.            *)
THEOREM CountersTrue == Spec => []CountersAgree
  <1>1. IInv => CountersAgree
    BY DEF IInv
  <1> QED
    BY <1>1, InvariantHolds, PTL

(* A writer is alone in the lock, for any number of threads.               *)
THEOREM MutualExclusion == Spec => []Exclusion
  <1>1. ASSUME IInv PROVE Exclusion
    <2>1. Writing # {} => Reading = {}
      BY <1>1, ReadersFinite, FS_EmptySet DEF IInv, CountersAgree
    <2>2. Writing \subseteq Entered
      BY DEF Writing, Entered
    <2> QED
      BY <1>1, <2>1, <2>2 DEF IInv, CountersAgree, Exclusion
  <1> QED
    BY <1>1, InvariantHolds, PTL

(* Once a writer has entered, no step of any thread lets a reader in.      *)
THEOREM WritersPreferred == Spec => WriterPreference
  <1>1. ASSUME IInv, Next, Entered # {} PROVE Reading' \subseteq Reading
    <2>1. TypeOK /\ writer_entered_
      BY <1>1 DEF IInv, CountersAgree
    <2>2. ASSUME NEW u \in Threads, pc'[u] = "reading" PROVE pc[u] = "reading"
      <3>1. PICK t \in Threads : Call(t) \/ Step(t) \/ Unlock(t) \/ SpuriousWakeup(t)
        BY <1>1 DEF Next
      <3>2. CASE Call(t) \/ Step(t)
        BY <2>1, <2>2, <3>2, Zenon
           DEF TypeOK, Call, CallWLock, CallRLock, Step, WLock, Drain, RLock, Goto
      <3>3. \A S \in SUBSET (OnReader \cup OnWriter) :
              pc' = Wake(S) \/ pc' = [Wake(S) EXCEPT ![t] = "idle"] => pc[u] = "reading"
        <4>1. ASSUME NEW S \in SUBSET (OnReader \cup OnWriter),
                     pc' = Wake(S) \/ pc' = [Wake(S) EXCEPT ![t] = "idle"]
              PROVE  pc[u] = "reading"
          <5>1. Wake(S)[u] = "reading"
            BY <2>2, <4>1, Zenon DEF Wake
          <5> QED
            BY <5>1, <2>1, WakeFacts
        <4> QED
          BY <4>1
      <3>4. CASE WUnlock(t)
        <4>1. OnReader \in SUBSET (OnReader \cup OnWriter)
          OBVIOUS
        <4> QED
          BY <3>3, <3>4, <4>1, Zenon DEF WUnlock
      <3>5. CASE RUnlock(t)
        <4>1. CASE Goto(t, "idle")
          BY <2>1, <2>2, <4>1 DEF Goto, TypeOK
        <4>2. CASE \E v \in OnReader \cup OnWriter : pc' = [Wake({v}) EXCEPT ![t] = "idle"]
          <5>1. PICK v \in OnReader \cup OnWriter : pc' = [Wake({v}) EXCEPT ![t] = "idle"]
            BY <4>2, Zenon
          <5>2. {v} \in SUBSET (OnReader \cup OnWriter)
            OBVIOUS
          <5> QED
            BY <5>1, <5>2, <3>3
        <4> QED
          BY <3>5, <4>1, <4>2, Zenon DEF RUnlock, NotifyOne
      <3>6. CASE SpuriousWakeup(t)
        <4>1. {t} \in SUBSET (OnReader \cup OnWriter)
          BY <3>6 DEF SpuriousWakeup
        <4> QED
          BY <3>3, <3>6, <4>1, Zenon DEF SpuriousWakeup
      <3> QED
        BY <3>1, <3>2, <3>4, <3>5, <3>6 DEF Unlock
    <2> QED
      BY <2>2 DEF Reading
  <1>2. IInv /\ [Next]_vars => [Entered # {} => Reading' \subseteq Reading]_vars
    BY <1>1
  <1> QED
    BY <1>2, InvariantHolds, PTL DEF Spec, WriterPreference

(* With fewer threads than MAX_READERS, nobody sleeps on reader_ unless a  *)
(* writer is inside who will wake them all, and the entered writer sleeps  *)
(* only while a reader is inside.                                          *)
THEOREM WakeupsNotLost ==
  ASSUME Cardinality(Threads) < MAX_READERS
  PROVE  Spec => []NoLostWakeup
  <1>1. Init => NoLostWakeup
    BY DEF Init, NoLostWakeup, OnReader, OnWriter
  <1>2. IInv /\ NoLostWakeup /\ [Next]_vars => NoLostWakeup'
    <2> SUFFICES ASSUME IInv, NoLostWakeup, [Next]_vars PROVE NoLostWakeup'
      OBVIOUS
    <2>1. TypeOK /\ reader_count_ < MAX_READERS /\ reader_count_ # MAX_READERS
      <3>1. Cardinality(Threads) \in Nat /\ Cardinality(Reading) \in Nat
        BY RWLockAssumption, ReadersFinite, FS_CardinalityType
      <3> QED
        BY <3>1, RWLockAssumption, ReadersFinite DEF IInv, CountersAgree
    <2>2. CASE UNCHANGED vars
      BY <2>2 DEF vars, NoLostWakeup, OnReader, OnWriter
    <2>3. ASSUME NEW t \in Threads, Call(t) \/ Step(t)
          PROVE  NoLostWakeup'
      <3>1. CASE Call(t)
        <4>1. OnReader' \subseteq OnReader /\ OnWriter' \subseteq OnWriter
          BY <2>1, <3>1 DEF Call, CallWLock, CallRLock, Goto, TypeOK, OnReader, OnWriter
        <4> QED
          BY <3>1, <4>1 DEF Call, CallWLock, CallRLock, NoLostWakeup
      <3>2. CASE WLock(t)
        <4>1. writer_entered_' /\ UNCHANGED reader_count_
          BY <3>2 DEF WLock
        <4>2. OnWriter' \subseteq OnWriter \/ reader_count_ > 0
          BY <2>1, <3>2 DEF WLock, Goto, TypeOK, OnWriter
        <4> QED
          BY <4>1, <4>2 DEF NoLostWakeup
      <3>3. CASE Drain(t)
        <4>1. OnReader' \subseteq OnReader /\ (OnWriter' \subseteq OnWriter \/ reader_count_ > 0)
          BY <2>1, <3>3 DEF Drain, Goto, TypeOK, OnReader, OnWriter
        <4> QED
          BY <3>3, <4>1 DEF Drain, NoLostWakeup
      <3>4. CASE RLock(t)
        <4>1. /\ OnReader' \subseteq OnReader \/ writer_entered_
              /\ OnWriter' \subseteq OnWriter
              /\ UNCHANGED writer_entered_
          BY <2>1, <3>4 DEF RLock, Goto, TypeOK, OnReader, OnWriter
        <4>2. reader_count_ > 0 => reader_count_' > 0
          BY <2>1, <3>4 DEF RLock, TypeOK
        <4> QED
          BY <2>1, <4>1, <4>2 DEF NoLostWakeup
      <3> QED
        BY <2>3, <3>1, <3>2, <3>3, <3>4 DEF Step
    <2>4. ASSUME NEW t \in Threads, WUnlock(t)
          PROVE  NoLostWakeup'
      <3>1. \A u \in Threads : Wake(OnReader)[u] \notin {"rSleep", "wSleep"}
        <4>1. /\ Woken("rSleep") = "rlock" /\ Woken("wSleep") = "wlock"
          BY DEF Woken
        <4> QED
          BY <4>1 DEF Wake, OnReader
      <3>2. \A u \in Threads : Wake(OnReader)[u] = "drainSleep" => pc[u] = "drainSleep"
        <4>1. /\ Woken("rSleep") = "rlock" /\ Woken("wSleep") = "wlock"
          BY DEF Woken
        <4> QED
          BY <4>1 DEF Wake, OnReader
      <3>3. OnReader' = {} /\ OnWriter' \subseteq OnWriter
        BY <2>4, <3>1, <3>2 DEF WUnlock, OnReader, OnWriter, Wake
      <3> QED
        BY <2>4, <3>3 DEF WUnlock, NoLostWakeup
    <2>5. ASSUME NEW S \in SUBSET Threads, NEW u \in Threads,
                 S \subseteq OnReader \cup OnWriter,
                 Wake(S)[u] \in {"rSleep", "wSleep", "drainSleep"}
          PROVE  u \notin S /\ Wake(S)[u] = pc[u]
      <3>1. /\ Woken("rSleep") = "rlock" /\ Woken("wSleep") = "wlock"
            /\ Woken("drainSleep") = "drain"
        BY DEF Woken
      <3> QED
        BY <2>5, <3>1 DEF Wake, OnReader, OnWriter
    <2>6. ASSUME NEW t \in Threads, SpuriousWakeup(t)
          PROVE  NoLostWakeup'
      <3>1. pc' = Wake({t}) /\ {t} \subseteq OnReader \cup OnWriter
        BY <2>6 DEF SpuriousWakeup
      <3>2. OnReader' \subseteq OnReader /\ OnWriter' \subseteq OnWriter
        BY <3>1, <2>5 DEF OnReader, OnWriter
      <3> QED
        BY <2>6, <3>2 DEF SpuriousWakeup, NoLostWakeup
    <2>7. ASSUME NEW t \in Threads, RUnlock(t)
          PROVE  NoLostWakeup'
      <3>1. pc[t] = "reading" /\ reader_count_' = reader_count_ - 1 /\ UNCHANGED writer_entered_
        BY <2>7 DEF RUnlock
      <3>2. /\ \A u \in Threads : pc'[u] \in {"rSleep", "wSleep", "drainSleep"} => pc'[u] = pc[u]
            /\ OnReader' \subseteq OnReader /\ OnWriter' \subseteq OnWriter
        <4>1. CASE Goto(t, "idle")
          BY <2>1, <4>1 DEF Goto, TypeOK, OnReader, OnWriter
        <4>2. CASE \E v \in OnReader \cup OnWriter : pc' = [Wake({v}) EXCEPT ![t] = "idle"]
          <5>1. PICK v \in OnReader \cup OnWriter : pc' = [Wake({v}) EXCEPT ![t] = "idle"]
            BY <4>2, Zenon
          <5>2. v \in Threads /\ {v} \subseteq OnReader \cup OnWriter
            BY DEF OnReader, OnWriter
          <5>3. \A u \in Threads : pc'[u] = IF u = t THEN "idle" ELSE Wake({v})[u]
            BY <5>1 DEF Wake
          <5>4. \A u \in Threads : pc'[u] \in {"rSleep", "wSleep", "drainSleep"} => pc'[u] = pc[u]
            BY <5>2, <5>3, <2>5
          <5> QED
            BY <5>4 DEF OnReader, OnWriter
        <4> QED
          BY <2>7, <4>1, <4>2, Zenon DEF RUnlock, NotifyOne
      <3>3. OnReader' # {} => writer_entered_'
        BY <2>1, <3>1, <3>2 DEF NoLostWakeup
      <3>4. CASE reader_count_' = 0
        <4>1. OnWriter' = {}
          <5> SUFFICES ASSUME NEW w \in Threads, pc'[w] = "drainSleep" PROVE FALSE
            BY DEF OnWriter
          <5>1. pc[w] = "drainSleep" /\ w \in OnWriter
            BY <3>2 DEF OnWriter
          <5>2. writer_entered_ /\ \A x \in OnWriter : x = w
            BY <5>1 DEF IInv, CountersAgree, Entered, OnWriter
          <5>3. pc' = [Wake({w}) EXCEPT ![t] = "idle"]
            BY <2>7, <3>4, <5>1, <5>2, Zenon DEF RUnlock, NotifyOne
          <5>4. Wake({w})[w] = "drain"
            BY <5>1 DEF Wake, Woken
          <5>5. w # t
            BY <5>1, <3>1
          <5> QED
            BY <5>3, <5>4, <5>5 DEF Wake
        <4> QED
          BY <3>3, <4>1 DEF NoLostWakeup
      <3>5. CASE reader_count_' # 0
        <4>1. reader_count_ # 0
          BY <3>1, ReadersFinite, FS_EmptySet DEF IInv, CountersAgree, Reading
        <4>2. reader_count_' > 0
          BY <3>1, <3>5, <4>1, <2>1 DEF TypeOK
        <4> QED
          BY <3>3, <4>2 DEF NoLostWakeup
      <3> QED
        BY <3>4, <3>5
    <2> QED
      BY <2>2, <2>3, <2>4, <2>6, <2>7 DEF Next, Unlock
  <1> QED
    BY <1>1, <1>2, InvariantHolds, PTL DEF Spec

-----------------------------------------------------------------------------
(* ThreadPool.                                                             *)

Pool == INSTANCE ThreadPool WITH Workers <- PoolWorkers, pc <- poolPc

\* The pool starts with every worker about to take the lock and no task.
LEMMA PoolInitial ==
  ASSUME Pool!PoolAssumption, Pool!Init
  PROVE  Pool!PoolInv
<1>1. Pool!TypeOK
  <2>1. tasks \in Seq(1 .. MaxTasks)
    BY DEF Pool!Init
  <2>2. poolPc \in [Pool!Members -> {"user", "notify", "notifyAll", "join", "destroyed",
                            "lock", "sleep", "run", "exited"}]
    BY DEF Pool!Init
  <2>3. current \in [PoolWorkers -> 0 .. MaxTasks] /\ accepted \in 0 .. MaxTasks
    BY DEF Pool!Init, Pool!PoolAssumption
  <2>4. stop \in BOOLEAN /\ finished \subseteq 1 .. MaxTasks
    BY Zenon DEF Pool!Init
  <2> QED
    BY <2>1, <2>2, <2>3, <2>4 DEF Pool!TypeOK
<1>2. Pool!ControlAgrees
  BY DEF Pool!Init, Pool!ControlAgrees, Pool!Members, Pool!PoolAssumption
<1>3. Pool!Running = {}
  BY DEF Pool!Init, Pool!Running
<1> QED
  BY <1>1, <1>2, <1>3 DEF Pool!Init, Pool!PoolInv, Pool!EveryTaskOnce, Pool!Members,
         Pool!PoolAssumption

\* Parts of the invariant.
LEMMA PoolParts ==
  ASSUME Pool!PoolInv
  PROVE  Pool!TypeOK /\ Pool!ControlAgrees
BY DEF Pool!PoolInv, Pool!EveryTaskOnce

\* A step that moves only control points, and none into or out of a task.
LEMMA PoolFrame ==
  ASSUME Pool!PoolAssumption, Pool!PoolInv, UNCHANGED <<tasks, current, accepted, finished>>,
         stop => stop', Pool!TypeOK', Pool!ControlAgrees',
         \A w \in PoolWorkers :
           poolPc'[w] = "exited" => poolPc[w] = "exited" \/ (stop /\ tasks = <<>>)
  PROVE  Pool!PoolInv'
<1>1. Pool!Running' = Pool!Running
  BY DEF Pool!Running
<1>2. (\E w \in PoolWorkers : poolPc'[w] = "exited") => stop' /\ tasks' = <<>>
  BY DEF Pool!PoolInv, Pool!EveryTaskOnce
<1>3. ASSUME poolPc'[Owner] = "destroyed" PROVE finished = 1 .. accepted
  <2>1. Pool!Running = {} /\ tasks = <<>>
    BY <1>1, <1>2, <1>3 DEF Pool!Running, Pool!ControlAgrees, Pool!PoolAssumption
  <2>2. {current[w] : w \in Pool!Running} = {} /\ Len(tasks) = 0 /\ accepted \in Nat
    BY <2>1 DEF Pool!PoolInv, Pool!EveryTaskOnce, Pool!TypeOK, Pool!PoolAssumption
  <2>3. accepted - 0 = accepted
    BY <2>2
  <2> QED
    BY <2>2, <2>3, Zenon DEF Pool!PoolInv, Pool!EveryTaskOnce
<1> QED
  BY <1>1, <1>2, <1>3 DEF Pool!PoolInv, Pool!EveryTaskOnce

\* A sequence that loses its head.
LEMMA TailIsSeq ==
  ASSUME NEW S, NEW s \in Seq(S), s # <<>>
  PROVE  Tail(s) \in Seq(S) /\ Head(s) \in S
OBVIOUS

\* A worker takes the oldest task of the queue.
LEMMA TakesTask ==
  ASSUME Pool!PoolAssumption, Pool!PoolInv, NEW w \in PoolWorkers, poolPc[w] = "lock", tasks # <<>>,
         current' = [current EXCEPT ![w] = Head(tasks)], tasks' = Tail(tasks),
         Pool!Goto(w, "run"), UNCHANGED <<stop, accepted, finished>>
  PROVE  Pool!PoolInv'
<1> DEFINE m == accepted - Len(tasks)
<1>1. /\ Len(tasks) \in Nat /\ Len(tasks) > 0 /\ Head(tasks) = m + 1
      /\ accepted \in Nat /\ m \in Int
  BY DEF Pool!PoolInv, Pool!EveryTaskOnce, Pool!TypeOK, Pool!PoolAssumption
<1>2. /\ tasks' \in Seq(1 .. MaxTasks) /\ Len(tasks') = Len(tasks) - 1
      /\ \A i \in 1 .. Len(tasks') : tasks'[i] = tasks[i + 1]
      /\ Head(tasks) \in 1 .. MaxTasks
  <2>1. tasks \in Seq(1 .. MaxTasks) /\ tasks # <<>> /\ tasks' = Tail(tasks)
    BY DEF Pool!PoolInv, Pool!EveryTaskOnce, Pool!TypeOK
  <2>2. Tail(tasks) \in Seq(1 .. MaxTasks) /\ Head(tasks) \in 1 .. MaxTasks
    BY <2>1, TailIsSeq, Zenon
  <2>3. Len(Tail(tasks)) = Len(tasks) - 1
    BY <2>1
  <2>4. \A i \in 1 .. Len(tasks) - 1 : Tail(tasks)[i] = tasks[i + 1]
    BY <2>1
  <2> QED
    BY <2>1, <2>2, <2>3, <2>4
<1>3. Pool!TypeOK'
  BY <1>2 DEF Pool!PoolInv, Pool!EveryTaskOnce, Pool!TypeOK, Pool!Goto, Pool!Members,
         Pool!PoolAssumption
<1>4. Pool!ControlAgrees'
  BY <1>2 DEF Pool!PoolInv, Pool!EveryTaskOnce, Pool!TypeOK, Pool!ControlAgrees, Pool!Goto,
         Pool!Members, Pool!PoolAssumption
<1>5. /\ current[w] = 0 /\ w \notin Pool!Running /\ Pool!Running' = Pool!Running \cup {w}
      /\ current'[w] = m + 1
      /\ \A v \in PoolWorkers : v # w => current'[v] = current[v]
  <2>1. current[w] = 0
    BY DEF Pool!PoolInv, Pool!ControlAgrees
  <2>3. current'[w] = Head(tasks)
    BY DEF Pool!PoolInv, Pool!EveryTaskOnce, Pool!TypeOK
  <2>2. \A v \in PoolWorkers : v # w => current'[v] = current[v]
    BY DEF Pool!PoolInv, Pool!EveryTaskOnce, Pool!TypeOK
  <2>4. Head(tasks) # 0
    BY <1>2 DEF Pool!PoolAssumption
  <2>5. Pool!Running' = Pool!Running \cup {w}
    BY <2>1, <2>2, <2>3, <2>4 DEF Pool!Running
  <2> QED
    BY <1>1, <2>1, <2>2, <2>3, <2>5 DEF Pool!Running
<1>6. \A i \in 1 .. Len(tasks') : tasks'[i] = accepted' - Len(tasks') + i
  BY <1>1, <1>2 DEF Pool!PoolInv, Pool!EveryTaskOnce, Pool!TypeOK
<1>7. {current'[v] : v \in Pool!Running'} = {current[v] : v \in Pool!Running} \cup {m + 1}
  BY <1>5 DEF Pool!Running
<1>8. finished' \cup {current'[v] : v \in Pool!Running'} = 1 .. accepted' - Len(tasks')
  <2>1. accepted' - Len(tasks') = m + 1 /\ m + 1 >= 1
    BY <1>1, <1>2 DEF Pool!PoolInv, Pool!EveryTaskOnce, Pool!TypeOK
  <2>2. 1 .. m + 1 = (1 .. m) \cup {m + 1}
    BY <1>1, <2>1
  <2> QED
    BY <1>7, <2>1, <2>2, Zenon DEF Pool!PoolInv, Pool!EveryTaskOnce
<1>9. m + 1 \notin 1 .. m
  BY <1>1
<1>10. /\ \A u, v \in Pool!Running' : u # v => current'[u] # current'[v]
       /\ \A v \in Pool!Running' : current'[v] \notin finished'
  BY <1>5, <1>9 DEF Pool!PoolInv, Pool!EveryTaskOnce, Pool!Running
<1>11. \A v \in PoolWorkers : poolPc'[v] # "exited"
  BY DEF Pool!PoolInv, Pool!EveryTaskOnce, Pool!TypeOK, Pool!Goto, Pool!Members
<1> QED
  BY <1>3, <1>4, <1>6, <1>8, <1>10, <1>11 DEF Pool!PoolInv, Pool!EveryTaskOnce,
         Pool!ControlAgrees, Pool!PoolAssumption

\* A task returns.
LEMMA FinishesTask ==
  ASSUME Pool!PoolAssumption, Pool!PoolInv, NEW w \in PoolWorkers, Pool!Finish(w)
  PROVE  Pool!PoolInv'
<1>1. Pool!TypeOK'
  <2>1. current[w] \in 1 .. MaxTasks
    BY DEF Pool!PoolInv, Pool!EveryTaskOnce, Pool!TypeOK, Pool!ControlAgrees, Pool!Finish,
           Pool!PoolAssumption
  <2> QED
    BY <2>1 DEF Pool!PoolInv, Pool!EveryTaskOnce, Pool!TypeOK, Pool!Finish, Pool!Goto,
           Pool!Members, Pool!PoolAssumption
<1>2. Pool!ControlAgrees'
  BY DEF Pool!PoolInv, Pool!EveryTaskOnce, Pool!TypeOK, Pool!ControlAgrees, Pool!Finish,
         Pool!Goto, Pool!Members, Pool!PoolAssumption
<1>3. w \in Pool!Running /\ Pool!Running' = Pool!Running \ {w} /\ current'[w] = 0
      /\ \A v \in PoolWorkers : v # w => current'[v] = current[v]
  BY DEF Pool!PoolInv, Pool!EveryTaskOnce, Pool!TypeOK, Pool!ControlAgrees, Pool!Running,
         Pool!Finish
<1>4. {current[v] : v \in Pool!Running} = {current'[v] : v \in Pool!Running'} \cup {current[w]}
  BY <1>3 DEF Pool!Running
<1>5. finished' \cup {current'[v] : v \in Pool!Running'} = 1 .. accepted' - Len(tasks')
  BY <1>4, Zenon DEF Pool!PoolInv, Pool!EveryTaskOnce, Pool!Finish
<1>6. /\ \A u, v \in Pool!Running' : u # v => current'[u] # current'[v]
      /\ \A v \in Pool!Running' : current'[v] \notin finished'
  BY <1>3 DEF Pool!PoolInv, Pool!EveryTaskOnce, Pool!Running, Pool!Finish
<1>7. /\ \A v \in PoolWorkers : poolPc'[v] = "exited" => poolPc[v] = "exited"
      /\ poolPc'[Owner] = poolPc[Owner] /\ poolPc[w] # "exited"
  BY DEF Pool!PoolInv, Pool!EveryTaskOnce, Pool!TypeOK, Pool!Finish, Pool!Goto, Pool!Members,
         Pool!PoolAssumption
<1> QED
  BY <1>1, <1>2, <1>5, <1>6, <1>7 DEF Pool!PoolInv, Pool!EveryTaskOnce, Pool!ControlAgrees,
         Pool!Finish

\* A task is accepted: nobody has left, since stop is not set.
LEMMA AcceptsTask ==
  ASSUME Pool!PoolAssumption, Pool!PoolInv, NEW t \in Pool!Members, Pool!Enqueue(t)
  PROVE  Pool!PoolInv'
<1>1. /\ Len(tasks) \in Nat /\ accepted \in Nat /\ accepted + 1 \in 1 .. MaxTasks
  <2>1. tasks \in Seq(1 .. MaxTasks) /\ accepted \in 0 .. MaxTasks
    BY DEF Pool!PoolInv, Pool!EveryTaskOnce, Pool!TypeOK
  <2>2. accepted < MaxTasks /\ MaxTasks \in Nat
    BY DEF Pool!Enqueue, Pool!PoolAssumption
  <2>3. Len(tasks) \in Nat
    BY <2>1
  <2> QED
    BY <2>1, <2>2, <2>3
<1>2. /\ tasks' \in Seq(1 .. MaxTasks) /\ Len(tasks') = Len(tasks) + 1
      /\ \A i \in 1 .. Len(tasks) : tasks'[i] = tasks[i]
      /\ tasks'[Len(tasks) + 1] = accepted + 1
  BY <1>1 DEF Pool!PoolInv, Pool!EveryTaskOnce, Pool!TypeOK, Pool!Enqueue
<1>3. Pool!TypeOK'
  BY <1>1, <1>2 DEF Pool!PoolInv, Pool!EveryTaskOnce, Pool!TypeOK, Pool!Enqueue, Pool!Goto,
         Pool!PoolAssumption
<1>4. Pool!ControlAgrees'
  BY DEF Pool!PoolInv, Pool!EveryTaskOnce, Pool!TypeOK, Pool!ControlAgrees, Pool!Enqueue,
         Pool!MayEnqueue, Pool!Goto, Pool!Members,
         Pool!PoolAssumption
<1>5. Pool!Running' = Pool!Running
  BY DEF Pool!Running, Pool!Enqueue
<1>6. \A i \in 1 .. Len(tasks') : tasks'[i] = accepted' - Len(tasks') + i
  BY <1>1, <1>2 DEF Pool!PoolInv, Pool!EveryTaskOnce, Pool!Enqueue
<1>7. accepted' - Len(tasks') = accepted - Len(tasks)
  BY <1>1, <1>2 DEF Pool!Enqueue
<1>8. \A v \in PoolWorkers : poolPc'[v] # "exited"
  BY DEF Pool!PoolInv, Pool!EveryTaskOnce, Pool!TypeOK, Pool!Enqueue, Pool!Goto, Pool!Members
<1>9. poolPc'[Owner] # "destroyed"
  BY <1>4, <1>8 DEF Pool!ControlAgrees, Pool!PoolAssumption
<1> QED
  BY <1>3, <1>4, <1>5, <1>6, <1>7, <1>8, <1>9 DEF Pool!PoolInv, Pool!EveryTaskOnce, Pool!Enqueue

\* Every step keeps the invariant.
LEMMA PoolStep ==
  ASSUME Pool!PoolAssumption, Pool!PoolInv, [Pool!Next]_(Pool!vars)
  PROVE  Pool!PoolInv'
<1> USE DEF Pool!PoolAssumption
<1> Pool!TypeOK /\ Pool!ControlAgrees
  BY PoolParts
<1>1. ASSUME NEW w \in PoolWorkers, Pool!Take(w) PROVE Pool!PoolInv'
  <2>1. CASE tasks # <<>>
    BY <1>1, <2>1, TakesTask DEF Pool!Take
  <2>2. CASE tasks = <<>>
    <3>1. UNCHANGED <<tasks, current, accepted, finished>> /\ stop' = stop
      BY <1>1, <2>2 DEF Pool!Take
    <3>2. Pool!TypeOK' /\ Pool!ControlAgrees'
      BY <1>1, <2>2, <3>1 DEF Pool!Take, Pool!TypeOK,
             Pool!ControlAgrees, Pool!Goto, Pool!Members
    <3>3. \A v \in PoolWorkers :
            poolPc'[v] = "exited" => poolPc[v] = "exited" \/ (stop /\ tasks = <<>>)
      BY <1>1, <2>2 DEF Pool!Take, Pool!TypeOK, Pool!Goto,
             Pool!Members
    <3> QED
      BY <3>1, <3>2, <3>3, PoolFrame
  <2> QED BY <2>1, <2>2
<1>2. ASSUME NEW w \in PoolWorkers, Pool!Finish(w) PROVE Pool!PoolInv'
  BY <1>2, FinishesTask
<1>3. ASSUME NEW t \in Pool!Members, Pool!Enqueue(t) PROVE Pool!PoolInv'
  BY <1>3, AcceptsTask
<1>4. ASSUME NEW t \in Pool!Members, Pool!NotifyOne(t) PROVE Pool!PoolInv'
  <2>1. Pool!TypeOK' /\ Pool!ControlAgrees'
    BY <1>4 DEF Pool!NotifyOne, Pool!TypeOK,
           Pool!ControlAgrees, Pool!Goto, Pool!Members, Pool!Asleep
  <2>2. \A v \in PoolWorkers : poolPc'[v] = "exited" => poolPc[v] = "exited"
    BY <1>4 DEF Pool!NotifyOne, Pool!TypeOK, Pool!Goto,
           Pool!Members, Pool!Asleep
  <2> QED
    BY <1>4, <2>1, <2>2, PoolFrame DEF Pool!NotifyOne
<1>5. CASE Pool!Stop
  <2>1. Pool!TypeOK' /\ Pool!ControlAgrees'
    BY <1>5 DEF Pool!Stop, Pool!TypeOK, Pool!ControlAgrees,
           Pool!Goto, Pool!Members
  <2>2. \A v \in PoolWorkers : poolPc'[v] = "exited" => poolPc[v] = "exited"
    BY <1>5 DEF Pool!Stop, Pool!TypeOK, Pool!Goto, Pool!Members
  <2> QED
    BY <1>5, <2>1, <2>2, PoolFrame DEF Pool!Stop
<1>6. CASE Pool!NotifyAll
  <2>1. Pool!TypeOK' /\ Pool!ControlAgrees'
    BY <1>6 DEF Pool!NotifyAll, Pool!TypeOK,
           Pool!ControlAgrees, Pool!Members, Pool!Asleep
  <2>2. \A v \in PoolWorkers : poolPc'[v] = "exited" => poolPc[v] = "exited"
    BY <1>6
      DEF Pool!NotifyAll, Pool!TypeOK, Pool!Members,
           Pool!Asleep
  <2> QED
    BY <1>6, <2>1, <2>2, PoolFrame DEF Pool!NotifyAll
<1>7. CASE Pool!Join
  <2>1. Pool!TypeOK' /\ Pool!ControlAgrees'
    BY <1>7 DEF Pool!Join, Pool!TypeOK, Pool!ControlAgrees,
           Pool!Goto, Pool!Members
  <2>2. \A v \in PoolWorkers : poolPc'[v] = "exited" => poolPc[v] = "exited"
    BY <1>7
      DEF Pool!Join, Pool!TypeOK, Pool!Goto, Pool!Members
  <2> QED
    BY <1>7, <2>1, <2>2, PoolFrame DEF Pool!Join
<1>8. ASSUME NEW w \in PoolWorkers, Pool!SpuriousWakeup(w) PROVE Pool!PoolInv'
  <2>1. Pool!TypeOK' /\ Pool!ControlAgrees'
    BY <1>8 DEF Pool!SpuriousWakeup, Pool!TypeOK,
           Pool!ControlAgrees, Pool!Goto, Pool!Members, Pool!Asleep
  <2>2. \A v \in PoolWorkers : poolPc'[v] = "exited" => poolPc[v] = "exited"
    BY <1>8 DEF Pool!SpuriousWakeup, Pool!TypeOK, Pool!Goto,
           Pool!Members
  <2> QED
    BY <1>8, <2>1, <2>2, PoolFrame DEF Pool!SpuriousWakeup
<1>9. CASE UNCHANGED Pool!vars
  <2>1. Pool!TypeOK' /\ Pool!ControlAgrees'
    BY <1>9 DEF Pool!vars, Pool!TypeOK, Pool!ControlAgrees
  <2> QED
    BY <1>9, <2>1, PoolFrame DEF Pool!vars
<1> QED
  BY <1>1, <1>2, <1>3, <1>4, <1>5, <1>6, <1>7, <1>8, <1>9
     DEF Pool!Next, Pool!WorkerStep, Pool!OwnerStep, Pool!Members

\* ThreadPool, for any number of workers and tasks: an accepted task is in one
\* place, runs once, and the destructor returns only when all have run.
THEOREM PoolRunsEveryTaskOnce ==
  ASSUME Pool!PoolAssumption
  PROVE  Pool!Spec => []Pool!EveryTaskOnce
<1>1. Pool!Init => Pool!PoolInv
  BY PoolInitial
<1>2. Pool!PoolInv /\ [Pool!Next]_(Pool!vars) => Pool!PoolInv'
  BY PoolStep
<1>3. Pool!PoolInv => Pool!EveryTaskOnce
  BY DEF Pool!PoolInv
<1> QED
  BY <1>1, <1>2, <1>3, PTL DEF Pool!Spec

-----------------------------------------------------------------------------
(* WaitGroup.                                                              *)

Group == INSTANCE WaitGroup WITH pc <- groupPc

(* The sets and numbers of the instance are those of this module.          *)
LEMMA SameSets ==
  ASSUME NEW S
  PROVE  /\ Group!IsFiniteSet(S) <=> IsFiniteSet(S)
         /\ Group!Cardinality(S) = Cardinality(S)
  BY DEF Group!IsFiniteSet, IsFiniteSet, Group!Cardinality, Cardinality

(* What the counter is compared with.                                      *)
LEMMA GroupCounted ==
  ASSUME NEW S, Group!IsFiniteSet(S)
  PROVE  Group!Cardinality(S) \in Nat
  BY FS_CardinalityType, SameSets

(* A part of a finite set is finite.                                       *)
LEMMA GroupSubset ==
  ASSUME NEW S, Group!IsFiniteSet(S), NEW T \in SUBSET S
  PROVE  Group!IsFiniteSet(T)
  BY FS_Subset, SameSets

(* One worker fewer.                                                       *)
LEMMA GroupRemove ==
  ASSUME NEW S, Group!IsFiniteSet(S), NEW x \in S
  PROVE  Group!Cardinality(S \ {x}) = Group!Cardinality(S) - 1 /\ Group!IsFiniteSet(S \ {x})
  BY FS_RemoveElement, SameSets

(* Zero counts nobody.                                                     *)
LEMMA GroupEmpty ==
  ASSUME NEW S, Group!IsFiniteSet(S), Group!Cardinality(S) = 0
  PROVE  S = {}
  BY FS_EmptySet, SameSets

(* A group that is being counted has launched nobody.                      *)
LEMMA GroupInitial ==
  ASSUME Group!GroupAssumption, Group!Init
  PROVE  Group!GroupInv
  <1>1. Group!Cardinality(Workers) \in Nat
    BY GroupCounted DEF Group!GroupAssumption
  <1> QED
    BY <1>1, Zenon
      DEF Group!GroupAssumption, Group!GroupInv, Group!TypeOK, Group!Init, Group!Members,
           Group!Free

(* A step that leaves the counter and the workers' places with respect to  *)
(* the decrement as they are.                                              *)
LEMMA GroupQuiet ==
  ASSUME Group!GroupAssumption, Group!GroupInv, Group!TypeOK', UNCHANGED <<counter, launched>>,
         launched,
         \A w \in Workers : /\ groupPc'[w] \in {"start", "decrement", "notify", "done"}
                            /\ groupPc'[w] \in {"start", "decrement"}
                                 <=> groupPc[w] \in {"start", "decrement"},
         \A t \in Waiters : /\ groupPc'[t] \notin {"decrement", "notify", "done"}
                            /\ groupPc'[t] = "returned" => groupPc[t] = "returned" \/ counter = 0
  PROVE  Group!GroupInv'
  <1>1. Group!Outstanding' = Group!Outstanding
    BY DEF Group!Outstanding
  <1> QED
    BY <1>1 DEF Group!GroupInv

(* Done: the decrement takes one worker out of those outstanding.          *)
LEMMA DecrementCounts ==
  ASSUME Group!GroupAssumption, Group!GroupInv, NEW w \in Workers, Group!DoneDecrement(w)
  PROVE  Group!GroupInv'
  <1>1. launched /\ w \in Group!Outstanding /\ Group!IsFiniteSet(Group!Outstanding)
    <2>1. Group!Outstanding \subseteq Workers
      BY DEF Group!Outstanding
    <2>2. Group!IsFiniteSet(Group!Outstanding)
      BY <2>1, GroupSubset DEF Group!GroupAssumption
    <2> QED
      BY <2>2 DEF Group!GroupInv, Group!DoneDecrement, Group!Outstanding, Group!TypeOK,
             Group!Members
  <1>2. Group!Cardinality(Group!Outstanding) \in Nat /\ Group!Cardinality(Workers) \in Nat
    BY <1>1, GroupCounted DEF Group!GroupAssumption
  <1>3. Group!Cardinality(Group!Outstanding \ {w}) = Group!Cardinality(Group!Outstanding) - 1
        /\ Group!Cardinality(Group!Outstanding \ {w}) \in Nat
    BY <1>1, GroupRemove, GroupCounted
  <1>4. /\ groupPc' \in [Group!Members -> {"start", "decrement", "notify", "done", "lock",
                                "test", "block", "asleep", "returned"}]
        /\ groupPc'[w] \in {"notify", "done"}
        /\ \A t \in Group!Members : t # w => groupPc'[t] = groupPc[t]
    BY DEF Group!GroupInv, Group!TypeOK, Group!DoneDecrement, Group!Goto, Group!Members
  <1>5. Group!Outstanding' = Group!Outstanding \ {w}
    BY <1>4 DEF Group!Outstanding, Group!Members
  <1>6. counter' = counter - 1 /\ counter' \in 0 .. Group!Cardinality(Workers) /\ counter > 0
    BY <1>1, <1>2, <1>3 DEF Group!GroupInv, Group!TypeOK, Group!DoneDecrement
  <1>7. Group!TypeOK'
    BY <1>4, <1>6, Zenon DEF Group!GroupInv, Group!TypeOK, Group!DoneDecrement
  <1>8. \A t \in Waiters : groupPc'[t] = groupPc[t] /\ groupPc[t] # "returned"
    BY <1>4, <1>6 DEF Group!GroupInv, Group!GroupAssumption, Group!Members
  <1> QED
    BY <1>1, <1>3, <1>4, <1>5, <1>6, <1>7, <1>8, Zenon DEF Group!GroupInv, Group!DoneDecrement,
           Group!Members

(* Every step of a worker or a waiter keeps the count.                     *)
LEMMA GroupStep ==
  ASSUME Group!GroupAssumption, Group!GroupInv, [Group!Next]_(Group!vars)
  PROVE  Group!GroupInv'
  <1> USE DEF Group!GroupAssumption
  <1>1. ASSUME NEW incr \in 1 .. Group!Cardinality(Workers), Group!Add(incr) PROVE Group!GroupInv'
    <2>1. Group!Cardinality(Workers) \in Nat
      BY GroupCounted
    <2>2. counter' \in 0 .. Group!Cardinality(Workers)
      BY <1>1, <2>1 DEF Group!Add, Group!GroupInv, Group!TypeOK
    <2> QED
      BY <1>1, <2>2 DEF Group!Add, Group!GroupInv, Group!TypeOK
  <1>2. CASE Group!Launch
    <2>1. Group!Outstanding = Workers
      BY <1>2 DEF Group!Launch, Group!GroupInv, Group!Outstanding, Group!Members
    <2>2. Group!Outstanding' = Group!Outstanding
      BY <1>2, Zenon DEF Group!Launch, Group!Outstanding
    <2> QED
      BY <1>2, <2>1, <2>2 DEF Group!Launch, Group!GroupInv, Group!TypeOK, Group!Members
  <1>3. ASSUME NEW w \in Workers, Group!DoneFlag(w) PROVE Group!GroupInv'
    BY <1>3, GroupQuiet DEF Group!DoneFlag, Group!GroupInv, Group!TypeOK, Group!Goto,
           Group!Members
  <1>4. ASSUME NEW w \in Workers, Group!DoneDecrement(w) PROVE Group!GroupInv'
    BY <1>4, DecrementCounts, Zenon
  <1>5. ASSUME NEW w \in Workers, Group!DoneNotify(w) PROVE Group!GroupInv'
    <2>1. launched
      BY <1>5 DEF Group!DoneNotify, Group!GroupInv, Group!Members
    <2>2. Group!TypeOK'
      BY <1>5, Zenon DEF Group!DoneNotify, Group!GroupInv, Group!TypeOK, Group!Members
    <2> QED
      BY <1>5, <2>1, <2>2, GroupQuiet DEF Group!DoneNotify, Group!GroupInv, Group!TypeOK,
             Group!Members
  <1>6. ASSUME NEW t \in Waiters, Group!WaitLock(t) PROVE Group!GroupInv'
    BY <1>6, GroupQuiet, Zenon DEF Group!WaitLock, Group!GroupInv, Group!TypeOK, Group!Goto,
           Group!Members
  <1>7. ASSUME NEW t \in Waiters, Group!WaitTest(t) PROVE Group!GroupInv'
    <2>1. launched /\ counter \in Nat
      BY <1>7, GroupCounted DEF Group!WaitTest, Group!GroupInv, Group!TypeOK, Group!Members
    <2>2. Group!TypeOK'
      BY <1>7 DEF Group!WaitTest, Group!GroupInv, Group!TypeOK, Group!Goto, Group!Members
    <2>3. groupPc'[t] = "returned" => counter = 0
      BY <1>7, <2>1, SMTT(30)
        DEF Group!WaitTest, Group!GroupInv, Group!TypeOK, Group!Goto, Group!Members
    <2> QED
      BY <1>7, <2>1, <2>2, <2>3, GroupQuiet DEF Group!WaitTest, Group!GroupInv, Group!TypeOK,
             Group!Goto, Group!Members
  <1>8. ASSUME NEW t \in Waiters, Group!WaitBlock(t) PROVE Group!GroupInv'
    BY <1>8, GroupQuiet, Zenon DEF Group!WaitBlock, Group!GroupInv, Group!TypeOK, Group!Goto,
           Group!Members
  <1>9. ASSUME NEW t \in Waiters, Group!SpuriousWakeup(t) PROVE Group!GroupInv'
    BY <1>9, GroupQuiet DEF Group!SpuriousWakeup, Group!GroupInv, Group!TypeOK, Group!Goto,
           Group!Members
  <1>10. CASE UNCHANGED Group!vars
    BY <1>10 DEF Group!vars, Group!GroupInv, Group!TypeOK, Group!Outstanding, Group!Members
  <1> QED
    BY <1>1, <1>2, <1>3, <1>4, <1>5, <1>6, <1>7, <1>8, <1>9, <1>10, Zenon
       DEF Group!Next, Group!WorkerStep, Group!WaiterStep

(* A counter of zero says that nobody is outstanding.                      *)
LEMMA GroupReturns ==
  ASSUME Group!GroupAssumption, Group!GroupInv
  PROVE  Group!ReturnsAfterDone
  <1>1. ASSUME launched, counter = 0 PROVE Group!Outstanding = {}
    <2>1. Group!Outstanding \subseteq Workers
      BY DEF Group!Outstanding
    <2> QED
      BY <1>1, <2>1, GroupSubset, GroupEmpty DEF Group!GroupAssumption, Group!GroupInv
  <1> QED
    BY <1>1 DEF Group!GroupInv, Group!ReturnsAfterDone, Group!Outstanding

-----------------------------------------------------------------------------
(* The parts side by side.                                                 *)

Commit == INSTANCE GroupCommit

OfLock(A) == part = "rwlock" /\ A /\ UNCHANGED <<poolVars, groupVars, commitVars, part>>
OfPool(A) == part = "pool" /\ A /\ UNCHANGED <<vars, groupVars, commitVars, part>>
OfGroup(A) == part = "group" /\ A /\ UNCHANGED <<vars, poolVars, commitVars, part>>
OfCommit(A) == part = "commit" /\ A /\ UNCHANGED <<vars, poolVars, groupVars, part>>

\* The group's constructor argument is chosen only where the group moves.
WorkInit ==
  /\ part \in Parts
  /\ Init
  /\ Pool!Init
  /\ Group!Init
  /\ part # "group" => counter = 0
  /\ Commit!Init

WorkNext == OfLock(Next) \/ OfPool(Pool!Next) \/ OfGroup(Group!Next) \/ OfCommit(Commit!Next)

WorkSpec == WorkInit /\ [][WorkNext]_workVars

-----------------------------------------------------------------------------
(* Work handed to another thread is done once, and before its owner learns *)
(* of it.  ThreadPool: an accepted task is in exactly one place, no worker *)
(* leaves work behind, and the destructor returns when every task has run. *)
(* WaitGroup: Wait returns only after every decrement in Done.  write() of *)
(* mw_to_sw.cc: what was queued is printed once, in the order of the       *)
(* queue, and before the call returns.                                     *)
WorkDoneOnce ==
  /\ Pool!EveryTaskOnce /\ Pool!ControlAgrees
  /\ Group!ReturnsAfterDone
  /\ Commit!GroupsPrintedInOrder

-----------------------------------------------------------------------------
\* There is somebody to run tasks, and the roles are of different threads.
WorkAssumption == Pool!PoolAssumption /\ Group!GroupAssumption

\* The invariants of the parts, together.
WorkInv == Pool!PoolInv /\ Group!GroupInv /\ Commit!CommitInv

(* Steps of one part are steps of it alone.                                *)
LEMMA WorkStep ==
  ASSUME WorkAssumption, WorkInv, [WorkNext]_workVars
  PROVE  WorkInv'
  <1>1. [Pool!Next]_(Pool!vars)
    BY DEF WorkNext, OfLock, OfPool, OfGroup, OfCommit, workVars, poolVars, Pool!vars
  <1>2. [Group!Next]_(Group!vars)
    BY DEF WorkNext, OfLock, OfPool, OfGroup, OfCommit, workVars, groupVars, Group!vars
  <1>3. [Commit!Next]_(Commit!vars)
    BY DEF WorkNext, OfLock, OfPool, OfGroup, OfCommit, workVars, commitVars, Commit!vars
  <1> QED
    BY <1>1, <1>2, <1>3, PoolStep, GroupStep, Commit!CommitStep, Zenon
      DEF WorkInv, WorkAssumption

(* ThreadPool runs every accepted task once and its destructor returns     *)
(* when all have run; Wait of WaitGroup returns after every decrement in   *)
(* Done; write() of mw_to_sw.cc prints what was queued once, in order and  *)
(* before it returns.  For any number of workers, tasks, waiters, threads  *)
(* and data.                                                               *)
THEOREM WorkIsDoneOnce ==
  ASSUME WorkAssumption
  PROVE  WorkSpec => []WorkDoneOnce
  <1>1. WorkInit => WorkInv
    BY PoolInitial, GroupInitial, Commit!CommitInitial, Zenon
      DEF WorkInit, WorkInv, WorkAssumption
  <1>2. WorkInv /\ [WorkNext]_workVars => WorkInv'
    BY WorkStep
  <1>3. WorkInv => WorkDoneOnce
    BY GroupReturns, Commit!CommitPrints DEF WorkInv, WorkDoneOnce, WorkAssumption, Pool!PoolInv
  <1> QED
    BY <1>1, <1>2, <1>3, PTL DEF WorkSpec
=============================================================================
