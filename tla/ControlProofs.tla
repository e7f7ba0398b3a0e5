---------------------------- MODULE ControlProofs ----------------------------
(***************************************************************************)
(* How glbd and its pools are controlled. Of PoolCtl: that nobody is left  *)
(* waiting for a pool thread, for any number of pool threads and however   *)
(* many signals wake the wrong thread. Of Control: type correctness, and   *)
(* that the table of the control thread stays what it should be for every  *)
(* number of clients and every CTRL_MAX.                                   *)
(***************************************************************************)
EXTENDS PoolCtl, Control, FiniteSetTheorems, SequenceTheorems, TLAPS

\* The promises that are still to be kept for pool p.
Pending(p) == Len(pipe[p]) + Len(handling[p])

\* SignalForEveryWaiter needs the types, and that a pool thread has one command
\* in hand at most, which its one signal answers.
IndInv ==
    /\ TypeOK
    /\ \A p \in Pools : Len(handling[p]) <= 1
    /\ SignalForEveryWaiter

-----------------------------------------------------------------------------

\* The threads that wait are finitely many.
LEMMA WaitersFinite ==
    ASSUME NEW S, S \subseteq Callers
    PROVE  IsFiniteSet(S) /\ Cardinality(S) \in Nat
  <1>1. IsFiniteSet({}) /\ IsFiniteSet({Control})
    BY Zenon, FS_EmptySet, FS_Singleton
  <1>2. IsFiniteSet({Control} \cup {Watchdog})
    BY <1>1, FS_AddElement
  <1>3. IsFiniteSet({Control} \cup {Watchdog} \cup {Listener})
    BY <1>2, FS_AddElement
  <1>4. IsFiniteSet({Control} \cup {Watchdog} \cup {Listener} \cup {Main})
    BY <1>3, FS_AddElement
  <1>5. Callers = {Control} \cup {Watchdog} \cup {Listener} \cup {Main}
    BY DEF Callers
  <1> QED BY <1>4, <1>5, FS_Subset, FS_CardinalityType

\* Fewer threads wait: no promise is broken.
LEMMA FewerWait ==
    ASSUME NEW S, NEW T, S \subseteq T, T \subseteq Callers
    PROVE  Cardinality(S) <= Cardinality(T)
  BY WaitersFinite, FS_Subset

\* One thread more waits.
LEMMA OneMoreWaits ==
    ASSUME NEW S, NEW s \in Callers, S \subseteq Callers
    PROVE  /\ Cardinality(S \cup {s}) <= Cardinality(S) + 1
           /\ Cardinality(S \cup {s}) \in Nat
  <1>1. IsFiniteSet(S) /\ Cardinality(S) \in Nat
    BY WaitersFinite
  <1>2. Cardinality(S \cup {s}) = IF s \in S THEN Cardinality(S) ELSE Cardinality(S) + 1
    BY <1>1, FS_AddElement
  <1> QED BY <1>1, <1>2

\* One thread fewer waits.
LEMMA OneFewerWaits ==
    ASSUME NEW S, NEW s \in S, S \subseteq Callers
    PROVE  Cardinality(S \ {s}) = Cardinality(S) - 1
  <1>1. IsFiniteSet(S) /\ Cardinality(S) \in Nat
    BY WaitersFinite
  <1> QED BY Zenon, <1>1, FS_RemoveElement

\* The promises can be counted.
LEMMA PendingIsNat ==
    ASSUME NEW q \in Seq(Ctl), NEW h \in Seq(Ctl)
    PROVE  Len(q) \in Nat /\ Len(h) \in Nat /\ Len(q) + Len(h) \in Nat
  <1> DEFINE x == Len(q)
             y == Len(h)
  <1>1. x \in Nat /\ y \in Nat
    BY LenProperties
  <1>2. x + y \in Nat
    <2> HIDE DEF x, y
    <2> QED BY <1>1
  <1> QED BY <1>1, <1>2

\* What IndInv says of one pool, with the promises as one number.
LEMMA PoolFacts ==
    ASSUME IndInv, NEW p \in Pools
    PROVE  /\ pipe[p] \in Seq(Ctl) /\ handling[p] \in Seq(Ctl)
           /\ Waiting(p) \subseteq Callers /\ Cardinality(Waiting(p)) \in Nat
           /\ Pending(p) \in Nat /\ Cardinality(Waiting(p)) <= Pending(p)
  <1>1. pipe[p] \in Seq(Ctl) /\ handling[p] \in Seq(Ctl)
    BY DEF IndInv, TypeOK
  <1>2. Waiting(p) \subseteq Callers
    BY DEF Waiting
  <1>3. Cardinality(Waiting(p)) \in Nat
    BY <1>2, WaitersFinite
  <1>4. Pending(p) \in Nat
    BY Zenon, <1>1, PendingIsNat DEF Pending
  <1>5. Cardinality(Waiting(p)) <= Pending(p)
    BY Zenon DEF IndInv, SignalForEveryWaiter, Pending
  <1> QED BY <1>1, <1>2, <1>3, <1>4, <1>5

\* glb_pool_create(): nobody waits, and nothing is promised.
LEMMA InitIndInv == Init => IndInv
  <1> SUFFICES ASSUME Init PROVE IndInv
    OBVIOUS
  <1> USE PoolCtlAssumption DEF Init
  <1>1. TypeOK
    <2>1. shutdown \in [Pools -> BOOLEAN]
      BY Zenon
    <2>2. at \in [Callers -> Pools]
      BY DEF Pools
    <2>3. pipe \in [Pools -> Seq(Ctl)] /\ handling \in [Pools -> Seq(Ctl)]
      OBVIOUS
    <2>4. /\ pc \in [Callers -> CallerStates] /\ code \in [Callers -> Codes]
          /\ owner \subseteq Callers /\ phase \in {"running", "joined", "destroying"}
      BY DEF CallerStates, Codes
    <2> QED BY <2>1, <2>2, <2>3, <2>4 DEF TypeOK
  <1>2. \A p \in Pools : Waiting(p) = {}
    BY DEF Waiting
  <1>3. \A p \in Pools : Len(handling[p]) = 0 /\ Len(pipe[p]) = 0
    OBVIOUS
  <1> HIDE DEF Init
  <1>4. Cardinality({}) = 0
    BY FS_EmptySet
  <1>5. ASSUME NEW p \in Pools
        PROVE  Cardinality(Waiting(p)) <= Len(pipe[p]) + Len(handling[p])
    <2>1. Waiting(p) = {} /\ Len(handling[p]) = 0 /\ Len(pipe[p]) = 0
      BY <1>2, <1>3
    <2> QED BY <2>1, <1>4
  <1>6. SignalForEveryWaiter
    BY Zenon, <1>5 DEF SignalForEveryWaiter
  <1> QED BY <1>1, <1>3, <1>6 DEF IndInv

-----------------------------------------------------------------------------
(* The callers                                                             *)

\* A step in which nobody begins to wait, and no pool thread moves.
LEMMA CallerStep ==
    ASSUME IndInv, UNCHANGED poolVars,
           pc' \in [Callers -> CallerStates], at' \in [Callers -> Pools],
           code' \in [Callers -> Codes], owner' \subseteq Callers,
           phase' \in {"running", "joined", "destroying"},
           \A s \in Callers : pc'[s] = "waiting" => pc[s] = "waiting" /\ at'[s] = at[s]
    PROVE  IndInv'
  <1>1. TypeOK'
    BY DEF IndInv, TypeOK, poolVars
  <1>2. \A p \in Pools : Len(handling'[p]) <= 1
    BY DEF IndInv, poolVars
  <1>3. ASSUME NEW p \in Pools
        PROVE  Cardinality(Waiting(p)') <= Pending(p)'
    <2>1. Waiting(p)' \subseteq Waiting(p)
      BY DEF Waiting
    <2>2. /\ Cardinality(Waiting(p)') <= Cardinality(Waiting(p))
          /\ Cardinality(Waiting(p)') \in Nat
      BY <2>1, PoolFacts, FewerWait, WaitersFinite
    <2>3. Pending(p)' = Pending(p)
      BY DEF Pending, poolVars
    <2> QED BY <2>2, <2>3, PoolFacts
  <1>4. SignalForEveryWaiter'
    BY Zenon, <1>3 DEF SignalForEveryWaiter, Pending
  <1> QED BY <1>1, <1>2, <1>4 DEF IndInv

\* The start of glb_pool_add_conn(), the broadcasts, the teardown, a wakeup and
\* the end of pool_send_ctl().
LEMMA CallersOK ==
    ASSUME IndInv,
           \/ AddConn
           \/ \E s \in Callers, c \in Codes : Command(s, c)
           \/ Join \/ Cleanup \/ Destroy
           \/ \E s \in Callers : SpuriousWakeup(s) \/ Return(s)
    PROVE  IndInv'
  <1> USE DEF TypeOK, IndInv
  <1>1. 1 \in Pools /\ Listener \in Callers /\ Main \in Callers
    BY PoolCtlAssumption DEF Pools, Callers
  <1>2. {"idle", "send", "woken"} \subseteq CallerStates
        /\ {"ADD_CONN", "DROP_DST", "STATS", "SHUTDOWN"} \subseteq Codes
    BY DEF CallerStates, Codes
  <1>3. CASE AddConn
    <2>1. PICK p \in Pools : at' = [at EXCEPT ![Listener] = p]
      BY Zenon, <1>3 DEF AddConn
    <2> QED BY Zenon, <1>1, <1>2, <1>3, <2>1, CallerStep DEF AddConn
  <1>4. ASSUME NEW s \in Callers, NEW c \in Codes, pool_bcast_ctl(s, c),
               phase' \in {"running", "joined", "destroying"}
        PROVE  IndInv'
    BY Zenon, <1>1, <1>2, <1>4, CallerStep DEF pool_bcast_ctl
  <1>5. CASE \E s \in Callers, c \in Codes : Command(s, c)
    BY Zenon, <1>4, <1>5 DEF Command
  <1>6. CASE Join
    BY <1>6, CallerStep DEF Join
  <1>7. CASE Cleanup \/ Destroy
    BY Zenon, <1>1, <1>2, <1>4, <1>7 DEF Cleanup, Destroy
  <1>8. ASSUME NEW s \in Callers, SpuriousWakeup(s)
        PROVE  IndInv'
    BY <1>2, <1>8, CallerStep DEF SpuriousWakeup
  <1>9. ASSUME NEW s \in Callers, Return(s)
        PROVE  IndInv'
    <2>1. UNCHANGED poolVars /\ phase' = phase
      BY <1>9 DEF Return
    <2>2. CASE s \in owner /\ at[s] < NPools
      <3>1. at[s] + 1 \in Pools
        BY SMTT(30), <2>2, PoolCtlAssumption DEF Pools
      <3>2. /\ at' = [at EXCEPT ![s] = at[s] + 1] /\ pc' = [pc EXCEPT ![s] = "send"]
            /\ code' = code /\ owner' = owner
        BY <1>9, <2>2 DEF Return
      <3> QED BY Zenon, <1>2, <2>1, <3>1, <3>2, CallerStep
    <2>3. CASE ~(s \in owner /\ at[s] < NPools)
      <3>1. /\ pc' = [pc EXCEPT ![s] = "idle"] /\ at' = [at EXCEPT ![s] = 1]
            /\ code' = [code EXCEPT ![s] = "STATS"] /\ owner' = owner \ {s}
        BY <1>9, <2>3 DEF Return
      <3> QED BY Zenon, <1>1, <1>2, <2>1, <3>1, CallerStep
    <2> QED BY Zenon, <2>2, <2>3
  <1> QED BY <1>3, <1>5, <1>6, <1>7, <1>8, <1>9

\* pool_send_ctl(): one more command, one more thread that waits.
LEMMA SendOK ==
    ASSUME IndInv, NEW s \in Callers, SendCtl(s)
    PROVE  IndInv'
  <1> DEFINE c == [from |-> s, code |-> code[s]]
  <1>1. c \in Ctl /\ at[s] \in Pools /\ "waiting" \in CallerStates
    BY DEF IndInv, Ctl, TypeOK, CallerStates
  <1> HIDE DEF c
  <1>2. /\ pipe' = [pipe EXCEPT ![at[s]] = Append(pipe[at[s]], c)]
        /\ pc' = [pc EXCEPT ![s] = "waiting"]
        /\ UNCHANGED <<at, code, owner, phase, handling, shutdown>>
    BY DEF SendCtl, c
  <1>3. \A p \in Pools : pipe[p] \in Seq(Ctl) /\ handling[p] \in Seq(Ctl)
    BY PoolFacts
  <1>4. TypeOK'
    BY <1>1, <1>2, <1>3 DEF IndInv, TypeOK
  <1>5. \A p \in Pools : Len(handling'[p]) <= 1
    BY <1>2 DEF IndInv
  <1>6. ASSUME NEW p \in Pools
        PROVE  Cardinality(Waiting(p)') <= Pending(p)'
    <2>1. Cardinality(Waiting(p)') \in Nat
      BY WaitersFinite DEF Waiting
    <2>2. CASE p = at[s]
      <3>1. pipe'[p] = Append(pipe[p], c) /\ handling'[p] = handling[p]
        BY <1>1, <1>2, <2>2 DEF IndInv, TypeOK
      <3>2. Pending(p)' = Pending(p) + 1
        <4> DEFINE x == Len(pipe[p])
                   y == Len(handling[p])
        <4>1. x \in Nat /\ y \in Nat
          BY <1>3, PendingIsNat
        <4>2. Len(pipe'[p]) = x + 1 /\ Len(handling'[p]) = y
          BY <1>1, <1>3, <3>1, AppendProperties
        <4>3. (x + 1) + y = (x + y) + 1
          <5> HIDE DEF x, y
          <5> QED BY <4>1
        <4> QED BY Zenon, <4>2, <4>3 DEF Pending
      <3>3. Waiting(p)' \subseteq Waiting(p) \cup {s}
        BY <1>2 DEF IndInv, Waiting, TypeOK
      <3>4. /\ Cardinality(Waiting(p) \cup {s}) <= Cardinality(Waiting(p)) + 1
            /\ Cardinality(Waiting(p) \cup {s}) \in Nat
        BY Zenon, PoolFacts, OneMoreWaits
      <3>5. Cardinality(Waiting(p)') <= Cardinality(Waiting(p) \cup {s})
        BY <3>3, PoolFacts, FewerWait
      <3> QED BY <2>1, <3>2, <3>4, <3>5, PoolFacts
    <2>3. CASE p # at[s]
      <3>1. Waiting(p)' = Waiting(p) /\ pipe'[p] = pipe[p] /\ handling'[p] = handling[p]
        BY <1>2, <2>3 DEF IndInv, Waiting, TypeOK
      <3> QED BY Zenon, <3>1, PoolFacts DEF Pending
    <2> QED BY <2>2, <2>3
  <1>7. SignalForEveryWaiter'
    BY Zenon, <1>6 DEF SignalForEveryWaiter, Pending
  <1> QED BY <1>4, <1>5, <1>7 DEF IndInv

-----------------------------------------------------------------------------
(* The pool threads                                                        *)

\* A step of pool thread p leaves the other pools alone, so that it is enough to
\* count p's promises.
LEMMA PoolStep ==
    ASSUME IndInv, NEW p \in Pools, TypeOK', at' = at,
           \A s \in Callers : pc'[s] = "waiting" => pc[s] = "waiting",
           \A q \in Pools \ {p} : pipe'[q] = pipe[q] /\ handling'[q] = handling[q],
           Len(handling'[p]) <= 1, Cardinality(Waiting(p)') <= Pending(p)'
    PROVE  IndInv'
  <1>1. \A q \in Pools : Len(handling'[q]) <= 1
    BY DEF IndInv
  <1>2. ASSUME NEW q \in Pools, q # p
        PROVE  Cardinality(Waiting(q)') <= Pending(q)'
    <2>1. Waiting(q)' \subseteq Waiting(q)
      BY DEF Waiting
    <2>2. /\ Cardinality(Waiting(q)') <= Cardinality(Waiting(q))
          /\ Cardinality(Waiting(q)') \in Nat
      BY <2>1, PoolFacts, FewerWait, WaitersFinite
    <2>3. Pending(q)' = Pending(q)
      BY Zenon, <1>2 DEF Pending
    <2> QED BY <2>2, <2>3, PoolFacts
  <1>3. SignalForEveryWaiter'
    BY Zenon, <1>2 DEF SignalForEveryWaiter, Pending
  <1> QED BY <1>1, <1>3 DEF IndInv

\* pool_handle_ctl(): a command read is a command in hand.
LEMMA ReadOK ==
    ASSUME IndInv, NEW p \in Pools, ReadCtl(p)
    PROVE  IndInv'
  <1> DEFINE h == Head(pipe[p])
             t == Tail(pipe[p])
  <1>1. pipe[p] \in Seq(Ctl) /\ pipe[p] # <<>> /\ handling[p] = <<>>
    BY PoolFacts DEF ReadCtl
  <1>2. h \in Ctl /\ t \in Seq(Ctl) /\ Len(t) = Len(pipe[p]) - 1
    BY <1>1, HeadTailProperties
  <1>3. /\ handling' = [handling EXCEPT ![p] = <<h>>]
        /\ pipe' = [pipe EXCEPT ![p] = t]
        /\ UNCHANGED <<pc, at, code, owner, phase, shutdown>>
    BY DEF ReadCtl, callerVars
  <1> HIDE DEF h, t
  <1>4. TypeOK'
    BY <1>2, <1>3 DEF IndInv, TypeOK
  <1>5. handling'[p] = <<h>> /\ pipe'[p] = t
    BY <1>3 DEF IndInv, TypeOK
  <1>6. \A q \in Pools \ {p} : pipe'[q] = pipe[q] /\ handling'[q] = handling[q]
    BY <1>3 DEF IndInv, TypeOK
  <1>7. Len(handling'[p]) = 1 /\ Len(handling[p]) = 0
    BY <1>1, <1>5
  <1>8. Pending(p)' = Pending(p)
    <2> DEFINE x == Len(pipe[p])
    <2>1. x \in Nat
      BY <1>1, PendingIsNat
    <2>2. (x - 1) + 1 = x + 0
      <3> HIDE DEF x
      <3> QED BY <2>1
    <2> QED BY <1>2, <1>5, <1>7, <2>2 DEF Pending
  <1>9. Waiting(p)' = Waiting(p)
    BY <1>3 DEF Waiting
  <1>10. Cardinality(Waiting(p)') <= Pending(p)'
    BY <1>8, <1>9, PoolFacts
  <1>11. Len(handling'[p]) <= 1
    BY <1>7
  <1> QED BY <1>3, <1>4, <1>6, <1>10, <1>11, PoolStep

\* The signal that answers a command: if anybody waits, one of them goes on.
LEMMA FinishOK ==
    ASSUME IndInv, NEW p \in Pools, FinishCtl(p)
    PROVE  IndInv'
  <1>1. /\ handling[p] \in Seq(Ctl) /\ handling[p] # <<>>
        /\ Len(handling[p]) <= 1
    BY PoolFacts DEF FinishCtl, IndInv
  <1>2. /\ handling' = [handling EXCEPT ![p] = <<>>]
        /\ UNCHANGED <<at, code, owner, phase, pipe>>
    BY DEF FinishCtl
  <1>3. shutdown' \in [Pools -> BOOLEAN]
    BY Zenon DEF FinishCtl, IndInv, TypeOK
  <1>4. \/ Waiting(p) = {} /\ pc' = pc
        \/ \E s \in Waiting(p) : pc' = [pc EXCEPT ![s] = "woken"]
    BY DEF FinishCtl, Signal
  <1>5. pc' \in [Callers -> CallerStates]
    BY Zenon, <1>4 DEF IndInv, TypeOK, Waiting, CallerStates
  <1>6. TypeOK'
    <2>1. TypeOK
      BY DEF IndInv
    <2>2. handling' \in [Pools -> Seq(Ctl)]
      <3>1. <<>> \in Seq(Ctl) /\ handling \in [Pools -> Seq(Ctl)]
        BY <2>1, EmptySeq DEF TypeOK
      <3> QED BY <1>2, <3>1
    <2>3. /\ at' \in [Callers -> Pools] /\ code' \in [Callers -> Codes]
          /\ owner' \subseteq Callers /\ phase' \in {"running", "joined", "destroying"}
          /\ pipe' \in [Pools -> Seq(Ctl)]
      BY <1>2, <2>1 DEF TypeOK
    <2> QED BY <1>3, <1>5, <2>2, <2>3, Zenon DEF TypeOK
  <1>7. \A s \in Callers : pc'[s] = "waiting" => pc[s] = "waiting"
    BY <1>4 DEF IndInv, TypeOK, Waiting
  <1>8. /\ handling'[p] = <<>> /\ pipe'[p] = pipe[p]
        /\ \A q \in Pools \ {p} : pipe'[q] = pipe[q] /\ handling'[q] = handling[q]
    BY <1>2 DEF IndInv, TypeOK
  <1>9. Len(handling[p]) = 1
    <2>1. Len(handling[p]) \in Nat /\ Len(handling[p]) # 0
      BY <1>1, EmptySeq, LenProperties
    <2> DEFINE y == Len(handling[p])
    <2>2. y \in Nat /\ y # 0 /\ y <= 1
      BY <1>1, <2>1
    <2> HIDE DEF y
    <2>3. y = 1
      BY <2>2
    <2> QED BY <2>3 DEF y
  <1>10. Pending(p)' = Pending(p) - 1
    <2> DEFINE x == Len(pipe[p])
    <2>1. x \in Nat
      BY PoolFacts, PendingIsNat
    <2>2. x + 0 = (x + 1) - 1
      <3> HIDE DEF x
      <3> QED BY <2>1
    <2>3. Len(handling'[p]) = 0
      BY <1>8
    <2> QED BY <1>8, <1>9, <2>2, <2>3 DEF Pending
  <1>11. Pending(p)' \in Nat
    <2>1. pipe'[p] \in Seq(Ctl) /\ handling'[p] \in Seq(Ctl)
      BY <1>6 DEF TypeOK
    <2> QED BY Zenon, <2>1, PendingIsNat DEF Pending
  <1>12. Cardinality(Waiting(p)') <= Pending(p)'
    <2>1. CASE Waiting(p) = {} /\ pc' = pc
      <3>1. Waiting(p)' = {}
        BY <1>2, <2>1 DEF Waiting
      <3>2. Cardinality(Waiting(p)') = 0
        BY <3>1, FS_EmptySet
      <3> QED BY <1>11, <3>2
    <2>2. CASE \E s \in Waiting(p) : pc' = [pc EXCEPT ![s] = "woken"]
      <3>1. PICK s \in Waiting(p) : pc' = [pc EXCEPT ![s] = "woken"]
        BY Zenon, <2>2
      <3>2. Waiting(p)' = Waiting(p) \ {s}
        BY <1>2, <3>1 DEF Waiting, IndInv, TypeOK
      <3>3. Cardinality(Waiting(p)') = Cardinality(Waiting(p)) - 1
        BY <3>2, PoolFacts, OneFewerWaits
      <3> QED BY <1>10, <3>3, PoolFacts
    <2> QED BY <1>4, <2>1, <2>2
  <1>13. Len(handling'[p]) <= 1
    BY <1>8
  <1> QED BY <1>2, <1>6, <1>7, <1>8, <1>12, <1>13, PoolStep

-----------------------------------------------------------------------------
(* The theorems                                                            *)

\* IndInv is inductive.
THEOREM Invariance == Spec => []IndInv
  <1>1. ASSUME IndInv, [Next]_vars
        PROVE  IndInv'
    <2>1. CASE Next
      <3>1. Control \in Callers /\ {Control, Watchdog} \subseteq Callers
            /\ {"STATS", "DROP_DST"} \subseteq Codes
        BY DEF Callers, Codes
      <3> QED BY <1>1, <2>1, <3>1, CallersOK, SendOK, ReadOK, FinishOK DEF Next
    <2>2. CASE UNCHANGED vars
      BY <1>1, <2>2, CallerStep DEF vars, poolVars, IndInv, TypeOK
    <2> QED BY <1>1, <2>1, <2>2
  <1> QED BY <1>1, InitIndInv, PTL DEF Spec

\* The variables keep their types; a broadcast never runs past the last pool.
THEOREM TypeCorrect == Spec => []TypeOK
  BY Invariance, PTL DEF IndInv

\* As many commands as threads that wait: for any number of pool threads, and
\* whichever thread a signal or a spurious wakeup lets go, nobody waits for a
\* signal that will not come while the pool thread runs.
THEOREM NobodyForgotten == Spec => []SignalForEveryWaiter
  BY Invariance, PTL DEF IndInv

-----------------------------------------------------------------------------
(* Shutting down                                                           *)

\* There is a SHUTDOWN among the commands q.
ShutIn(q) == \E k \in 1..Len(q) : q[k].code = "SHUTDOWN"

\* Nothing comes after a SHUTDOWN.
ShutLast(q) == \A k \in 1..Len(q) : q[k].code = "SHUTDOWN" => k = Len(q)

\* main() has told pool p to shut down, and will tell it no more.
Told(p) ==
    /\ phase = "destroying"
    /\ \/ pc[Main] = "idle"
       \/ at[Main] > p
       \/ at[Main] = p /\ pc[Main] # "send"

\* Only main() is left when it shuts down, and it sends each pool one SHUTDOWN,
\* behind everything else.
CallersDown ==
    /\ phase # "running" => \A s \in Callers : s # Main => pc[s] = "idle"
    /\ \A s \in Callers : code[s] = "SHUTDOWN" => s = Main /\ phase = "destroying"

PoolDown(p) ==
    /\ shutdown[p] \/ ShutIn(handling[p]) \/ ShutIn(pipe[p]) => Told(p)
    /\ ShutLast(pipe[p])
    /\ shutdown[p] \/ ShutIn(handling[p]) => pipe[p] = <<>>
    /\ shutdown[p] => handling[p] = <<>>

DownInv == CallersDown /\ \A p \in Pools : PoolDown(p)

\* glb_pool_create(): nothing has been sent.
LEMMA InitDown == Init => DownInv
  <1> SUFFICES ASSUME Init PROVE DownInv
    OBVIOUS
  <1>1. CallersDown
    BY DEF Init, CallersDown
  <1>2. ASSUME NEW p \in Pools
        PROVE  PoolDown(p)
    <2>1. pipe[p] = <<>> /\ handling[p] = <<>>
      BY DEF Init
    <2>2. ~shutdown[p]
      BY Zenon DEF Init
    <2>3. ~ShutIn(<<>>) /\ ShutLast(<<>>)
      BY DEF ShutIn, ShutLast
    <2> QED BY <2>1, <2>2, <2>3, Zenon DEF PoolDown
  <1> QED BY <1>1, <1>2 DEF DownInv

\* A step of a caller that sends nothing.
LEMMA CallerDown ==
    ASSUME DownInv, UNCHANGED poolVars, CallersDown',
           \A p \in Pools : Told(p) => Told(p)'
    PROVE  DownInv'
  <1>1. ASSUME NEW p \in Pools
        PROVE  PoolDown(p)'
    <2>1. pipe'[p] = pipe[p] /\ handling'[p] = handling[p] /\ shutdown'[p] = shutdown[p]
      BY DEF poolVars
    <2>2. PoolDown(p) /\ (Told(p) => Told(p)')
      BY DEF DownInv
    <2> QED BY <2>1, <2>2, Zenon DEF PoolDown
  <1> QED BY <1>1 DEF DownInv

\* The callers but for pool_send_ctl(): main() sends SHUTDOWN when the others
\* have been joined.
LEMMA CallersKeepDown ==
    ASSUME TypeOK, DownInv,
           \/ AddConn
           \/ \E s \in Callers, c \in {"STATS", "DROP_DST"} : Command(s, c)
           \/ Join \/ Cleanup \/ Destroy
           \/ \E s \in Callers : SpuriousWakeup(s) \/ Return(s)
    PROVE  DownInv'
  <1> USE DEF TypeOK
  <1>0. /\ Main \in Callers /\ Listener \in Callers /\ Listener # Main
        /\ \A p \in Pools : p \in Nat
    BY PoolCtlAssumption DEF Callers, Pools
  <1>1. UNCHANGED poolVars
    BY DEF AddConn, Command, Join, Cleanup, Destroy, pool_bcast_ctl, SpuriousWakeup, Return
  <1>2. CASE AddConn
    <2>1. CallersDown'
      BY <1>0, <1>2 DEF AddConn, DownInv, CallersDown
    <2>2. \A p \in Pools : ~Told(p)
      BY <1>2 DEF AddConn, Told
    <2> QED BY <1>1, <2>1, <2>2, CallerDown
  <1>3. ASSUME NEW s \in Callers, NEW c \in {"STATS", "DROP_DST"}, Command(s, c)
        PROVE  DownInv'
    <2>1. CallersDown'
      BY <1>3 DEF Command, pool_bcast_ctl, DownInv, CallersDown
    <2>2. \A p \in Pools : ~Told(p)
      BY <1>3 DEF Command, Told
    <2> QED BY <1>1, <2>1, <2>2, CallerDown
  <1>4. CASE Join
    <2>1. CallersDown'
      BY <1>4 DEF Join, DownInv, CallersDown
    <2>2. \A p \in Pools : ~Told(p)
      BY <1>4 DEF Join, Told
    <2> QED BY <1>1, <2>1, <2>2, CallerDown
  <1>5. CASE Cleanup \/ Destroy
    <2>1. CallersDown'
      BY <1>0, <1>5 DEF Cleanup, Destroy, pool_bcast_ctl, DownInv, CallersDown
    <2>2. \A p \in Pools : ~Told(p)
      BY <1>5 DEF Cleanup, Destroy, Told
    <2> QED BY <1>1, <2>1, <2>2, CallerDown
  <1>6. ASSUME NEW s \in Callers, SpuriousWakeup(s)
        PROVE  DownInv'
    <2>1. CallersDown'
      BY <1>6 DEF SpuriousWakeup, DownInv, CallersDown
    <2>2. \A p \in Pools : Told(p) => Told(p)'
      BY Zenon, <1>0, <1>6 DEF SpuriousWakeup, Told
    <2> QED BY <1>1, <2>1, <2>2, CallerDown
  <1>7. ASSUME NEW s \in Callers, Return(s)
        PROVE  DownInv'
    <2>1. phase' = phase /\ pc[s] = "woken"
      BY <1>7 DEF Return
    <2>2. \/ /\ at' = [at EXCEPT ![s] = at[s] + 1] /\ pc' = [pc EXCEPT ![s] = "send"]
             /\ code' = code
          \/ /\ pc' = [pc EXCEPT ![s] = "idle"] /\ at' = [at EXCEPT ![s] = 1]
             /\ code' = [code EXCEPT ![s] = "STATS"]
      BY <1>7 DEF Return
    <2>3. at[Main] \in Nat
      BY <1>0
    <2>4. \A p \in Pools : Told(p) => Told(p)'
      <3>1. CASE s # Main
        BY SMTT(30), <1>0, <2>1, <2>2, <3>1 DEF Told
      <3>2. CASE s = Main /\ pc'[Main] = "idle"
        BY <2>1, <3>2 DEF Told
      <3>3. CASE s = Main /\ at'[Main] = at[Main] + 1
        <4>1. \A p \in Pools : at[Main] > p \/ at[Main] = p => at[Main] + 1 > p
          BY <1>0, <2>3
        <4> QED BY <2>1, <3>3, <4>1 DEF Told
      <3> QED BY <2>2, <3>1, <3>2, <3>3, <1>0
    <2>5. CallersDown'
      BY <1>7, <2>1, <2>2 DEF DownInv, CallersDown
    <2> QED BY <1>1, <2>4, <2>5, CallerDown
  <1> QED BY <1>2, <1>3, <1>4, <1>5, <1>6, <1>7

\* A command that is put behind others, or taken from their front.
LEMMA ShutSequences ==
    ASSUME NEW q \in Seq(Ctl)
    PROVE  /\ \A c \in Ctl :
                 /\ ~ShutIn(q) => ShutLast(Append(q, c))
                 /\ ShutIn(Append(q, c)) => ShutIn(q) \/ c.code = "SHUTDOWN"
           /\ q # <<>> /\ ShutLast(q) =>
                 /\ ShutLast(Tail(q))
                 /\ ShutIn(Tail(q)) => ShutIn(q)
                 /\ Head(q).code = "SHUTDOWN" => ShutIn(q) /\ Tail(q) = <<>>
  <1>0. Len(q) \in Nat
    BY LenProperties
  <1>1. ASSUME NEW c \in Ctl
        PROVE  /\ ~ShutIn(q) => ShutLast(Append(q, c))
               /\ ShutIn(Append(q, c)) => ShutIn(q) \/ c.code = "SHUTDOWN"
    <2>1. /\ Len(Append(q, c)) = Len(q) + 1 /\ Append(q, c)[Len(q) + 1] = c
          /\ \A k \in 1..Len(q) : Append(q, c)[k] = q[k]
      BY AppendProperties
    <2>2. \A k \in 1..(Len(q) + 1) : k = Len(q) + 1 \/ k \in 1..Len(q)
      BY <1>0
    <2> QED BY <2>1, <2>2 DEF ShutIn, ShutLast
  <1>2. ASSUME q # <<>>, ShutLast(q)
        PROVE  /\ ShutLast(Tail(q))
               /\ ShutIn(Tail(q)) => ShutIn(q)
               /\ Head(q).code = "SHUTDOWN" => ShutIn(q) /\ Tail(q) = <<>>
    <2>1. /\ Tail(q) \in Seq(Ctl) /\ Len(Tail(q)) = Len(q) - 1 /\ Head(q) = q[1]
          /\ \A k \in 1..Len(Tail(q)) : Tail(q)[k] = q[k + 1]
      BY <1>2, HeadTailProperties
    <2>2. Len(q) # 0
      BY <1>2, EmptySeq
    <2> DEFINE n == Len(q)
               m == Len(Tail(q))
    <2>n. n \in Nat /\ m = n - 1 /\ n # 0
      BY <1>0, <2>1, <2>2
    <2>3. /\ \A k \in 1..m : k + 1 \in 1..n /\ (k + 1 = n => k = m)
          /\ n = 1 => m = 0
      <3> HIDE DEF n, m
      <3> QED BY <2>n
    <2>4. ShutLast(Tail(q)) /\ (ShutIn(Tail(q)) => ShutIn(q))
      BY Zenon, <1>2, <2>1, <2>3 DEF ShutLast, ShutIn
    <2>5. 1 \in 1..Len(q)
      BY <1>0, <2>2
    <2>6. Len(q) = 1 => Tail(q) = <<>>
      <3>1. m = 0 => Tail(q) = <<>>
        BY Zenon, <2>1, EmptySeq
      <3> QED BY <2>3, <3>1
    <2>7. Head(q).code = "SHUTDOWN" => ShutIn(q) /\ Len(q) = 1
      BY Zenon, <1>2, <2>1, <2>5 DEF ShutLast, ShutIn
    <2> QED BY <2>4, <2>6, <2>7
  <1> QED BY <1>1, <1>2

\* pool_send_ctl(): nobody sends to a pool that has been told.
LEMMA SendKeepsDown ==
    ASSUME TypeOK, DownInv, NEW s \in Callers, SendCtl(s)
    PROVE  DownInv'
  <1> DEFINE c == [from |-> s, code |-> code[s]]
  <1>0. PICK p \in Pools : p = at[s]
    BY DEF TypeOK
  <1>1. /\ c \in Ctl /\ c.code = code[s] /\ p \in Nat /\ pc[s] = "send"
        /\ pipe[p] \in Seq(Ctl) /\ Main \in Callers
        /\ pc \in [Callers -> CallerStates] /\ pipe \in [Pools -> Seq(Ctl)]
    <2>1. c \in Ctl /\ c.code = code[s]
      BY DEF Ctl, TypeOK
    <2>2. p \in Nat
      BY DEF Pools
    <2>3. pc[s] = "send" /\ Main \in Callers
      BY DEF SendCtl, Callers
    <2> HIDE DEF c
    <2> QED BY <2>1, <2>2, <2>3 DEF TypeOK
  <1>2. /\ pipe' = [pipe EXCEPT ![p] = Append(pipe[p], c)]
        /\ pc' = [pc EXCEPT ![s] = "waiting"]
        /\ UNCHANGED <<at, code, owner, phase, handling, shutdown>>
    BY <1>0 DEF SendCtl
  <1>3. ~Told(p)
    BY <1>0, <1>1 DEF Told, DownInv, CallersDown
  <1>4. code[s] = "SHUTDOWN" => s = Main /\ phase = "destroying"
    BY DEF DownInv, CallersDown
  <1>5. CallersDown'
    BY <1>1, <1>2 DEF DownInv, CallersDown
  <1>6. \A q \in Pools : Told(q) => Told(q)'
    BY <1>1, <1>2 DEF Told
  <1>7. c.code = "SHUTDOWN" => Told(p)'
    BY <1>0, <1>1, <1>2, <1>4 DEF Told
  <1>8. pipe'[p] = Append(pipe[p], c) /\ \A q \in Pools \ {p} : pipe'[q] = pipe[q]
    BY <1>1, <1>2
  <1>9. handling' = handling /\ shutdown' = shutdown
    BY <1>2
  <1> HIDE DEF c
  <1>10. ASSUME NEW q \in Pools
         PROVE  PoolDown(q)'
    <2>1. PoolDown(q)
      BY DEF DownInv
    <2>2. CASE q = p
      <3>1. ~shutdown[q] /\ ~ShutIn(handling[q]) /\ ~ShutIn(pipe[q])
        BY <1>3, <2>1, <2>2, Zenon DEF PoolDown
      <3>2. /\ ShutLast(pipe'[q])
            /\ ShutIn(pipe'[q]) => c.code = "SHUTDOWN"
        <4>1. /\ ~ShutIn(pipe[p]) => ShutLast(Append(pipe[p], c))
              /\ ShutIn(Append(pipe[p], c)) => ShutIn(pipe[p]) \/ c.code = "SHUTDOWN"
          BY <1>1, ShutSequences
        <4> QED BY <1>8, <2>2, <3>1, <4>1, Zenon
      <3> QED BY <1>7, <1>9, <2>2, <3>1, <3>2, Zenon DEF PoolDown
    <2>3. CASE q # p
      <3>1. pipe'[q] = pipe[q] /\ (Told(q) => Told(q)')
        BY <1>6, <1>8, <2>3
      <3> QED BY <1>9, <2>1, <3>1, Zenon DEF PoolDown
    <2> QED BY <2>2, <2>3
  <1> QED BY <1>5, <1>10 DEF DownInv

\* pool_handle_ctl(): a pool thread that reads SHUTDOWN has an empty pipe.
LEMMA ReadKeepsDown ==
    ASSUME TypeOK, DownInv, NEW p \in Pools, ReadCtl(p)
    PROVE  DownInv'
  <1> DEFINE h == Head(pipe[p])
             t == Tail(pipe[p])
  <1>1. /\ pipe[p] \in Seq(Ctl) /\ pipe[p] # <<>>
        /\ pipe \in [Pools -> Seq(Ctl)] /\ handling \in [Pools -> Seq(Ctl)]
    BY DEF ReadCtl, TypeOK
  <1>2. /\ handling' = [handling EXCEPT ![p] = <<h>>]
        /\ pipe' = [pipe EXCEPT ![p] = t]
        /\ UNCHANGED <<pc, at, code, phase, shutdown>>
    BY DEF ReadCtl, callerVars
  <1>3. ~shutdown[p]
    BY Zenon DEF ReadCtl
  <1>4. /\ ShutLast(t) /\ (ShutIn(t) => ShutIn(pipe[p]))
        /\ h.code = "SHUTDOWN" => ShutIn(pipe[p]) /\ t = <<>>
    BY <1>1, ShutSequences DEF DownInv, PoolDown
  <1> HIDE DEF h, t
  <1>5. /\ handling'[p] = <<h>> /\ pipe'[p] = t
        /\ \A q \in Pools \ {p} : handling'[q] = handling[q] /\ pipe'[q] = pipe[q]
    BY <1>1, <1>2
  <1>6. ShutIn(<<h>>) => h.code = "SHUTDOWN"
    BY DEF ShutIn
  <1>7. CallersDown' /\ shutdown' = shutdown /\ \A q \in Pools : Told(q)' = Told(q)
    BY <1>2 DEF DownInv, CallersDown, Told
  <1>8. ASSUME NEW q \in Pools
        PROVE  PoolDown(q)'
    <2>1. PoolDown(q)
      BY DEF DownInv
    <2>2. CASE q = p
      BY <1>3, <1>4, <1>5, <1>6, <1>7, <2>1, <2>2, Zenon DEF PoolDown
    <2>3. CASE q # p
      <3>1. handling'[q] = handling[q] /\ pipe'[q] = pipe[q]
        BY <1>5, <2>3
      <3> QED BY <1>7, <2>1, <3>1, Zenon DEF PoolDown
    <2> QED BY <2>2, <2>3
  <1> QED BY <1>7, <1>8 DEF DownInv

\* A pool thread leaves its loop with nothing in its pipe.
LEMMA FinishKeepsDown ==
    ASSUME TypeOK, DownInv, NEW p \in Pools, FinishCtl(p)
    PROVE  DownInv'
  <1>1. /\ handling \in [Pools -> Seq(Ctl)] /\ handling[p] # <<>> /\ handling[p] \in Seq(Ctl)
        /\ Main \in Callers /\ pc \in [Callers -> CallerStates]
    BY DEF FinishCtl, TypeOK, Callers
  <1>2. handling' = [handling EXCEPT ![p] = <<>>] /\ UNCHANGED <<at, code, phase, pipe>>
    BY DEF FinishCtl
  <1>3. /\ shutdown'[p] => handling[p][1].code = "SHUTDOWN"
        /\ \A q \in Pools \ {p} : shutdown'[q] = shutdown[q]
    BY Zenon DEF FinishCtl, TypeOK
  <1>4. handling[p][1].code = "SHUTDOWN" => ShutIn(handling[p])
    <2>1. Len(handling[p]) \in Nat /\ Len(handling[p]) # 0
      BY <1>1, EmptySeq, LenProperties
    <2>2. 1 \in 1..Len(handling[p])
      BY <2>1
    <2> QED BY <2>2 DEF ShutIn
  <1>5. /\ handling'[p] = <<>>
        /\ \A q \in Pools \ {p} : handling'[q] = handling[q]
    BY <1>1, <1>2
  <1>6. \/ pc' = pc
        \/ \E s \in Callers : pc[s] = "waiting" /\ pc' = [pc EXCEPT ![s] = "woken"]
    BY DEF FinishCtl, Signal, Waiting
  <1>7. CallersDown' /\ \A q \in Pools : Told(q) => Told(q)'
    BY <1>1, <1>2, <1>6 DEF DownInv, CallersDown, Told
  <1>8. ~ShutIn(<<>>)
    BY DEF ShutIn
  <1>9. ASSUME NEW q \in Pools
        PROVE  PoolDown(q)'
    <2>1. PoolDown(q) /\ pipe' = pipe
      BY <1>2 DEF DownInv
    <2>2. CASE q = p
      BY <1>3, <1>4, <1>5, <1>7, <1>8, <2>1, <2>2, Zenon DEF PoolDown
    <2>3. CASE q # p
      <3>1. handling'[q] = handling[q] /\ shutdown'[q] = shutdown[q]
        BY <1>3, <1>5, <2>3
      <3> QED BY <1>7, <2>1, <3>1, Zenon DEF PoolDown
    <2> QED BY <2>2, <2>3
  <1> QED BY <1>7, <1>9 DEF DownInv

\* main() shuts the pools down behind all other commands: no thread is left
\* waiting for a pool thread that has gone, however many wakeups are spurious.
THEOREM NothingAfterShutdown == Spec => []NoCommandAfterShutdown
  <1>1. ASSUME TypeOK, DownInv, [Next]_vars
        PROVE  DownInv'
    <2>1. CASE Next
      <3>1. Control \in Callers /\ {Control, Watchdog} \subseteq Callers
        BY DEF Callers
      <3> QED BY <1>1, <2>1, <3>1, CallersKeepDown, SendKeepsDown, ReadKeepsDown, FinishKeepsDown
              DEF Next
    <2>2. CASE UNCHANGED vars
      <3>1. UNCHANGED poolVars /\ CallersDown' /\ \A p \in Pools : Told(p) => Told(p)'
        BY <1>1, <2>2 DEF vars, poolVars, DownInv, CallersDown, Told
      <3> QED BY <1>1, <3>1, CallerDown
    <2> QED BY <1>1, <2>1, <2>2
  <1>2. DownInv => NoCommandAfterShutdown
    BY Zenon DEF DownInv, PoolDown, NoCommandAfterShutdown
  <1> QED BY <1>1, <1>2, InitDown, TypeCorrect, PTL DEF Spec

-----------------------------------------------------------------------------
(* The table of the control thread                                         *)

\* The table, entry by entry, with the descriptors that glb_ctrl_create() has put
\* at its beginning.
Table ==
    /\ \A k \in Slots : k < fd_max => fds[k] \in Fixed \cup open
    /\ \A x \in Fixed \cup open : \E k \in Slots : k < fd_max /\ fds[k] = x
    /\ \A j, k \in Slots : j < fd_max /\ k < fd_max /\ fds[j] = fds[k] => j = k
    /\ \A k \in Slots : k >= fd_max => fds[k] = None
    /\ fd_max >= NFixed
    /\ \A k \in Slots : k < NFixed => fds[k] \in Fixed

\* A client is in one place: it waits, once, or it is in the table. Without a
\* control socket there are none.
Peers ==
    /\ \A j, k \in DOMAIN backlog : backlog[j] = backlog[k] => j = k
    /\ \A k \in DOMAIN backlog : backlog[k] \notin open
    /\ gone \subseteq open \cup Queued
    /\ ~HasInet => ~listening /\ open = {} /\ backlog = <<>>

ControlInv == ControlTypeOK /\ Table /\ Peers /\ ListensIfRoom

USE ControlAssumption DEF Slots

LEMMA FixedLemma ==
    ASSUME ControlTypeOK
    PROVE  /\ Fixed \subseteq {FIFO, INET} /\ Fixed \cap Clients = {}
           /\ NFixed \in 1..2 /\ (INET \in Fixed <=> HasInet)
BY DEF ControlTypeOK, Fixed, NFixed, HasInet

LEMMA InitControl == ControlInit => ControlInv
<1> SUFFICES ASSUME ControlInit PROVE ControlInv
  OBVIOUS
<1>1. layout \in {"fifo", "both", "inet"} /\ CTRL_MAX \in Nat /\ CTRL_MAX >= 3
  BY DEF ControlInit
<1>2. ControlTypeOK
  <2>1. fds \in [Slots -> Clients \cup {FIFO, INET, None}] /\ fd_max \in 1..CTRL_MAX
    BY <1>1 DEF ControlInit, NFixed
  <2>2. listening \in BOOLEAN /\ terminate \in BOOLEAN
    BY DEF ControlInit, HasInet
  <2>3. idx \in 0..CTRL_MAX /\ backlog \in Seq(Clients)
    BY <1>1 DEF ControlInit
  <2>4. main \in {"starting", "serving", "joining", "exited"}
    BY DEF ControlInit
  <2> QED
    BY <2>1, <2>2, <2>3, <2>4 DEF ControlInit, ControlTypeOK
<1>3. Table
  BY <1>1 DEF ControlInit, Table, Fixed, NFixed, HasInet, inet_fd
<1>4. Peers
  BY <1>1 DEF ControlInit, Peers, HasInet
<1>5. ListensIfRoom
  <2>1. CASE layout = "fifo"
    BY <2>1 DEF ListensIfRoom, HasInet
  <2>2. CASE layout # "fifo"
    <3>1. fd_max < CTRL_MAX
      BY <1>1 DEF ControlInit, NFixed
    <3>2. HasInet /\ listening
      BY Zenon, <2>2 DEF ControlInit, HasInet
    <3> QED
      BY Zenon, <3>1, <3>2 DEF ListensIfRoom
  <2> QED
    BY <2>1, <2>2
<1> QED
  BY <1>2, <1>3, <1>4, <1>5 DEF ControlInv

\* Steps that touch neither the table nor the places of the clients.
LEMMA FrameStep ==
    ASSUME ControlInv, ControlTypeOK',
           UNCHANGED <<layout, fds, listening, fd_max, backlog, open>>,
           gone' \subseteq open \cup Queued
    PROVE  ControlInv'
<1>1. UNCHANGED <<Fixed, NFixed, HasInet, Queued>>
  BY DEF Fixed, NFixed, HasInet, Queued
<1>2. Table'
  BY <1>1 DEF ControlInv, Table
<1>3. Peers'
  BY <1>1 DEF ControlInv, Peers
<1>4. ListensIfRoom'
  BY <1>1 DEF ControlInv, ListensIfRoom
<1> QED
  BY <1>2, <1>3, <1>4 DEF ControlInv

LEMMA OtherStep ==
    ASSUME ControlInv,
           \/ \E c \in Clients : Send(c) \/ HangUp(c)
           \/ Echo \/ Poll \/ LoopEnds \/ Leave
           \/ Terminate \/ StartListener \/ MainEnds \/ Joined
           \/ \E k \in Slots : Request(k)
    PROVE  ControlInv'
<1> USE DEF thread, peers
<1>1. /\ UNCHANGED <<layout, fds, listening, fd_max, backlog, open>>
      /\ gone' \subseteq open \cup Queued
  BY DEF Send, HangUp, Echo, Poll, LoopEnds, Leave, Terminate, StartListener, MainEnds, Joined,
         Request, ControlInv, Peers
<1>2. ControlTypeOK'
  <2> USE DEF ControlInv
  <2>1. CASE \E c \in Clients : Send(c) \/ HangUp(c)
    BY <2>1 DEF Send, HangUp, ControlTypeOK
  <2>2. CASE Echo \/ Terminate \/ StartListener \/ MainEnds \/ Joined
    BY <2>2 DEF Echo, Terminate, StartListener, MainEnds, Joined, ControlTypeOK
  <2>3. CASE LoopEnds \/ Leave
    BY <2>3 DEF LoopEnds, Leave, ControlTypeOK
  <2>4. CASE \E k \in Slots : Request(k)
    BY <2>4 DEF Request, ControlTypeOK
  <2>5. CASE Poll
    <3>1. Readable \subseteq Clients \cup {FIFO, INET}
      BY Zenon DEF Readable, ControlTypeOK
    <3>2. INET \notin Readable /\ ready' = Readable /\ step' = "loop" /\ idx' = 0
      BY Zenon, <2>5 DEF Poll
    <3>3. ready' \subseteq Clients \cup {FIFO}
      BY Zenon, <3>1, <3>2
    <3>4. idx' \in 0..CTRL_MAX
      BY <3>2
    <3> QED
      BY <2>5, <3>2, <3>3, <3>4 DEF Poll, ControlTypeOK
  <2> QED
    BY <2>1, <2>2, <2>3, <2>4, <2>5
<1> QED
  BY <1>1, <1>2, FrameStep

\* What Append leaves and what it adds.
LEMMA AppendFacts ==
    ASSUME NEW S, NEW s \in Seq(S), NEW e \in S
    PROVE  /\ DOMAIN Append(s, e) = 1..Len(s) + 1 /\ Len(s) \in Nat
           /\ \A k \in 1..Len(s) : Append(s, e)[k] = s[k]
           /\ DOMAIN s = 1..Len(s) /\ Append(s, e)[Len(s) + 1] = e
  OBVIOUS

\* A client begins to wait.
LEMMA ConnectStep ==
    ASSUME ControlInv, NEW c \in Clients, Connect(c)
    PROVE  ControlInv'
<1>1. /\ backlog' = Append(backlog, c) /\ backlog \in Seq(Clients)
      /\ c \notin open /\ c \notin Queued /\ HasInet
      /\ UNCHANGED <<layout, fds, listening, fd_max, open, gone>>
  BY DEF Connect, thread, ControlInv, ControlTypeOK
<1>2. ControlTypeOK'
  BY <1>1 DEF Connect, thread, ControlInv, ControlTypeOK
<1>3. UNCHANGED <<Fixed, NFixed, HasInet>>
  BY <1>1 DEF Fixed, NFixed, HasInet
<1>4. Table' /\ ListensIfRoom'
  BY <1>1, <1>3 DEF ControlInv, Table, ListensIfRoom
<1>5. Peers'
  <2>1. /\ DOMAIN backlog' = 1..Len(backlog) + 1 /\ Len(backlog) \in Nat
        /\ \A k \in 1..Len(backlog) : backlog'[k] = backlog[k] /\ backlog[k] # c
        /\ DOMAIN backlog = 1..Len(backlog) /\ backlog'[Len(backlog) + 1] = c
    <3>1. /\ DOMAIN backlog' = 1..Len(backlog) + 1 /\ Len(backlog) \in Nat
          /\ \A k \in 1..Len(backlog) : backlog'[k] = backlog[k]
          /\ DOMAIN backlog = 1..Len(backlog) /\ backlog'[Len(backlog) + 1] = c
      <4>1. /\ DOMAIN Append(backlog, c) = 1..Len(backlog) + 1 /\ Len(backlog) \in Nat
            /\ \A k \in 1..Len(backlog) : Append(backlog, c)[k] = backlog[k]
            /\ DOMAIN backlog = 1..Len(backlog)
            /\ Append(backlog, c)[Len(backlog) + 1] = c
        <5>1. backlog \in Seq(Clients) /\ c \in Clients
          BY <1>1
        <5> QED
          BY ONLY <5>1, AppendFacts
      <4>2. backlog' = Append(backlog, c)
        BY <1>1
      <4> QED
        BY ONLY Zenon, <4>1, <4>2
    <3>2. \A k \in DOMAIN backlog : backlog[k] # c
      BY Zenon, <1>1 DEF Queued
    <3> QED
      BY Zenon, <3>1, <3>2
  <2>2. Queued \subseteq Queued'
    BY <2>1 DEF Queued
  <2> QED
    BY <1>1, <1>3, <2>1, <2>2 DEF ControlInv, Peers
<1> QED
  BY <1>2, <1>4, <1>5 DEF ControlInv

\* The first client of the backlog leaves it.
LEMMA TailLemma ==
    ASSUME ControlInv, backlog # <<>>, backlog' = Tail(backlog)
    PROVE  /\ Head(backlog) \in Clients /\ Head(backlog) \notin open
           /\ backlog' \in Seq(Clients)
           /\ \A k \in DOMAIN backlog' : backlog'[k] \in Clients
           /\ Queued' = Queued \ {Head(backlog)}
           /\ \A j, k \in DOMAIN backlog' : backlog'[j] = backlog'[k] => j = k
           /\ \A k \in DOMAIN backlog' : backlog'[k] \notin open /\ backlog'[k] # Head(backlog)
<1> DEFINE n == Len(backlog)
<1>1. /\ backlog \in Seq(Clients) /\ n \in Nat /\ n > 0 /\ DOMAIN backlog = 1..n
      /\ Head(backlog) = backlog[1]
      /\ DOMAIN backlog' = 1..n - 1
      /\ \A k \in 1..n - 1 : backlog'[k] = backlog[k + 1]
      /\ backlog' \in Seq(Clients)
  BY DEF ControlInv, ControlTypeOK
<1> HIDE DEF n
<1>2. /\ \A j, k \in 1..n : backlog[j] = backlog[k] => j = k
      /\ \A k \in 1..n : backlog[k] \notin open /\ backlog[k] \in Clients
  BY <1>1 DEF ControlInv, Peers
<1>3. /\ \A j, k \in DOMAIN backlog' : backlog'[j] = backlog'[k] => j = k
      /\ \A k \in DOMAIN backlog' :
            backlog'[k] \notin open /\ backlog'[k] # Head(backlog) /\ backlog'[k] \in Clients
  BY <1>1, <1>2
<1>4. Queued' = Queued \ {Head(backlog)}
  <2>1. Queued = {backlog[k] : k \in 1..n} /\ Queued' = {backlog'[k] : k \in 1..n - 1}
    BY Zenon, <1>1 DEF Queued
  <2>2. ASSUME NEW x \in Queued, x # Head(backlog) PROVE x \in Queued'
    <3>1. PICK k \in 1..n : x = backlog[k]
      BY <2>1, <2>2
    <3>2. k - 1 \in 1..n - 1 /\ backlog'[k - 1] = x
      BY <1>1, <2>2, <3>1
    <3> QED
      BY Zenon, <2>1, <3>2
  <2>3. ASSUME NEW x \in Queued' PROVE x \in Queued /\ x # Head(backlog)
    <3>1. PICK k \in 1..n - 1 : x = backlog'[k]
      BY Zenon, <2>1, <2>3
    <3>2. k + 1 \in 1..n /\ backlog[k + 1] = x
      BY <1>1, <3>1
    <3> QED
      BY <1>1, <1>2, <2>1, <3>1, <3>2
  <2> QED
    BY <2>2, <2>3
<1> QED
  BY <1>1, <1>2, <1>3, <1>4

\* A client goes from the backlog into the table. poll() has looked at the control
\* socket, so there is room.
LEMMA AcceptStep ==
    ASSUME ControlInv, Accept
    PROVE  ControlInv'
<1> DEFINE c == Head(backlog)
<1>1. /\ listening /\ backlog # <<>> /\ HasInet
      /\ fd_max \in 1..CTRL_MAX /\ fd_max < CTRL_MAX
  <2>1. INET \notin data \cup gone
    BY DEF ControlInv, ControlTypeOK
  <2>2. listening /\ backlog # <<>>
    BY <2>1 DEF Accept, Readable
  <2> QED
    BY <2>2 DEF ControlInv, ControlTypeOK, Peers, ListensIfRoom
<1>2. /\ fds' = [fds EXCEPT ![fd_max] = c] /\ fd_max' = fd_max + 1
      /\ listening' = (listening /\ fd_max + 1 # CTRL_MAX)
      /\ open' = open \cup {c} /\ backlog' = Tail(backlog)
      /\ UNCHANGED <<layout, gone>>
  BY DEF Accept, AddClient
<1>3. /\ c \in Clients /\ c \notin open
      /\ backlog' \in Seq(Clients)
      /\ Queued' = Queued \ {c}
      /\ \A j, k \in DOMAIN backlog' : backlog'[j] = backlog'[k] => j = k
      /\ \A k \in DOMAIN backlog' : backlog'[k] \notin open /\ backlog'[k] # c
  BY <1>1, <1>2, TailLemma
<1> HIDE DEF c
<1>4. UNCHANGED <<Fixed, NFixed, HasInet>>
  BY <1>2 DEF Fixed, NFixed, HasInet
<1>5. ControlTypeOK'
  <2>1. /\ fds' \in [Slots -> Clients \cup {FIFO, INET, None}]
        /\ fd_max' \in 1..CTRL_MAX /\ listening' \in BOOLEAN /\ open' \subseteq Clients
    BY <1>1, <1>2, <1>3 DEF ControlInv, ControlTypeOK
  <2> QED
    BY <1>3, <2>1 DEF Accept, ControlInv, ControlTypeOK
<1>6. Table'
  <2>1. fd_max \in Slots /\ fds \in [Slots -> Clients \cup {FIFO, INET, None}]
    BY <1>1 DEF ControlInv, ControlTypeOK
  <2>2. fds'[fd_max] = c /\ \A k \in Slots : k # fd_max => fds'[k] = fds[k]
    BY <1>2, <2>1
  <2>3. c \notin Fixed \cup open /\ NFixed \in 1..2
    BY <1>3, FixedLemma DEF ControlInv
  <2> QED
    BY <1>1, <1>2, <1>4, <2>1, <2>2, <2>3 DEF ControlInv, Table
<1>7. Peers'
  BY <1>1, <1>2, <1>3, <1>4 DEF ControlInv, Peers
<1>8. ListensIfRoom'
  <2>1. fd_max + 1 # CTRL_MAX <=> fd_max' < CTRL_MAX
    BY <1>1, <1>2
  <2>2. listening' <=> fd_max + 1 # CTRL_MAX
    BY <1>1, <1>2, Zenon
  <2> QED
    BY <2>1, <2>2, Zenon DEF ListensIfRoom
<1> QED
  BY <1>5, <1>6, <1>7, <1>8 DEF ControlInv

LEMMA AcceptFailsStep ==
    ASSUME ControlInv, AcceptFails
    PROVE  ControlInv'
<1> DEFINE c == Head(backlog)
<1>1. /\ backlog # <<>> /\ backlog' = Tail(backlog) /\ gone' = gone \ {c}
      /\ data' = data \ {c}
      /\ UNCHANGED <<layout, thread, open, terminate, main>>
  <2>1. INET \notin data \cup gone
    BY DEF ControlInv, ControlTypeOK
  <2> QED
    BY <2>1 DEF AcceptFails, Readable
<1>2. /\ backlog' \in Seq(Clients)
      /\ Queued' = Queued \ {c}
      /\ \A j, k \in DOMAIN backlog' : backlog'[j] = backlog'[k] => j = k
      /\ \A k \in DOMAIN backlog' : backlog'[k] \notin open
  BY <1>1, TailLemma
<1> HIDE DEF c
<1>3. UNCHANGED <<Fixed, NFixed, HasInet>>
  BY <1>1 DEF Fixed, NFixed, HasInet
<1>4. ControlTypeOK'
  BY <1>1, <1>2 DEF thread, ControlInv, ControlTypeOK
<1>5. Table' /\ ListensIfRoom'
  BY <1>1, <1>3 DEF thread, ControlInv, Table, ListensIfRoom
<1>6. Peers'
  <2>1. HasInet
    BY <1>1 DEF ControlInv, Peers
  <2> QED
    BY <1>1, <1>2, <1>3, <2>1 DEF thread, ControlInv, Peers
<1> QED
  BY <1>4, <1>5, <1>6 DEF ControlInv

\* A client that has gone and whose entry the loop has come to is taken out of the
\* table: the entry is within it, behind the fixed ones.
LEMMA ForgetStep ==
    ASSUME ControlInv, NEW m \in Slots, NextSet(m), fds[m] \in gone, Forget(fds[m]),
           ControlTypeOK'
    PROVE  ControlInv'
<1> DEFINE c == fds[m]
           l == fd_max - 1
<1>1. /\ fds' = [k \in Slots |-> IF k = l THEN None ELSE IF fds[k] = c THEN fds[l] ELSE fds[k]]
      /\ fd_max' = l /\ listening' = TRUE
      /\ open' = open \ {c} /\ gone' = gone \ {c}
      /\ UNCHANGED <<layout, backlog>>
  BY DEF Forget, DelClient
<1>2. /\ c \in Clients /\ c \in open /\ c \notin Fixed
      /\ m < fd_max /\ NFixed <= m /\ NFixed \in 1..2
      /\ fd_max \in 1..CTRL_MAX /\ l \in Slots /\ HasInet
  <2>1. c \in Clients /\ c \notin Fixed /\ NFixed \in 1..2 /\ fd_max \in 1..CTRL_MAX
    BY FixedLemma DEF ControlInv, ControlTypeOK
  <2>2. m < fd_max
    BY <2>1 DEF ControlInv, Table
  <2>3. c \in open /\ NFixed <= m
    BY <2>1, <2>2 DEF ControlInv, Table
  <2>4. HasInet
    BY <2>3 DEF ControlInv, Peers
  <2> QED
    BY <2>1, <2>2, <2>3, <2>4
<1>3. UNCHANGED <<Fixed, NFixed, HasInet, Queued>>
  BY <1>1 DEF Fixed, NFixed, HasInet, Queued
<1> HIDE DEF c
<1>4. Table'
  <2>1. /\ \A k \in Slots : k < l /\ k # m => fds'[k] = fds[k] /\ fds[k] # c
        /\ m < l => fds'[m] = fds[l]
        /\ \A k \in Slots : k >= l => fds'[k] = None
    <3>1. \A k \in Slots : k < fd_max /\ fds[k] = c => k = m
      BY <1>2 DEF c, ControlInv, Table
    <3>2. \A k \in Slots : k >= fd_max => fds[k] = None /\ None # c
      BY <1>2 DEF ControlInv, Table
    <3>3. fd_max \in Nat /\ l \in Slots /\ m < fd_max /\ fds[m] = c
      BY <1>2 DEF c
    <3> HIDE DEF l
    <3>4. \A k \in Slots :
             fds'[k] = IF k = l THEN None ELSE IF fds[k] = c THEN fds[l] ELSE fds[k]
      BY Zenon, <1>1
    <3>5. ASSUME NEW k \in Slots, k < l, k # m PROVE fds'[k] = fds[k] /\ fds[k] # c
      <4>1. k # l /\ k < fd_max
        BY <3>3, <3>5 DEF l
      <4> QED
        BY Zenon, <3>1, <3>4, <3>5, <4>1
    <3>6. m < l => fds'[m] = fds[l]
      <4>1. m < l => m # l
        BY <3>3
      <4> QED
        BY Zenon, <3>3, <3>4, <4>1
    <3>7. ASSUME NEW k \in Slots, k >= l PROVE fds'[k] = None
      <4>1. k = l \/ k >= fd_max
        BY <3>3, <3>7 DEF l
      <4> QED
        BY Zenon, <3>2, <3>4, <4>1
    <3> QED
      BY <3>5, <3>6, <3>7
  <2>2. \A k \in Slots : k < l => fds'[k] \in Fixed \cup (open \ {c})
    <3>1. \A k \in Slots : k < l => k < fd_max
      BY <1>2
    <3>2. l < fd_max /\ l \in Slots
      BY <1>2
    <3>3. \A k \in Slots : k < fd_max => fds[k] \in Fixed \cup open
      BY Zenon DEF ControlInv, Table
    <3>4. m < l => fds[l] # c
      <4>1. \A k \in Slots : k < fd_max /\ fds[k] = fds[m] => k = m
        BY <1>2 DEF ControlInv, Table
      <4>2. m < l => m # l
        BY <1>2
      <4> QED
        BY Zenon, <3>2, <4>1, <4>2 DEF c
    <3> HIDE DEF l
    <3> QED
      BY Zenon, <2>1, <3>1, <3>2, <3>3, <3>4
  <2>3. ASSUME NEW x \in Fixed \cup (open \ {c})
        PROVE  \E k \in Slots : k < l /\ fds'[k] = x
    <3>1. PICK k \in Slots : k < fd_max /\ fds[k] = x
      BY DEF ControlInv, Table
    <3>2. k # m
      BY <1>2, <3>1 DEF c
    <3>3. CASE k < l
      BY <2>1, <3>1, <3>2, <3>3
    <3>4. CASE k = l
      BY <1>2, <2>1, <3>1, <3>2, <3>4
    <3> QED
      BY <1>2, <3>1, <3>3, <3>4
  <2>4. \A j, k \in Slots : j < l /\ k < l /\ fds'[j] = fds'[k] => j = k
    BY <1>2, <2>1 DEF ControlInv, Table
  <2>5. l >= NFixed /\ \A k \in Slots : k < NFixed => fds'[k] \in Fixed
    BY <1>2, <2>1 DEF ControlInv, Table
  <2> QED
    BY Zenon, <1>1, <1>3, <2>1, <2>2, <2>3, <2>4, <2>5 DEF Table
<1>5. Peers'
  BY <1>1, <1>2, <1>3 DEF ControlInv, Peers
<1>6. ListensIfRoom'
  <2>1. fd_max' < CTRL_MAX
    <3>1. fd_max' = l /\ fd_max \in 1..CTRL_MAX
      BY Zenon, <1>1, <1>2
    <3> QED
      BY <3>1
  <2> QED
    BY <1>1, <2>1 DEF ListensIfRoom
<1> QED
  BY <1>4, <1>5, <1>6 DEF ControlInv

LEMMA ForgetTypeOK ==
    ASSUME ControlInv, NEW m \in Slots, Closed(m) \/ Reset(m)
    PROVE  ControlTypeOK'
<1>1. /\ NextSet(m) /\ fds[m] \in gone /\ Forget(fds[m])
      /\ step' \in {"poll", "loop", "done"} /\ idx' \in 0..CTRL_MAX
      /\ ready' \subseteq ready
  BY DEF Closed, Reset, ControlInv, ControlTypeOK
<1>2. fd_max \in 2..CTRL_MAX
  BY <1>1, FixedLemma DEF NextSet, IsSet, ControlInv, ControlTypeOK, Table
<1>3. fds' \in [Slots -> Clients \cup {FIFO, INET, None}] /\ fd_max' \in 1..CTRL_MAX
  BY <1>1, <1>2 DEF Forget, DelClient, ControlInv, ControlTypeOK
<1>4. listening' \in BOOLEAN
  BY <1>1 DEF Forget, DelClient
<1> QED
  BY <1>1, <1>3, <1>4 DEF Forget, ControlInv, ControlTypeOK

LEMMA NextControl == ControlInv /\ [ControlNext]_controlVars => ControlInv'
<1> SUFFICES ASSUME ControlInv, [ControlNext]_controlVars PROVE ControlInv'
  OBVIOUS
<1>1. ASSUME NEW m \in Slots, Closed(m) \/ Reset(m) PROVE ControlInv'
  <2>1. NextSet(m) /\ fds[m] \in gone /\ Forget(fds[m])
    BY <1>1 DEF Closed, Reset
  <2> QED
    BY <1>1, <2>1, ForgetTypeOK, ForgetStep
<1>2. CASE UNCHANGED controlVars
  <2>1. ControlTypeOK' /\ gone' \subseteq open \cup Queued
    BY <1>2 DEF controlVars, thread, peers, ControlInv, ControlTypeOK, Peers
  <2> QED
    BY <1>2, <2>1, FrameStep DEF controlVars, thread, peers
<1> QED
  BY <1>1, <1>2, OtherStep, ConnectStep, AcceptStep, AcceptFailsStep DEF ControlNext, Thread

LEMMA ControlInvariance == ControlSpec => []ControlInv
BY InitControl, NextControl, PTL DEF ControlSpec

\* The variables of the control thread have their types: fd_max never exceeds
\* CTRL_MAX, as ctrl_add_client() and ctrl_del_client() assert.
THEOREM ControlTypes == ControlSpec => []ControlTypeOK
<1>1. ControlInv => ControlTypeOK
  BY DEF ControlInv
<1> QED
  BY <1>1, ControlInvariance, PTL

\* For any number of clients and any CTRL_MAX the table holds each descriptor
\* that is in use once, and nothing else.
THEOREM TableKept == ControlSpec => []TableSound
<1>1. ControlInv => TableSound
  <2> SUFFICES ASSUME ControlInv PROVE TableSound
    OBVIOUS
  <2>1. {fds[k] : k \in {j \in Slots : j < fd_max}} = Fixed \cup open
    BY DEF ControlInv, Table
  <2> QED
    BY <2>1 DEF ControlInv, Table, TableSound
<1> QED
  BY <1>1, ControlInvariance, PTL

\* The control socket is polled exactly when the table has room.
THEOREM RoomKept == ControlSpec => []ListensIfRoom
<1>1. ControlInv => ListensIfRoom
  BY DEF ControlInv
<1> QED
  BY <1>1, ControlInvariance, PTL

==============================================================================
