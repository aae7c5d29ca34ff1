------------------------------ MODULE EventProofs ------------------------------
(***************************************************************************)
(* Theorems about Event, for any number of threads.  Each invariant is      *)
(* inductive once the types are known.                                      *)
(***************************************************************************)
EXTENDS Event, TLAPS

Places == {"out", "asleep", "woken", "expired", "notifyOne", "notifyAll"}

\* A thread only ever stands where the code of its call puts it, and only a wait
\* with a timeout gives up.
THEOREM TypeCorrect == Spec => []TypeOK
<1>1. Init => TypeOK
  <2> SUFFICES ASSUME Init PROVE TypeOK
    OBVIOUS
  <2>1. pc \in [Threads -> Places] /\ \A t \in Threads : pc[t] = "expired" => t \in timed
    BY DEF Init, Places
  <2>2. signals \in 0..MaxSignals /\ passes \in Nat
    BY MaxSignalsAssumption DEF Init
  <2>3. shouldContinue \in BOOLEAN /\ timed \subseteq Threads
    BY DEF Init
  <2> QED
    BY <2>1, <2>2, <2>3 DEF TypeOK, Places
<1>2. TypeOK /\ [Next]_vars => TypeOK'
  <2> SUFFICES ASSUME TypeOK, [Next]_vars PROVE TypeOK'
    OBVIOUS
  <2>1. CASE UNCHANGED vars
    BY <2>1 DEF TypeOK, vars
  <2>2. ASSUME NEW t \in Threads, Wait(t) PROVE TypeOK'
    <3>1. /\ pc' \in [Threads -> Places] /\ timed' \subseteq Threads
          /\ \A s \in Threads : pc'[s] = "expired" => s \in timed'
      BY <2>2 DEF TypeOK, Places, Wait, Test, Pass, Sleep, Goes
    <3>2. shouldContinue' \in BOOLEAN
      BY <2>2 DEF TypeOK, Wait, Test, Pass, Sleep, Goes
    <3>3. signals' \in 0..MaxSignals /\ passes' \in Nat
      BY <2>2 DEF TypeOK, Wait, Test, Pass, Sleep, Goes
    <3> QED
      BY <3>1, <3>2, <3>3 DEF TypeOK, Places
  <2>3. ASSUME NEW t \in Threads, Raise(t) PROVE TypeOK'
    BY <2>3, MaxSignalsAssumption DEF TypeOK, Raise, Goes
  <2>4. ASSUME NEW t \in Threads, WakesSpuriously(t) PROVE TypeOK'
    BY <2>4 DEF TypeOK, WakesSpuriously, Goes
  <2>5. ASSUME NEW t \in Threads, TimesOut(t) PROVE TypeOK'
    BY <2>5 DEF TypeOK, TimesOut, Goes
  <2>6. ASSUME NEW t \in Threads, Retest(t) PROVE TypeOK'
    <3>1. /\ pc' \in [Threads -> Places] /\ timed' \subseteq Threads
          /\ \A s \in Threads : pc'[s] = "expired" => s \in timed'
      BY <2>6 DEF TypeOK, Places, Retest, Test, Pass, Sleep, Goes
    <3>2. shouldContinue' \in BOOLEAN
      BY <2>6 DEF TypeOK, Retest, Test, Pass, Sleep, Goes
    <3>3. signals' \in 0..MaxSignals /\ passes' \in Nat
      BY <2>6 DEF TypeOK, Retest, Test, Pass, Sleep, Goes
    <3> QED
      BY <3>1, <3>2, <3>3 DEF TypeOK, Places
  <2>7. ASSUME NEW t \in Threads, Expires(t) PROVE TypeOK'
    <3>1. /\ pc' \in [Threads -> Places] /\ timed' \subseteq Threads
          /\ \A s \in Threads : pc'[s] = "expired" => s \in timed'
      BY <2>7 DEF TypeOK, Places, Expires, Answers, Goes
    <3>2. shouldContinue' \in BOOLEAN
      BY <2>7 DEF TypeOK, Expires, Answers, Goes
    <3>3. signals' \in 0..MaxSignals /\ passes' \in Nat
      BY <2>7 DEF TypeOK, Expires, Answers, Goes
    <3> QED
      BY <3>1, <3>2, <3>3 DEF TypeOK, Places
  <2>8. ASSUME NEW t \in Threads, NotifyOne(t) PROVE TypeOK'
    BY <2>8 DEF TypeOK, NotifyOne, Asleep, Goes
  <2>9. ASSUME NEW t \in Threads, NotifyAll(t) PROVE TypeOK'
    BY <2>9 DEF TypeOK, NotifyAll, Asleep
  <2> QED
    BY <2>1, <2>2, <2>3, <2>4, <2>5, <2>6, <2>7, <2>8, <2>9 DEF Next, Runs
<1> QED
  BY <1>1, <1>2, PTL DEF Spec

\* Every rise of the flag answers exactly one wait, whichever mixture of Set,
\* SetAll and timed waits is going on.
THEOREM Conserved == Spec => []SignalConserved
<1>1. Init => SignalConserved
  BY DEF Init, SignalConserved
<1>2. TypeOK /\ SignalConserved /\ [Next]_vars => SignalConserved'
  <2> SUFFICES ASSUME TypeOK, SignalConserved, [Next]_vars PROVE SignalConserved'
    OBVIOUS
  <2>1. CASE UNCHANGED <<shouldContinue, signals, passes>>
    BY <2>1 DEF SignalConserved
  <2>2. ASSUME NEW t \in Threads, Test(t) PROVE SignalConserved'
    BY <2>2 DEF TypeOK, SignalConserved, Test, Pass, Sleep
  <2>3. ASSUME NEW t \in Threads, Raise(t) PROVE SignalConserved'
    BY <2>3 DEF TypeOK, SignalConserved, Raise
  <2>4. ASSUME NEW t \in Threads, Expires(t) PROVE SignalConserved'
    BY <2>4 DEF TypeOK, SignalConserved, Expires, Answers
  <2> QED
    BY <2>1, <2>2, <2>3, <2>4
    DEF Next, vars, Runs, Wait, Retest, WakesSpuriously, TimesOut, NotifyOne, NotifyAll
<1> QED
  BY <1>1, <1>2, TypeCorrect, PTL DEF Spec

\* Set and SetAll may notify after they have unlocked: a thread that sleeps while
\* the flag is up always has another one to wake it or to take the flag.
THEOREM NoneLost == Spec => []NoLostWakeup
<1>1. Init => NoLostWakeup
  BY DEF Init, NoLostWakeup
<1>2. TypeOK /\ NoLostWakeup /\ [Next]_vars => NoLostWakeup'
  <2> SUFFICES ASSUME TypeOK, NoLostWakeup, [Next]_vars,
                      shouldContinue', Asleep' # {}
               PROVE  \E s \in Threads : pc'[s] \in {"woken", "expired", "notifyOne", "notifyAll"}
    BY DEF NoLostWakeup
  <2>1. CASE UNCHANGED vars
    BY <2>1 DEF NoLostWakeup, vars, Asleep
  <2>2. ASSUME NEW t \in Threads, Wait(t) \/ Retest(t) \/ Expires(t) PROVE FALSE
    \* The flag is down after a test.
    BY <2>2 DEF TypeOK, Wait, Retest, Expires, Test, Pass, Sleep, Answers
  <2>3. ASSUME NEW t \in Threads, Raise(t) PROVE pc'[t] \in {"notifyOne", "notifyAll"}
    BY <2>3 DEF TypeOK, Raise, Goes
  <2>4. ASSUME NEW t \in Threads, WakesSpuriously(t) \/ TimesOut(t)
        PROVE  pc'[t] \in {"woken", "expired"}
    BY <2>4 DEF TypeOK, WakesSpuriously, TimesOut, Goes
  <2>5. ASSUME NEW t \in Threads, NotifyOne(t)
        PROVE  \E s \in Threads : pc'[s] = "woken"
    <3>1. Asleep # {}
      BY <2>5 DEF TypeOK, NotifyOne, Asleep, Goes
    <3>2. PICK s \in Asleep : pc' = [pc EXCEPT ![t] = "out", ![s] = "woken"]
      BY <2>5, <3>1 DEF NotifyOne
    <3> QED
      BY <3>2 DEF TypeOK, Asleep
  <2>6. ASSUME NEW t \in Threads, NotifyAll(t) PROVE FALSE
    BY <2>6 DEF TypeOK, NotifyAll, Asleep
  <2> QED
    BY <2>1, <2>2, <2>3, <2>4, <2>5, <2>6 DEF Next, Runs
<1> QED
  BY <1>1, <1>2, TypeCorrect, PTL DEF Spec
===============================================================================
