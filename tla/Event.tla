--------------------------------- MODULE Event ---------------------------------
(***************************************************************************)
(* Util::Event: an auto-reset event over a mutex and a condition variable.  *)
(*                                                                          *)
(* A step is one section under _mutex, or one call on _condVar outside it.  *)
(* Set and SetAll notify after they have unlocked, so anything may happen   *)
(* in between.  A wait that is not answered at once releases the mutex and  *)
(* sleeps in one step; it goes on when notified, spuriously, or when its    *)
(* time is over, and each time takes the mutex to look at the flag again.   *)
(***************************************************************************)
EXTENDS Integers, FiniteSets

CONSTANTS Threads,
          MaxSignals   \* bound on the times the flag is raised

ASSUME MaxSignalsAssumption == MaxSignals \in Nat

VARIABLES shouldContinue,
          pc,         \* where each thread is: out of the event, or in a call
          timed,      \* the threads whose wait has a timeout
          signals,    \* history: how often the flag went up
          passes      \* history: how many waits were answered true

vars == <<shouldContinue, pc, timed, signals, passes>>

Init == /\ shouldContinue = FALSE
        /\ pc = [t \in Threads |-> "out"]
        /\ timed = {}
        /\ signals = 0 /\ passes = 0

Goes(t, where) == pc' = [pc EXCEPT ![t] = where]
Asleep == {t \in Threads : pc[t] = "asleep"}

-------------------------------------------------------------------------------
\* The flag is up: take it and answer true.
Pass(t) == /\ shouldContinue' = FALSE
           /\ passes' = passes + 1
           /\ Goes(t, "out")
           /\ UNCHANGED signals

Sleep(t) == Goes(t, "asleep") /\ UNCHANGED <<shouldContinue, signals, passes>>

Test(t) == \/ shouldContinue /\ Pass(t)
           \/ ~shouldContinue /\ Sleep(t)

\* Wait() and Wait(TimeoutMsec) up to the first look at the flag.
Wait(t) == /\ pc[t] = "out"
           /\ \E set \in {timed \ {t}, timed \cup {t}} : timed' = set
           /\ Test(t)

\* Notified, or woken for no reason.
Retest(t) == /\ pc[t] = "woken"
             /\ Test(t)
             /\ UNCHANGED timed

WakesSpuriously(t) == /\ pc[t] = "asleep"
                      /\ Goes(t, "woken")
                      /\ UNCHANGED <<shouldContinue, timed, signals, passes>>

\* (Mutant: a wait without a timeout gives up as well.)
TimesOutAlways(t) == /\ pc[t] = "asleep"
                     /\ Goes(t, "expired")
                     /\ UNCHANGED <<shouldContinue, timed, signals, passes>>

TimesOut(t) == /\ pc[t] = "asleep" /\ t \in timed
               /\ Goes(t, "expired")
               /\ UNCHANGED <<shouldContinue, timed, signals, passes>>

\* wait_until answers what the flag says once the mutex is held again; the flag
\* goes down either way.
\* (Mutant: it answers that the time is over.)
AnswersLate(t) == /\ shouldContinue' = FALSE
                  /\ Goes(t, "out")
                  /\ UNCHANGED <<timed, signals, passes>>

Answers(t) == /\ shouldContinue' = FALSE
              /\ passes' = IF shouldContinue THEN passes + 1 ELSE passes
              /\ Goes(t, "out")
              /\ UNCHANGED <<timed, signals>>

Expires(t) == pc[t] = "expired" /\ Answers(t)

-------------------------------------------------------------------------------
\* Set and SetAll, the section under the lock.
Raise(t) == /\ pc[t] = "out" /\ signals < MaxSignals
            /\ shouldContinue' = TRUE
            /\ signals' = IF shouldContinue THEN signals ELSE signals + 1
            /\ \E call \in {"notifyOne", "notifyAll"} : Goes(t, call)
            /\ UNCHANGED <<timed, passes>>

\* (Mutant: nobody is notified.)
NotifyOneNobody(t) == /\ pc[t] = "notifyOne"
                      /\ Goes(t, "out")
                      /\ UNCHANGED <<shouldContinue, timed, signals, passes>>

NotifyOne(t) == /\ pc[t] = "notifyOne"
                /\ \/ Asleep = {} /\ Goes(t, "out")
                   \/ \E s \in Asleep : pc' = [pc EXCEPT ![t] = "out", ![s] = "woken"]
                /\ UNCHANGED <<shouldContinue, timed, signals, passes>>

NotifyAll(t) == /\ pc[t] = "notifyAll"
                /\ pc' = [s \in Threads |-> IF s = t THEN "out"
                                            ELSE IF s \in Asleep THEN "woken" ELSE pc[s]]
                /\ UNCHANGED <<shouldContinue, timed, signals, passes>>

\* What a thread inside a call does without being made to.
Runs(t) == Retest(t) \/ Expires(t) \/ NotifyOne(t) \/ NotifyAll(t)

Next == \E t \in Threads : Wait(t) \/ Raise(t) \/ WakesSpuriously(t) \/ TimesOut(t) \/ Runs(t)

Spec == Init /\ [][Next]_vars

\* A thread that can run does; no call, no spurious wake-up and no timeout must come.
FairSpec == Spec /\ \A t \in Threads : WF_vars(Runs(t))

-------------------------------------------------------------------------------
TypeOK == /\ shouldContinue \in BOOLEAN
          /\ pc \in [Threads -> {"out", "asleep", "woken", "expired", "notifyOne", "notifyAll"}]
          /\ timed \subseteq Threads
          /\ \A t \in Threads : pc[t] = "expired" => t \in timed
          /\ signals \in 0..MaxSignals /\ passes \in Nat

\* Each time the flag goes up it lets through exactly one wait: no two waits
\* share a signal, even after SetAll, and a timed wait that gives up never
\* swallows a signal that came in the meantime, although it always lowers the
\* flag.
SignalConserved == signals = passes + (IF shouldContinue THEN 1 ELSE 0)

\* While the flag is up nobody sleeps unless some thread is still to notify or
\* to look at the flag: notifying after the unlock loses no wake-up.
NoLostWakeup ==
    shouldContinue /\ Asleep # {} =>
        \E t \in Threads : pc[t] \in {"woken", "expired", "notifyOne", "notifyAll"}

\* A raised flag is taken if anybody waits for it.
SignalTaken == shouldContinue /\ Asleep # {} ~> ~shouldContinue
===============================================================================
