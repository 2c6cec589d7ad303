---------------------------- MODULE LintPool_proof ---------------------------
(***************************************************************************)
(* At most one linter runs, for any repositories, order and tasks.         *)
(***************************************************************************)
EXTENDS LintPool, TLAPS

\* Whoever lints holds the mutex and the other way round.  A task that
\* measures gets no further than to TestCover where that wants the mutex.
IInv ==
    /\ TypeOK
    /\ \A r \in Repos : lint = r <=> Linting(r)
    /\ \A r \in Repos : pc[r] = "measuring" => ~lintInTests[r]

LEMMA InitIInv == Init => IInv
  <1> SUFFICES ASSUME Init PROVE IInv
    OBVIOUS
  <1> USE DEF Init, Order!Init
  <1>1. \A r \in Repos : tasks[r] \in Seq(Kinds)
    BY PoolAssumption
  <1>2. ASSUME NEW r \in Repos PROVE Len(tasks[r]) \in Nat
    <2>1. tasks[r] \in Seq(Kinds)
      BY <1>1
    <2>2. QED BY <2>1
  <1>3. TypeOK
    <2>1. n \in [Repos -> Nat] /\ \A r \in Repos : n[r] <= Len(tasks[r])
      BY <1>2
    <2>2. /\ call \in [Repos -> Kinds \cup {"test"}]
          /\ pc \in [Repos -> {"idle", "call", "work", "measuring", "measured", "over"}]
      OBVIOUS
    <2>3. QED BY <2>1, <2>2 DEF TypeOK
  <1>4. \A r \in Repos : ~Linting(r) /\ lint # r
    BY PoolAssumption DEF Linting
  <1>5. QED BY <1>3, <1>4 DEF IInv

LEMMA BeginIInv ==
  ASSUME IInv, NEW r \in Repos, Begin(r)
  PROVE  IInv'
  <1> USE DEF Begin, Order!Begin, Goto
  <1>1. TypeOK'
    BY DEF IInv, TypeOK
  <1>2. \A s \in Repos : Linting(s)' <=> Linting(s)
    BY DEF IInv, TypeOK, Linting
  <1>3. QED BY <1>1, <1>2 DEF IInv, TypeOK

LEMMA EnterIInv ==
  ASSUME IInv, NEW r \in Repos, Enter(r)
  PROVE  IInv'
  <1> USE DEF Enter, Goto, Acquire
  <1>1. TypeOK'
    BY DEF IInv, TypeOK, order
  <1>2. Linting(r)' <=> Locks(r)
    BY DEF IInv, TypeOK, Linting, Locks, Kinds, order
  <1>3. ~Linting(r)
    BY DEF Linting
  <1>4. \A s \in Repos \ {r} : (Linting(s)' <=> Linting(s)) /\ pc'[s] = pc[s]
    BY DEF IInv, TypeOK, Linting
  <1>5. \A s \in Repos : lint' = s <=> Linting(s)'
    BY <1>2, <1>3, <1>4, PoolAssumption DEF IInv
  <1>6. QED BY <1>1, <1>4, <1>5 DEF IInv, TypeOK

\* It never happens with the tests of a repository that lints in them: the
\* mutex that TestCover wants is with the caller.
LEMMA MeasureIInv ==
  ASSUME IInv, NEW r \in Repos, Measure(r)
  PROVE  IInv'
  <1> USE DEF Measure, Goto, Acquire
  <1>1. Linting(r)
    BY DEF IInv, TypeOK, Linting
  <1>2. ~lintInTests[r] /\ UNCHANGED lint
    BY <1>1, PoolAssumption DEF IInv
  <1>3. TypeOK'
    BY <1>2 DEF IInv, TypeOK, order
  <1>4. \A s \in Repos : Linting(s)' <=> Linting(s)
    BY <1>1 DEF IInv, TypeOK, Linting
  <1>5. QED BY <1>2, <1>3, <1>4 DEF IInv, TypeOK

LEMMA MeasuredIInv ==
  ASSUME IInv, NEW r \in Repos, Measured(r)
  PROVE  IInv'
  <1> USE DEF Measured, Goto
  <1>1. UNCHANGED lint
    BY DEF IInv
  <1>2. TypeOK'
    BY <1>1 DEF IInv, TypeOK, order
  <1>3. \A s \in Repos : Linting(s)' <=> Linting(s)
    BY DEF IInv, TypeOK, Linting
  <1>4. QED BY <1>1, <1>2, <1>3 DEF IInv, TypeOK

\* Where a call leaves its goroutine, whatever it came to.
LEMMA AfterLeave ==
  ASSUME IInv, NEW r \in Repos, Leave(r)
  PROVE  /\ TypeOK'
         /\ pc'[r] \in {"call", "over"}
         /\ \A s \in Repos \ {r} : pc'[s] = pc[s] /\ call'[s] = call[s]
  <1> USE DEF Leave, Continue
  <1>1. lint' \in Repos \cup {NoOne}
    BY DEF IInv, TypeOK
  <1>2. /\ tasks[r] \in Seq(Kinds)
        /\ n[r] \in Nat /\ n[r] <= Len(tasks[r])
    BY PoolAssumption DEF IInv, TypeOK
  <1>3. n[r] < Len(tasks[r]) => tasks[r][n[r] + 1] \in Kinds
    BY <1>2
  <1>4. /\ n' \in [Repos -> Nat]
        /\ \A s \in Repos \ {r} : n'[s] = n[s]
        /\ n'[r] <= Len(tasks[r])
    <2>1. n \in [Repos -> Nat] /\ Len(tasks[r]) \in Nat
      BY <1>2 DEF IInv, TypeOK
    <2>2. n' = [n EXCEPT ![r] = n[r] + 1] \/ UNCHANGED n
      OBVIOUS
    <2>3. n' # n => n[r] < Len(tasks[r])
      OBVIOUS
    <2>4. QED BY <1>2, <2>1, <2>2, <2>3
  <1>5. /\ call' \in [Repos -> Kinds \cup {"test"}]
        /\ \A s \in Repos \ {r} : call'[s] = call[s]
    BY <1>2, <1>3 DEF IInv, TypeOK
  <1>6. /\ pc'[r] \in {"call", "over"}
        /\ pc' \in [Repos -> {"idle", "call", "work", "measuring", "measured", "over"}]
        /\ \A s \in Repos \ {r} : pc'[s] = pc[s]
    BY DEF IInv, TypeOK
  <1>7. QED BY <1>1, <1>4, <1>5, <1>6 DEF IInv, TypeOK, order

LEMMA LeaveIInv ==
  ASSUME IInv, NEW r \in Repos, Leave(r)
  PROVE  IInv'
  <1>1. /\ TypeOK'
        /\ pc'[r] \in {"call", "over"}
        /\ \A s \in Repos \ {r} : pc'[s] = pc[s] /\ call'[s] = call[s]
    BY AfterLeave
  <1>2. /\ lint' = IF Locks(r) THEN NoOne ELSE lint
        /\ UNCHANGED lintInTests
    BY DEF Leave
  <1>3. Linting(r) <=> Locks(r)
    BY DEF Leave, Ended, Linting, Locks, IInv, TypeOK, Kinds
  <1>4. ~Linting(r)'
    BY <1>1 DEF Linting
  <1>5. \A s \in Repos \ {r} : Linting(s)' <=> Linting(s)
    BY <1>1, <1>2 DEF Linting
  <1>6. \A s \in Repos : lint' = s <=> Linting(s)'
    BY <1>2, <1>3, <1>4, <1>5, PoolAssumption DEF IInv
  <1>7. \A s \in Repos : pc'[s] = "measuring" => ~lintInTests'[s]
    BY <1>1, <1>2 DEF IInv
  <1>8. QED BY <1>1, <1>6, <1>7 DEF IInv

LEMMA FinishIInv ==
  ASSUME IInv, NEW r \in Repos, Finish(r)
  PROVE  IInv'
  <1> USE DEF Finish, Order!Finish, Goto
  <1>1. TypeOK'
    BY DEF IInv, TypeOK
  <1>2. \A s \in Repos : Linting(s)' <=> Linting(s)
    BY DEF IInv, TypeOK, Linting
  <1>3. QED BY <1>1, <1>2 DEF IInv, TypeOK

LEMMA StepIInv == IInv /\ [Next]_vars => IInv'
  <1> SUFFICES ASSUME IInv, [Next]_vars PROVE IInv'
    OBVIOUS
  <1>1. ASSUME NEW r \in Repos,
               Begin(r) \/ Enter(r) \/ Measure(r) \/ Measured(r)
                   \/ Leave(r) \/ Finish(r)
        PROVE  IInv'
    BY <1>1, BeginIInv, EnterIInv, MeasureIInv, MeasuredIInv, LeaveIInv, FinishIInv
  <1>2. CASE Return
    BY <1>2 DEF Return, Order!Return, IInv, TypeOK, Linting
  <1>3. CASE UNCHANGED vars
    BY <1>3 DEF vars, order, IInv, TypeOK, Linting
  <1>4. QED BY <1>1, <1>2, <1>3 DEF Next, Done

\* Whoever is in a call that lints holds the mutex, and nobody else does.
THEOREM Invariance == Spec => []IInv
  BY InitIInv, StepIInv, PTL DEF Spec

\* The mutex, the goroutines and the order keep their types.
THEOREM TypeCorrect == Spec => []TypeOK
  <1>1. IInv => TypeOK
    BY DEF IInv
  <1>2. QED BY <1>1, Invariance, PTL

\* At most one linter runs at a time, in tasks and tests of any number of
\* repositories, even where a task waits for itself.
THEOREM OneLinterAtATime == Spec => []OneLinter
  <1>1. IInv => OneLinter
    BY DEF IInv, OneLinter
  <1>2. QED BY <1>1, Invariance, PTL

\* The mutex is never kept by a repository whose call is over.
THEOREM NeverKept == Spec => []HeldToLint
  <1>1. IInv => HeldToLint
    BY DEF IInv, HeldToLint, TypeOK
  <1>2. QED BY <1>1, Invariance, PTL
==============================================================================
