------------------------- MODULE StandaloneProofs --------------------------
(***************************************************************************)
(* Theorems about the components that share nothing with another, and that *)
(* MCStandalone checks side by side: the protocol of the ledger file       *)
(* (LedgerFile), the shadow run and its budget (ShadowRun, BudgetLedger),  *)
(* and what is decided from candles as they close, in the forward test     *)
(* (ForwardOutcome) and in the paper observation (PaperSignal).            *)
(***************************************************************************)
EXTENDS LedgerFile, ShadowRun, ForwardOutcome, PaperSignal,
        FiniteSetTheorems, WellFoundedInduction, TLAPS

-----------------------------------------------------------------------------
(* The ledger file: any number of callers, calls and attempts.  Its lock   *)
(* excludes, and it implements AtomicDocument. *)

Effects == IF document = Absent THEN <<>> ELSE document

TookEffect(call) == \E i \in DOMAIN Effects : Effects[i] = call

\* What a caller is about to write extends what is there.
WritesOnTheLatest == \A c \in Callers : pc[c] = "writing" => loaded[c] = Effects

\* Only calls that were made have taken effect.
EffectsWereCalled ==
    \A c \in Callers : \A n \in Nat : TookEffect(<<c, n>>) => n <= made[c]

\* A caller is about to be told that it was accepted exactly if it was.
CallsAreTrue ==
    \A c \in Callers : pc[c] # "idle" =>
        /\ made[c] \in 1 .. MaxCalls
        /\ TookEffect(Current(c)) <=> pc[c] = "unlocking" /\ verdict[c] = "accepted"
        /\ pc[c] = "unlocking" => verdict[c] # "none"

FileInv ==
    /\ TypeOK
    /\ MutualExclusion
    /\ WritesOnTheLatest
    /\ EffectsWereCalled
    /\ CallsAreTrue

-----------------------------------------------------------------------------
(* What an append does to the effects. *)

LEMMA AppendedOrThere ==
    ASSUME NEW S, NEW s \in Seq(S), NEW x \in S
    PROVE  \A y : (\E i \in DOMAIN Append(s, x) : Append(s, x)[i] = y) <=>
                  (\E i \in DOMAIN s : s[i] = y) \/ y = x
<1>1. /\ DOMAIN Append(s, x) = 1 .. (Len(s) + 1)
      /\ DOMAIN s = 1 .. Len(s)
      /\ Len(s) \in Nat
      /\ Append(s, x)[Len(s) + 1] = x
      /\ \A i \in 1 .. Len(s) : Append(s, x)[i] = s[i]
  OBVIOUS
<1>2. \A i \in 1 .. (Len(s) + 1) : i \in 1 .. Len(s) \/ i = Len(s) + 1
  BY <1>1
<1>3. /\ \A i \in 1 .. Len(s) : i \in 1 .. (Len(s) + 1)
      /\ Len(s) + 1 \in 1 .. (Len(s) + 1)
  BY <1>1
<1> QED BY <1>1, <1>2, <1>3, Zenon

\* A step that leaves the document leaves the effects.
LEMMA SameEffects ==
    ASSUME document' = document
    PROVE  Effects' = Effects /\ \A call : TookEffect(call)' <=> TookEffect(call)
  BY DEF Effects, TookEffect

-----------------------------------------------------------------------------
(* The invariant holds at the outset and every step keeps it. *)

LEMMA InitialFileInv == FileInit => FileInv
<1> SUFFICES ASSUME FileInit PROVE FileInv
  OBVIOUS
<1> USE DEF FileInit
<1>1. TypeOK
  BY FileAssumption DEF TypeOK, Kinds
<1>2. MutualExclusion /\ WritesOnTheLatest /\ CallsAreTrue
  BY DEF MutualExclusion, Inside, WritesOnTheLatest, CallsAreTrue
<1>3. EffectsWereCalled
  BY DEF EffectsWereCalled, TookEffect, Effects
<1> QED BY <1>1, <1>2, <1>3 DEF FileInv

\* A call begins with an effect of none of its name.
LEMMA CallKeepsInv ==
    ASSUME FileInv, NEW c \in Callers, NEW k \in Kinds, Call(c, k)
    PROVE  FileInv'
<1> USE DEF Call, Goto
<1>1. /\ Effects' = Effects
      /\ \A call : TookEffect(call)' <=> TookEffect(call)
  BY SameEffects
<1>2. TypeOK'
  BY FileAssumption DEF FileInv, TypeOK
<1>3. MutualExclusion'
  BY DEF FileInv, TypeOK, MutualExclusion, Inside
<1>4. WritesOnTheLatest'
  BY <1>1 DEF FileInv, TypeOK, WritesOnTheLatest
<1>5. EffectsWereCalled'
  BY <1>1, FileAssumption DEF FileInv, TypeOK, EffectsWereCalled
<1>6. CallsAreTrue'
  <2>1. /\ made[c] \in Nat
        /\ made'[c] = made[c] + 1
        /\ made'[c] \in 1 .. MaxCalls
        /\ pc'[c] = "locking"
    BY FileAssumption DEF FileInv, TypeOK
  <2>2. ~TookEffect(<<c, made[c] + 1>>)
    BY <2>1 DEF FileInv, EffectsWereCalled
  <2>3. ~TookEffect(Current(c))'
    BY <1>1, <2>1, <2>2 DEF Current
  <2>4. \A d \in Callers \ {c} :
            /\ made'[d] = made[d] /\ pc'[d] = pc[d] /\ verdict'[d] = verdict[d]
            /\ TookEffect(Current(d))' <=> TookEffect(Current(d))
    BY <1>1 DEF FileInv, TypeOK, Current
  <2> QED BY <2>1, <2>3, <2>4 DEF FileInv, CallsAreTrue
<1> QED BY <1>2, <1>3, <1>4, <1>5, <1>6 DEF FileInv

\* A caller tries the lock file, and gets it only if there was none.
LEMMA LockKeepsInv ==
    ASSUME FileInv, NEW c \in Callers, CreateLock(c) \/ LockExists(c)
    PROVE  FileInv'
<1> USE DEF CreateLock, LockExists, Goto
<1>1. /\ Effects' = Effects
      /\ \A call : TookEffect(call)' <=> TookEffect(call)
  BY SameEffects
<1>2. TypeOK'
  <2>1. CASE CreateLock(c)
    BY <2>1 DEF FileInv, TypeOK
  <2>2. CASE LockExists(c)
    <3>1. tries[c] + 1 \in 0 .. LockAttempts
      BY <2>2, FileAssumption DEF FileInv, TypeOK
    <3> QED BY <2>2, <3>1 DEF FileInv, TypeOK
  <2> QED BY <2>1, <2>2
<1>3. MutualExclusion'
  BY FileAssumption DEF FileInv, TypeOK, MutualExclusion, Inside
<1>4. WritesOnTheLatest'
  BY <1>1 DEF FileInv, TypeOK, WritesOnTheLatest
<1>5. EffectsWereCalled'
  BY <1>1 DEF FileInv, TypeOK, EffectsWereCalled
<1>6. CallsAreTrue'
  BY <1>1 DEF FileInv, TypeOK, CallsAreTrue, Current
<1> QED BY <1>2, <1>3, <1>4, <1>5, <1>6 DEF FileInv

\* A caller with the lock reads and decides.
LEMMA DecideKeepsInv ==
    ASSUME FileInv, NEW c \in Callers,
           \/ Load(c)
           \/ \E what \in {"refused", "unchanged"} : DoNothing(c, what)
           \/ WriteFails(c)
    PROVE  FileInv'
<1> USE DEF Load, DoNothing, WriteFails, Decide, Goto
<1>1. /\ Effects' = Effects
      /\ \A call : TookEffect(call)' <=> TookEffect(call)
  BY SameEffects
<1>2. TypeOK'
  <2>1. CASE Load(c)
    <3>1. loaded'[c] \in Seq(Calls) /\ loaded' = [loaded EXCEPT ![c] = loaded'[c]]
      BY <2>1 DEF FileInv, TypeOK
    <3> QED BY <2>1, <3>1 DEF FileInv, TypeOK
  <2>2. CASE (\E what \in {"refused", "unchanged"} : DoNothing(c, what)) \/ WriteFails(c)
    BY <2>2 DEF FileInv, TypeOK
  <2> QED BY <2>1, <2>2
<1>3. MutualExclusion'
  BY DEF FileInv, TypeOK, MutualExclusion, Inside
<1>4. WritesOnTheLatest'
  BY <1>1 DEF FileInv, TypeOK, WritesOnTheLatest, Effects
<1>5. EffectsWereCalled'
  BY <1>1 DEF FileInv, TypeOK, EffectsWereCalled
<1>6. CallsAreTrue'
  BY <1>1 DEF FileInv, TypeOK, CallsAreTrue, Current
<1> QED BY <1>2, <1>3, <1>4, <1>5, <1>6 DEF FileInv

\* What os.replace does to the effects.
LEMMA ReplaceAppends ==
    ASSUME FileInv, NEW c \in Callers, Replace(c)
    PROVE  /\ Current(c) \in Calls
           /\ document' \in Seq(Calls)
           /\ document' = Append(Effects, Current(c))
           /\ Effects' = document'
           /\ \A call : TookEffect(call)' <=> TookEffect(call) \/ call = Current(c)
<1>1. Current(c) \in Calls
  BY DEF FileInv, CallsAreTrue, Replace, Current, Calls
<1>2. Effects \in Seq(Calls)
  BY DEF FileInv, TypeOK, Effects
<1>3. document' = Append(Effects, Current(c))
  BY DEF FileInv, WritesOnTheLatest, Replace
<1>4. document' \in Seq(Calls)
  BY <1>1, <1>2, <1>3
<1>5. Effects' = document'
  BY <1>4, AbsentAssumption DEF Effects, Calls
<1>6. \A call : TookEffect(call)' <=> TookEffect(call) \/ call = Current(c)
  BY <1>1, <1>2, <1>3, <1>5, AppendedOrThere DEF TookEffect
<1> QED BY <1>1, <1>3, <1>4, <1>5, <1>6

LEMMA ReplaceKeepsInv ==
    ASSUME FileInv, NEW c \in Callers, Replace(c)
    PROVE  FileInv'
<1> USE DEF Goto
<1>1. /\ document' \in Seq(Calls)
      /\ \A call : TookEffect(call)' <=> TookEffect(call) \/ call = Current(c)
  BY ReplaceAppends
<1>2. TypeOK'
  BY <1>1 DEF FileInv, TypeOK, Replace
<1>3. MutualExclusion'
  BY DEF FileInv, TypeOK, MutualExclusion, Inside, Replace
<1>4. WritesOnTheLatest'
  BY DEF FileInv, TypeOK, WritesOnTheLatest, MutualExclusion, Inside, Replace
<1>5. EffectsWereCalled'
  BY <1>1, FileAssumption DEF FileInv, TypeOK, EffectsWereCalled, Current, Replace
<1>6. CallsAreTrue'
  BY <1>1 DEF FileInv, TypeOK, CallsAreTrue, Current, Replace
<1> QED BY <1>2, <1>3, <1>4, <1>5, <1>6 DEF FileInv

\* A caller leaves, and another may enter only if it was inside.
LEMMA ReturnKeepsInv ==
    ASSUME FileInv, NEW c \in Callers,
           GiveUp(c) \/ LockingFails(c) \/ Unlock(c) \/ UnlockFails(c) \/ Crash(c)
    PROVE  FileInv'
<1>1. PICK what \in {"accepted", "unchanged", "refused", "lost"} :
          Return(c, what)
  BY DEF FileInv, TypeOK, CallsAreTrue, GiveUp, LockingFails, Unlock, UnlockFails, Crash
<1>2. lock' \in {Unlocked, Orphaned} \cup Callers
  BY DEF FileInv, TypeOK, GiveUp, LockingFails, Unlock, UnlockFails, Crash
<1>3. \A d \in Inside : d # c => lock' = lock
  BY FileAssumption
     DEF FileInv, MutualExclusion, Inside, GiveUp, LockingFails, Unlock, UnlockFails, Crash
<1>4. pc[c] # "idle"
  BY DEF GiveUp, LockingFails, Unlock, UnlockFails, Crash
<1> USE DEF Return, Goto
<1>5. /\ Effects' = Effects
      /\ \A call : TookEffect(call)' <=> TookEffect(call)
  BY <1>1, SameEffects
<1>6. TypeOK'
  <2>1. answer' \in [Calls -> {"none", "accepted", "unchanged", "refused", "lost"}]
    BY <1>1 DEF FileInv, TypeOK
  <2> QED BY <1>1, <1>2, <2>1 DEF FileInv, TypeOK
<1>7. MutualExclusion'
  BY <1>1, <1>3 DEF FileInv, TypeOK, MutualExclusion, Inside
<1>8. WritesOnTheLatest'
  BY <1>1, <1>5 DEF FileInv, TypeOK, WritesOnTheLatest
<1>9. EffectsWereCalled'
  BY <1>1, <1>5 DEF FileInv, TypeOK, EffectsWereCalled
<1>10. CallsAreTrue'
  BY <1>1, <1>5 DEF FileInv, TypeOK, CallsAreTrue, Current
<1> QED BY <1>6, <1>7, <1>8, <1>9, <1>10 DEF FileInv

LEMMA RemoveOrphanKeepsInv ==
    ASSUME FileInv, RemoveOrphan
    PROVE  FileInv'
<1> USE DEF RemoveOrphan
<1>1. /\ Effects' = Effects
      /\ \A call : TookEffect(call)' <=> TookEffect(call)
  BY SameEffects
<1>2. TypeOK' /\ MutualExclusion'
  BY FileAssumption DEF FileInv, TypeOK, MutualExclusion, Inside
<1>3. (WritesOnTheLatest /\ EffectsWereCalled /\ CallsAreTrue)'
  BY <1>1 DEF FileInv, WritesOnTheLatest, EffectsWereCalled, CallsAreTrue, Current
<1> QED BY <1>2, <1>3 DEF FileInv

LEMMA FileStep ==
    ASSUME FileInv, [FileNext]_fileVars
    PROVE  FileInv'
<1>1. CASE \E c \in Callers, k \in Kinds : Call(c, k)
  BY <1>1, CallKeepsInv
<1>2. CASE \E c \in Callers : CreateLock(c) \/ LockExists(c)
  BY <1>2, LockKeepsInv
<1>3. CASE \E c \in Callers :
              \/ Load(c)
              \/ \E what \in {"refused", "unchanged"} : DoNothing(c, what)
              \/ WriteFails(c)
  BY <1>3, DecideKeepsInv
<1>4. CASE \E c \in Callers : Replace(c)
  BY <1>4, ReplaceKeepsInv
<1>5. CASE \E c \in Callers :
              GiveUp(c) \/ LockingFails(c) \/ Unlock(c) \/ UnlockFails(c) \/ Crash(c)
  BY <1>5, ReturnKeepsInv
<1>6. CASE RemoveOrphan
  BY <1>6, RemoveOrphanKeepsInv
<1>7. CASE UNCHANGED fileVars
  <2>1. /\ Effects' = Effects
        /\ \A call : TookEffect(call)' <=> TookEffect(call)
    BY <1>7, SameEffects DEF fileVars
  <2> QED BY <1>7, <2>1 DEF fileVars, FileInv, TypeOK, MutualExclusion, Inside,
             WritesOnTheLatest, EffectsWereCalled, CallsAreTrue, Current
<1> QED BY <1>1, <1>2, <1>3, <1>4, <1>5, <1>6, <1>7 DEF FileNext, Progress, Failure

\* The invariant that the theorems below follow from.
THEOREM FileInvHolds == FileSpec => []FileInv
  BY InitialFileInv, FileStep, PTL DEF FileSpec

\* Who reads, decides or writes holds the lock file, however many callers
\* crash or fail to remove theirs.
THEOREM MutualExclusionTheorem == FileSpec => []MutualExclusion
<1>1. FileInv => MutualExclusion
  BY DEF FileInv
<1> QED BY <1>1, FileInvHolds, PTL

-----------------------------------------------------------------------------
(* The refinement: a step of the file is a step of AtomicDocument, or none. *)

\* What the abstract caller has open.
CallOpen == [c \in Callers |-> pc[c] # "idle"]

LEMMA InitialPromise == FileInit => Promise!Init
  BY DEF FileInit, Promise!Init, Calls, Promise!Calls

\* A caller at one of the inner steps has its call open, before and after.
LEMMA InnerStepsStutter ==
    ASSUME NEW c \in Callers, NEW place \in {"locking", "loading", "writing", "unlocking"},
           TypeOK, pc[c] # "idle", Goto(c, place)
    PROVE  CallOpen' = CallOpen
  BY DEF CallOpen, Goto, TypeOK

LEMMA CallBegins ==
    ASSUME TypeOK, NEW c \in Callers, NEW k \in Kinds, Call(c, k)
    PROVE  Promise!Begin(c)
<1>1. CallOpen' = [CallOpen EXCEPT ![c] = TRUE]
  BY DEF CallOpen, Call, Goto, TypeOK
<1> QED BY <1>1 DEF Call, Promise!Begin, CallOpen

LEMMA ReplaceTakesEffect ==
    ASSUME FileInv, NEW c \in Callers, Replace(c)
    PROVE  Promise!TakeEffect(c)
<1>1. document' = Append(Effects, Current(c))
  BY ReplaceAppends
<1>2. ~TookEffect(Current(c))
  BY DEF FileInv, CallsAreTrue, Replace
<1>3. CallOpen' = CallOpen
  BY InnerStepsStutter DEF FileInv, Replace
<1> QED BY <1>1, <1>2, <1>3
        DEF Replace, Promise!TakeEffect, Promise!TookEffect, Promise!Effects,
            Promise!Current, TookEffect, Effects, Current, CallOpen

\* A caller that returns replies with what happened.
LEMMA ReturnReplies ==
    ASSUME FileInv, NEW c \in Callers, pc[c] # "idle",
           NEW what \in {"accepted", "unchanged", "refused"}, Return(c, what),
           what = "accepted" <=> TookEffect(Current(c))
    PROVE  Promise!Reply(c, what)
<1>1. CallOpen' = [CallOpen EXCEPT ![c] = FALSE]
  BY DEF FileInv, CallOpen, Return, Goto, TypeOK
<1>2. (what = "accepted") = Promise!TookEffect(Promise!Current(c))
  BY Zenon DEF Promise!TookEffect, Promise!Effects, Promise!Current, TookEffect, Effects,
     Current
<1> QED BY <1>1, <1>2 DEF Return, Promise!Reply, Promise!Current, Current, CallOpen

LEMMA ReturnsReply ==
    ASSUME FileInv, NEW c \in Callers,
           GiveUp(c) \/ LockingFails(c) \/ Unlock(c) \/ UnlockFails(c)
    PROVE  \E a \in Promise!Answers : Promise!Reply(c, a)
<1>1. PICK what \in {"accepted", "unchanged", "refused"} :
          /\ Return(c, what)
          /\ what = "accepted" <=> TookEffect(Current(c))
  BY DEF FileInv, TypeOK, CallsAreTrue, GiveUp, LockingFails, Unlock, UnlockFails
<1>2. pc[c] # "idle"
  BY DEF GiveUp, LockingFails, Unlock, UnlockFails
<1> QED BY <1>1, <1>2, ReturnReplies DEF Promise!Answers

LEMMA CrashVanishes ==
    ASSUME TypeOK, NEW c \in Callers, Crash(c)
    PROVE  Promise!Vanish(c)
<1>1. CallOpen' = [CallOpen EXCEPT ![c] = FALSE]
  BY DEF CallOpen, Crash, Return, Goto, TypeOK
<1> QED BY <1>1 DEF Crash, Return, Promise!Vanish, Promise!Current, Current, CallOpen

\* The steps in between change nothing of the promise.
LEMMA OthersStutter ==
    ASSUME FileInv, NEW c \in Callers,
           \/ CreateLock(c) \/ LockExists(c) \/ Load(c) \/ WriteFails(c)
           \/ \E what \in {"refused", "unchanged"} : DoNothing(c, what)
    PROVE  UNCHANGED <<document, made, CallOpen, answer>>
<1>1. CallOpen' = CallOpen
  <2>1. CASE LockExists(c)
    BY <2>1 DEF LockExists, CallOpen
  <2>2. CASE ~LockExists(c)
    BY <2>2, InnerStepsStutter
       DEF FileInv, CreateLock, Load, WriteFails, DoNothing, Decide
  <2> QED BY <2>1, <2>2
<1> QED BY <1>1 DEF CreateLock, LockExists, Load, WriteFails, DoNothing, Decide

LEMMA PromiseStep ==
    ASSUME FileInv, [FileNext]_fileVars
    PROVE  [Promise!Next]_(Promise!vars)
<1>1. CASE \E c \in Callers, k \in Kinds : Call(c, k)
  BY <1>1, CallBegins DEF FileInv, Promise!Next
<1>2. CASE \E c \in Callers : Replace(c)
  BY <1>2, ReplaceTakesEffect DEF Promise!Next
<1>3. CASE \E c \in Callers : GiveUp(c) \/ LockingFails(c) \/ Unlock(c) \/ UnlockFails(c)
  BY <1>3, ReturnsReply DEF Promise!Next
<1>4. CASE \E c \in Callers : Crash(c)
  BY <1>4, CrashVanishes DEF FileInv, Promise!Next
<1>5. CASE \E c \in Callers :
              \/ CreateLock(c) \/ LockExists(c) \/ Load(c) \/ WriteFails(c)
              \/ \E what \in {"refused", "unchanged"} : DoNothing(c, what)
  BY <1>5, OthersStutter DEF Promise!vars, CallOpen
<1>6. CASE RemoveOrphan \/ UNCHANGED fileVars
  BY <1>6 DEF RemoveOrphan, fileVars, Promise!vars
<1> QED BY <1>1, <1>2, <1>3, <1>4, <1>5, <1>6 DEF FileNext, Progress, Failure

\* A ledger file keeps what AtomicDocument promises: whatever callers do, and
\* wherever they crash, a call takes effect at one instant on the latest
\* document or not at all, and is told which.
THEOREM PromiseTheorem == FileSpec => PromiseKept
  BY FileInvHolds, InitialPromise, PromiseStep, PTL DEF FileSpec, PromiseKept, Promise!Spec

-----------------------------------------------------------------------------
(* How far a call is from its end: what is left of EveryCallEnds when only *)
(* the fairness of the caller is missing. *)

\* The steps that a call has left to make, at most, by where its caller is and
\* how often it has tried to create the lock file.
StepsFrom(place, n) ==
    CASE place = "idle" -> 0
      [] place = "unlocking" -> 1
      [] place = "writing" -> 2
      [] place = "loading" -> 3
      [] place = "locking" -> 4 + (LockAttempts - n)

StepsLeft(c) == StepsFrom(pc[c], tries[c])

\* A call has at most as many steps left as there are attempts to create the
\* lock file, and four, and none exactly if it has ended.
StepsAreBounded ==
    \A c \in Callers :
        /\ StepsLeft(c) \in 0 .. (4 + LockAttempts)
        /\ StepsLeft(c) = 0 <=> pc[c] = "idle"

\* A step of the caller brings its call nearer to its end; nothing that
\* another caller or the operator does takes it farther from it.
NearerToTheEnd(c) ==
    /\ Progress(c) \/ Failure(c) => StepsLeft(c)' < StepsLeft(c)
    /\ StepsLeft(c)' <= StepsLeft(c) \/ \E k \in Kinds : Call(c, k)

LEMMA PlacesHaveSteps ==
    ASSUME NEW place \in {"idle", "locking", "loading", "writing", "unlocking"},
           NEW n \in 0 .. LockAttempts
    PROVE  /\ StepsFrom(place, n) \in 0 .. (4 + LockAttempts)
           /\ place = "idle" => StepsFrom(place, n) = 0
           /\ place = "unlocking" => StepsFrom(place, n) = 1
           /\ place = "writing" => StepsFrom(place, n) = 2
           /\ place = "loading" => StepsFrom(place, n) = 3
           /\ place = "locking" => StepsFrom(place, n) = 4 + (LockAttempts - n)
           /\ place # "idle" => StepsFrom(place, n) > 0
<1>1. LockAttempts \in Nat
  BY FileAssumption
<1>2. CASE place = "idle"
  BY <1>1, <1>2 DEF StepsFrom
<1>3. CASE place = "unlocking"
  BY <1>1, <1>3 DEF StepsFrom
<1>4. CASE place = "writing"
  BY <1>1, <1>4 DEF StepsFrom
<1>5. CASE place = "loading"
  BY <1>1, <1>5 DEF StepsFrom
<1>6. CASE place = "locking"
  BY <1>1, <1>6 DEF StepsFrom
<1> QED BY <1>2, <1>3, <1>4, <1>5, <1>6

\* Where the caller is, and how often it has tried, after a step of its own.
LEMMA CallersMove ==
    ASSUME TypeOK, NEW c \in Callers, Progress(c) \/ Failure(c)
    PROVE  \/ pc[c] # "idle" /\ pc'[c] = "idle"
           \/ pc[c] = "locking" /\ pc'[c] = "loading"
           \/ pc[c] = "locking" /\ pc'[c] = "locking" /\ tries'[c] = tries[c] + 1
           \/ pc[c] = "loading" /\ pc'[c] \in {"writing", "unlocking"}
           \/ pc[c] = "writing" /\ pc'[c] = "unlocking"
<1>1. CASE CreateLock(c)
  BY <1>1 DEF TypeOK, CreateLock, Goto
<1>2. CASE LockExists(c)
  BY <1>2 DEF TypeOK, LockExists
<1>3. CASE Load(c) \/ \E what \in {"refused", "unchanged"} : DoNothing(c, what)
  BY <1>3 DEF TypeOK, Load, DoNothing, Decide, Goto
<1>4. CASE Replace(c) \/ WriteFails(c)
  BY <1>4 DEF TypeOK, Replace, WriteFails, Decide, Goto
<1>5. CASE GiveUp(c) \/ LockingFails(c) \/ Unlock(c) \/ UnlockFails(c) \/ Crash(c)
  BY <1>5 DEF TypeOK, GiveUp, LockingFails, Unlock, UnlockFails, Crash, Return, Goto
<1> QED BY <1>1, <1>2, <1>3, <1>4, <1>5 DEF Progress, Failure

LEMMA CallersGetNearer ==
    ASSUME TypeOK, TypeOK', NEW c \in Callers, Progress(c) \/ Failure(c)
    PROVE  StepsLeft(c)' < StepsLeft(c)
<1> DEFINE before == StepsFrom(pc[c], tries[c])
           after == StepsFrom(pc'[c], tries'[c])
<1>1. /\ pc[c] \in {"idle", "locking", "loading", "writing", "unlocking"}
      /\ pc'[c] \in {"idle", "locking", "loading", "writing", "unlocking"}
      /\ tries[c] \in 0 .. LockAttempts
      /\ tries'[c] \in 0 .. LockAttempts
      /\ LockAttempts \in Nat
  BY FileAssumption DEF TypeOK
<1>2. /\ before \in 0 .. (4 + LockAttempts)
      /\ pc[c] = "writing" => before = 2
      /\ pc[c] = "loading" => before = 3
      /\ pc[c] = "locking" => before = 4 + (LockAttempts - tries[c])
      /\ pc[c] # "idle" => before > 0
  BY <1>1, PlacesHaveSteps
<1>3. /\ after \in 0 .. (4 + LockAttempts)
      /\ pc'[c] = "idle" => after = 0
      /\ pc'[c] = "unlocking" => after = 1
      /\ pc'[c] = "writing" => after = 2
      /\ pc'[c] = "loading" => after = 3
      /\ pc'[c] = "locking" => after = 4 + (LockAttempts - tries'[c])
  BY <1>1, PlacesHaveSteps
<1>4. StepsLeft(c) = before /\ StepsLeft(c)' = after
  BY DEF StepsLeft
<1> HIDE DEF before, after
<1> QED BY <1>1, <1>2, <1>3, <1>4, CallersMove

\* What others do leaves a caller where it is.
LEMMA OthersLeaveAlone ==
    ASSUME TypeOK, NEW c \in Callers, [FileNext]_fileVars, ~(Progress(c) \/ Failure(c)),
           ~ \E k \in Kinds : Call(c, k)
    PROVE  pc'[c] = pc[c] /\ tries'[c] = tries[c]
<1>1. CASE \E d \in Callers, k \in Kinds : Call(d, k)
  BY <1>1 DEF TypeOK, Call, Goto
<1>2. CASE \E d \in Callers : Progress(d)
  <2>1. PICK d \in Callers : Progress(d)
    BY <1>2
  <2>2. d # c
    BY <2>1
  <2> QED BY <2>1, <2>2 DEF TypeOK, Progress, CreateLock, LockExists, GiveUp, Load, DoNothing,
             Replace, Unlock, Decide, Return, Goto
<1>3. CASE \E d \in Callers : Failure(d)
  <2>1. PICK d \in Callers : Failure(d)
    BY <1>3
  <2>2. d # c
    BY <2>1
  <2> QED BY <2>1, <2>2 DEF TypeOK, Failure, LockingFails, WriteFails, UnlockFails, Crash,
             Decide, Return, Goto
<1>4. CASE RemoveOrphan \/ UNCHANGED fileVars
  BY <1>4 DEF RemoveOrphan, fileVars
<1> QED BY <1>1, <1>2, <1>3, <1>4 DEF FileNext

LEMMA NearerStep ==
    ASSUME TypeOK, TypeOK', [FileNext]_fileVars
    PROVE  \A c \in Callers : NearerToTheEnd(c)
<1> SUFFICES ASSUME NEW c \in Callers PROVE NearerToTheEnd(c)
  OBVIOUS
<1> DEFINE before == StepsFrom(pc[c], tries[c])
           after == StepsFrom(pc'[c], tries'[c])
<1>0. /\ StepsLeft(c) = before /\ StepsLeft(c)' = after
      /\ before \in Int /\ after \in Int
  <2>1. /\ pc[c] \in {"idle", "locking", "loading", "writing", "unlocking"}
        /\ pc'[c] \in {"idle", "locking", "loading", "writing", "unlocking"}
        /\ tries[c] \in 0 .. LockAttempts
        /\ tries'[c] \in 0 .. LockAttempts
    BY DEF TypeOK
  <2>2. before \in 0 .. (4 + LockAttempts) /\ after \in 0 .. (4 + LockAttempts)
    BY <2>1, PlacesHaveSteps
  <2> QED BY <2>2 DEF StepsLeft
<1>1. CASE Progress(c) \/ Failure(c)
  <2>1. StepsLeft(c)' < StepsLeft(c)
    BY <1>1, CallersGetNearer
  <2> HIDE DEF before, after
  <2> QED BY <1>0, <2>1 DEF NearerToTheEnd
<1>2. CASE ~(Progress(c) \/ Failure(c)) /\ ~ \E k \in Kinds : Call(c, k)
  <2>1. pc'[c] = pc[c] /\ tries'[c] = tries[c]
    BY <1>2, OthersLeaveAlone
  <2>2. after = before
    BY <2>1
  <2> HIDE DEF before, after
  <2> QED BY <1>0, <1>2, <2>2 DEF NearerToTheEnd
<1>3. CASE ~(Progress(c) \/ Failure(c)) /\ \E k \in Kinds : Call(c, k)
  BY <1>3 DEF NearerToTheEnd
<1> QED BY <1>1, <1>2, <1>3

\* Once called, an operation on a ledger file makes at most LockAttempts + 4
\* steps, and no other process can make it take more: nobody waits for the
\* holder of the lock, a crashed one included.
THEOREM CallsAreBoundedTheorem ==
    FileSpec => []StepsAreBounded /\ [][\A c \in Callers : NearerToTheEnd(c)]_fileVars
<1>1. FileInv => TypeOK /\ StepsAreBounded
  <2>1. TypeOK => StepsAreBounded
    <3> SUFFICES ASSUME TypeOK, NEW c \in Callers
                 PROVE  /\ StepsLeft(c) \in 0 .. (4 + LockAttempts)
                        /\ StepsLeft(c) = 0 <=> pc[c] = "idle"
      BY DEF StepsAreBounded
    <3>1. /\ pc[c] \in {"idle", "locking", "loading", "writing", "unlocking"}
          /\ tries[c] \in 0 .. LockAttempts
      BY DEF TypeOK
    <3>2. /\ StepsFrom(pc[c], tries[c]) \in 0 .. (4 + LockAttempts)
          /\ pc[c] = "idle" => StepsFrom(pc[c], tries[c]) = 0
          /\ pc[c] # "idle" => StepsFrom(pc[c], tries[c]) > 0
      BY <3>1, PlacesHaveSteps
    <3> QED BY <3>2 DEF StepsLeft
  <2> QED BY <2>1 DEF FileInv
<1>2. TypeOK /\ TypeOK' /\ [FileNext]_fileVars => [\A c \in Callers : NearerToTheEnd(c)]_fileVars
  BY NearerStep
<1> QED BY <1>1, <1>2, FileInvHolds, PTL DEF FileSpec

-----------------------------------------------------------------------------
(* Sums over finite sets.  The community modules sum a set by a recursive  *)
(* function that takes out any member first; that such a function exists,  *)
(* and that the order does not matter, is proved by the smallest           *)
(* counterexample. *)

\* What the recursive function of MapThenSumSet makes of a set.
NextTerm(g, val, T) ==
    IF T = {} THEN 0 ELSE LET x == CHOOSE x \in T : TRUE IN val[x] + g[T \ {x}]

\* g sums the values of every subset of S.
IsSum(g, val, S) == g = [T \in SUBSET S |-> NextTerm(g, val, T)]

\* The sets up to a size.
Subsets(S, n) == {T \in SUBSET S : Cardinality(T) <= n}

\* g sums the values of the subsets of S up to a size.
IsSumUpTo(g, val, S, n) == g = [T \in Subsets(S, n) |-> NextTerm(g, val, T)]

\* A set of naturals has a least member.
LEMMA LeastOfNat ==
    ASSUME NEW S, S \subseteq Nat, S # {}
    PROVE  \E n \in S : \A m \in S : n <= m
<1>1. PICK n \in S : \A m \in S : ~(<<m, n>> \in OpToRel(<, Nat))
  BY NatLessThanWellFounded, WFMin
<1>2. \A m \in S : ~(m < n)
  BY <1>1, Zenon DEF OpToRel
<1> QED BY <1>2

\* A finite set is smaller without one of its members.
LEMMA SmallerSet ==
    ASSUME NEW T, IsFiniteSet(T), T # {}
    PROVE  LET x == CHOOSE x \in T : TRUE IN
           /\ x \in T
           /\ IsFiniteSet(T \ {x})
           /\ Cardinality(T) \in Nat
           /\ Cardinality(T \ {x}) = Cardinality(T) - 1
           /\ Cardinality(T \ {x}) \in Nat
<1> DEFINE x == CHOOSE x \in T : TRUE
<1>1. x \in T
  OBVIOUS
<1> HIDE DEF x
<1>2. IsFiniteSet(T \ {x}) /\ Cardinality(T \ {x}) = Cardinality(T) - 1
  BY <1>1, FS_RemoveElement
<1>3. Cardinality(T) \in Nat /\ Cardinality(T \ {x}) \in Nat
  BY <1>2, FS_CardinalityType
<1> QED BY <1>1, <1>2, <1>3 DEF x

\* There is a sum of the subsets up to any size ...
LEMMA SumUpToExists ==
    ASSUME NEW val, NEW S, IsFiniteSet(S), NEW n \in Nat
    PROVE  \E g : IsSumUpTo(g, val, S, n)
<1> DEFINE Missing == {m \in Nat : ~\E g : IsSumUpTo(g, val, S, m)}
<1>1. SUFFICES ASSUME Missing # {} PROVE FALSE
  OBVIOUS
<1>2. PICK m \in Missing : \A k \in Missing : m <= k
  BY <1>1, LeastOfNat
<1>3. \A T \in SUBSET S : IsFiniteSet(T) /\ Cardinality(T) \in Nat
  BY FS_Subset, FS_CardinalityType
<1>4. CASE m = 0
  <2> DEFINE g == [T \in Subsets(S, 0) |-> 0]
  <2>1. \A T \in Subsets(S, 0) : T = {}
    BY <1>3, FS_EmptySet DEF Subsets
  <2>2. IsSumUpTo(g, val, S, 0)
    BY <2>1 DEF IsSumUpTo, NextTerm
  <2> QED BY <1>4, <2>2
<1>5. CASE m # 0
  <2>1. m - 1 \in Nat /\ m - 1 \notin Missing
    BY <1>2, <1>5
  <2>2. PICK g : IsSumUpTo(g, val, S, m - 1)
    BY <2>1
  <2> DEFINE h == [T \in Subsets(S, m) |-> NextTerm(g, val, T)]
  <2>3. ASSUME NEW T \in Subsets(S, m)
        PROVE  NextTerm(g, val, T) = NextTerm(h, val, T)
    <3> DEFINE x == CHOOSE x \in T : TRUE
    <3>1. CASE T = {}
      BY <3>1 DEF NextTerm
    <3>2. CASE T # {}
      <4>1. T \ {x} \in Subsets(S, m - 1) /\ T \ {x} \in Subsets(S, m)
        BY <1>3, <3>2, SmallerSet DEF Subsets
      <4>2. g[T \ {x}] = NextTerm(g, val, T \ {x})
        BY <2>2, <4>1 DEF IsSumUpTo
      <4>3. h[T \ {x}] = NextTerm(g, val, T \ {x})
        BY <4>1
      <4> HIDE DEF h
      <4> QED BY <3>2, <4>2, <4>3 DEF NextTerm
    <3> QED BY <3>1, <3>2
  <2>4. h = [T \in Subsets(S, m) |-> NextTerm(h, val, T)]
    <3> DEFINE k == [T \in Subsets(S, m) |-> NextTerm(h, val, T)]
    <3>1. \A T \in Subsets(S, m) : h[T] = k[T]
      BY <2>3
    <3> QED BY <3>1
  <2> HIDE DEF h
  <2>5. IsSumUpTo(h, val, S, m)
    BY <2>4 DEF IsSumUpTo
  <2> QED BY <2>5
<1> QED BY <1>4, <1>5

\* ... and so of all.
LEMMA SumExists ==
    ASSUME NEW val, NEW S, IsFiniteSet(S)
    PROVE  \E g : IsSum(g, val, S)
<1>1. Cardinality(S) \in Nat
  BY FS_CardinalityType
<1>2. Subsets(S, Cardinality(S)) = SUBSET S
  BY FS_Subset, FS_CardinalityType DEF Subsets
<1>3. PICK g : IsSumUpTo(g, val, S, Cardinality(S))
  BY <1>1, SumUpToExists
<1> QED BY <1>2, <1>3 DEF IsSum, IsSumUpTo
\* The sum of the values of a finite set is of Nat, and whatever member is
\* taken out of it first is of no account.
LEMMA SumTakesOut ==
    ASSUME NEW val, NEW S, IsFiniteSet(S), \A x \in S : val[x] \in Nat,
           NEW g, IsSum(g, val, S)
    PROVE  \A T \in SUBSET S :
               /\ g[T] \in Nat
               /\ \A y \in T : g[T] = val[y] + g[T \ {y}]
<1> DEFINE Good(T) == /\ g[T] \in Nat
                      /\ \A y \in T : g[T] = val[y] + g[T \ {y}]
           Bad == {T \in SUBSET S : ~Good(T)}
           Sizes == {Cardinality(T) : T \in Bad}
<1>1. SUFFICES ASSUME Bad # {} PROVE FALSE
  OBVIOUS
<1>2. \A T \in SUBSET S : IsFiniteSet(T) /\ Cardinality(T) \in Nat
  BY FS_Subset, FS_CardinalityType
<1>3. Sizes \subseteq Nat /\ Sizes # {}
  BY <1>1, <1>2
<1>4. PICK n \in Sizes : \A m \in Sizes : n <= m
  BY <1>3, LeastOfNat
<1>5. PICK T \in Bad : Cardinality(T) = n
  BY <1>4
<1>6. ASSUME NEW R \in SUBSET S, Cardinality(R) < Cardinality(T) PROVE Good(R)
  <2>1. Cardinality(R) \notin Sizes
    BY <1>2, <1>3, <1>4, <1>5, <1>6
  <2> QED BY <2>1
<1>7. CASE T = {}
  BY <1>5, <1>7 DEF IsSum, NextTerm
<1>8. CASE T # {}
  <2> DEFINE x == CHOOSE x \in T : TRUE
  <2>1. /\ x \in T /\ T \in SUBSET S
        /\ T \ {x} \in SUBSET S
        /\ Cardinality(T \ {x}) < Cardinality(T)
    BY <1>2, <1>5, <1>8, SmallerSet
  <2>2. g[T] = val[x] + g[T \ {x}]
    BY <1>8, <2>1 DEF IsSum, NextTerm
  <2>3. Good(T \ {x})
    BY <1>6, <2>1
  <2> HIDE DEF x
  <2>4. g[T] \in Nat
    BY <2>1, <2>2, <2>3
  <2>5. ASSUME NEW y \in T PROVE g[T] = val[y] + g[T \ {y}]
    <3>1. CASE y = x
      BY <2>2, <3>1
    <3>2. CASE y # x
      <4>1. /\ T \ {y} \in SUBSET S
            /\ Cardinality(T \ {y}) < Cardinality(T)
        BY <1>2, <2>1, FS_RemoveElement
      <4>2. g[T \ {x}] = val[y] + g[(T \ {x}) \ {y}]
        BY <2>3, <3>2
      <4>3. g[T \ {y}] = val[x] + g[(T \ {y}) \ {x}]
        BY <1>6, <2>1, <3>2, <4>1
      <4>4. (T \ {x}) \ {y} = (T \ {y}) \ {x}
        OBVIOUS
      <4>5. g[(T \ {x}) \ {y}] \in Nat
        <5>1. (T \ {x}) \ {y} \in SUBSET S
          BY <2>1
        <5>2. /\ IsFiniteSet(T \ {x}) /\ y \in T \ {x}
              /\ Cardinality(T \ {x}) \in Nat
              /\ Cardinality((T \ {x}) \ {y}) \in Nat
          BY <1>2, <2>1, <3>2, <5>1
        <5>3. Cardinality((T \ {x}) \ {y}) < Cardinality(T \ {x})
          <6>1. Cardinality((T \ {x}) \ {y}) = Cardinality(T \ {x}) - 1
            BY <5>2, FS_RemoveElement, Zenon
          <6> QED BY <5>2, <6>1
        <5>4. Cardinality((T \ {x}) \ {y}) < Cardinality(T)
          BY <1>2, <2>1, <5>2, <5>3
        <5> QED BY <1>6, <5>1, <5>4
      <4>6. val[x] \in Nat /\ val[y] \in Nat
        BY <2>1
      <4>7. /\ g[T] = val[x] + (val[y] + g[(T \ {x}) \ {y}])
            /\ g[T \ {y}] = val[x] + g[(T \ {x}) \ {y}]
        BY <2>2, <4>2, <4>3, <4>4
      <4> QED BY <4>5, <4>6, <4>7
    <3> QED BY <3>1, <3>2
  <2> QED BY <1>5, <2>4, <2>5
<1> QED BY <1>7, <1>8

\* A sum is at most that of a set whose values are no smaller.
LEMMA SumIsMonotonic ==
    ASSUME NEW v, NEW S, NEW g, IsFiniteSet(S), \A x \in S : v[x] \in Nat, IsSum(g, v, S),
           NEW w, NEW R, NEW h, IsFiniteSet(R), \A x \in R : w[x] \in Nat, IsSum(h, w, R),
           NEW U, U \subseteq S, U \subseteq R, \A x \in U : v[x] <= w[x]
    PROVE  g[U] <= h[U]
<1> DEFINE Bad == {T \in SUBSET U : ~(g[T] <= h[T])}
           Sizes == {Cardinality(T) : T \in Bad}
<1>1. SUFFICES ASSUME Bad # {} PROVE FALSE
  OBVIOUS
<1>2. \A T \in SUBSET U : IsFiniteSet(T) /\ Cardinality(T) \in Nat
  BY FS_Subset, FS_CardinalityType
<1>3. Sizes \subseteq Nat /\ Sizes # {}
  BY <1>1, <1>2
<1>4. PICK n \in Sizes : \A m \in Sizes : n <= m
  BY <1>3, LeastOfNat
<1>5. PICK T \in Bad : Cardinality(T) = n
  BY <1>4
<1>6. CASE T = {}
  BY <1>5, <1>6 DEF IsSum, NextTerm
<1>7. CASE T # {}
  <2>1. PICK x \in T : TRUE
    BY <1>7
  <2>2. /\ T \in SUBSET S /\ T \in SUBSET R
        /\ T \ {x} \in SUBSET U
        /\ Cardinality(T \ {x}) < Cardinality(T)
    BY <1>2, <1>5, <2>1, FS_RemoveElement
  <2>3. g[T \ {x}] <= h[T \ {x}]
    BY <1>2, <1>4, <1>5, <2>2
  <2>4. g[T] = v[x] + g[T \ {x}] /\ g[T \ {x}] \in Nat
    <3>1. T \ {x} \in SUBSET S
      BY <2>2
    <3> QED BY <2>1, <2>2, <3>1, SumTakesOut
  <2>5. h[T] = w[x] + h[T \ {x}] /\ h[T \ {x}] \in Nat
    <3>1. T \ {x} \in SUBSET R
      BY <2>2
    <3> QED BY <2>1, <2>2, <3>1, SumTakesOut
  <2>6. v[x] \in Nat /\ w[x] \in Nat /\ v[x] <= w[x]
    BY <1>5, <2>1
  <2>7. g[T] <= h[T]
    BY <2>3, <2>4, <2>5, <2>6
  <2> QED BY <1>5, <2>7
<1> QED BY <1>6, <1>7

\* A larger set has no smaller sum.
LEMMA SumOfSubset ==
    ASSUME NEW val, NEW S, NEW g, IsFiniteSet(S), \A x \in S : val[x] \in Nat, IsSum(g, val, S),
           NEW U, U \subseteq S
    PROVE  g[U] <= g[S]
<1> DEFINE Bad == {T \in SUBSET S : U \subseteq T /\ ~(g[U] <= g[T])}
           Sizes == {Cardinality(T) : T \in Bad}
<1>1. SUFFICES ASSUME Bad # {} PROVE FALSE
  OBVIOUS
<1>2. \A T \in SUBSET S : IsFiniteSet(T) /\ Cardinality(T) \in Nat
  BY FS_Subset, FS_CardinalityType
<1>3. Sizes \subseteq Nat /\ Sizes # {}
  BY <1>1, <1>2
<1>4. PICK n \in Sizes : \A m \in Sizes : n <= m
  BY <1>3, LeastOfNat
<1>5. PICK T \in Bad : Cardinality(T) = n
  BY <1>4
<1>6. \A R \in SUBSET S : g[R] \in Nat
  BY SumTakesOut
<1>7. PICK x \in T : x \notin U
  <2>1. T # U
    BY <1>5, <1>6
  <2> QED BY <1>5, <2>1
<1>8. /\ T \in SUBSET S /\ T \ {x} \in SUBSET S /\ U \subseteq T \ {x}
      /\ Cardinality(T \ {x}) < Cardinality(T)
  BY <1>2, <1>5, <1>7, FS_RemoveElement
<1>9. g[U] <= g[T \ {x}]
  BY <1>2, <1>4, <1>5, <1>8
<1>10. g[T] = val[x] + g[T \ {x}]
  BY <1>7, <1>8, SumTakesOut
<1>11. val[x] \in Nat /\ g[U] \in Nat /\ g[T \ {x}] \in Nat
  BY <1>5, <1>6, <1>8
<1>12. g[U] <= g[T]
  BY <1>9, <1>10, <1>11
<1> QED BY <1>5, <1>12

-----------------------------------------------------------------------------
(* The shadow run: any caps, plans and reservations and any number of runs, *)
(* however the provider answers. *)

\* A ledger value, in which a usage of unknown cost has stopped the spending.
BudgetSound(L) ==
    /\ L = [ reservations |-> L.reservations, usages |-> L.usages,
             released |-> L.released, stop |-> L.stop ]
    /\ L.reservations \in Seq(Reserved(L))
    /\ \A id \in DOMAIN L.usages : ~L.usages[id].resolved => L.stop # Open

\* M has the reservations of L, and released no others.
SameReservations(L, M) ==
    M.reservations = L.reservations /\ M.released = L.released

IsHeld(L, r) == r \in Reserved(L) /\ r.id \notin L.released

\* Whoever is called has a reservation that nobody releases any more.
AttemptedIsHeld ==
    \A id \in CallIds : attempts[id] > 0 =>
        \E r \in Reserved(ledger) : r.id = id /\ IsHeld(ledger, r)

\* A run is at a call of its plan, all of whose reservations are held, on a
\* ledger that was open when it began.
RunIsHeld ==
    run # NoValue =>
        /\ run = [ plan |-> run.plan, index |-> run.index,
                   attempt |-> run.attempt, after |-> run.after ]
        /\ run.plan \in Plans
        /\ run.index \in DOMAIN run.plan.calls
        /\ run.attempt = 0 \/ run.attempt \in DOMAIN CurrentCall.attempts
        /\ ledger.stop = Open
        /\ BudgetSound(run.after)
        /\ SameReservations(ledger, run.after)
        /\ \A r \in ReservationsOf(run.plan) : IsHeld(ledger, r)

ShadowInv ==
    /\ BudgetSound(ledger)
    /\ attempts \in [CallIds -> Nat]
    /\ AttemptedIsHeld
    /\ RunIsHeld

-----------------------------------------------------------------------------
(* The operations of the budget. *)

\* A reservation is appended or was there.
LEMMA ReserveIsSound ==
    ASSUME NEW L, BudgetSound(L), NEW r
    PROVE  LET M == AfterReserve(L, r) IN
           /\ BudgetSound(M)
           /\ M.released = L.released
           /\ M.stop = L.stop
           /\ Reserved(L) \subseteq Reserved(M)
<1> DEFINE M == AfterReserve(L, r)
<1>1. CASE IsRepeated(L, r)
  BY <1>1 DEF AfterReserve
<1>2. CASE ~IsRepeated(L, r)
  <2> DEFINE more == Append(L.reservations, r)
  <2>1. /\ M = [ reservations |-> more, usages |-> L.usages,
                 released |-> L.released, stop |-> L.stop ]
        /\ M.reservations = more
    BY <1>2 DEF AfterReserve, BudgetSound
  <2>2. /\ L.reservations \in Seq(Reserved(L) \cup {r})
        /\ more \in Seq(Reserved(L) \cup {r})
        /\ Len(more) = Len(L.reservations) + 1
        /\ \A i \in DOMAIN L.reservations : i \in DOMAIN more /\ more[i] = L.reservations[i]
    BY DEF BudgetSound
  <2>3. Reserved(L) \subseteq Reserved(M)
    BY <2>1, <2>2 DEF Reserved, Range
  <2>4. more \in Seq(Reserved(M))
    BY <2>1, <2>2 DEF Reserved, Range
  <2>5. /\ M.usages = L.usages /\ M.released = L.released /\ M.stop = L.stop
        /\ M.reservations = more
    BY <2>1
  <2> HIDE DEF M, more
  <2>6. BudgetSound(M)
    BY <2>1, <2>4, <2>5 DEF BudgetSound
  <2> QED BY <2>3, <2>5, <2>6 DEF M
<1> QED BY <1>1, <1>2

\* What a usage leaves of a ledger.
LEMMA UsageFields ==
    ASSUME NEW L, BudgetSound(L), NEW r, NEW amounts
    PROVE  /\ AfterCommit(L, r, amounts) =
                  [ reservations |-> L.reservations, usages |-> WithUsage(L, r, Usage(amounts)),
                    released |-> L.released, stop |-> L.stop ]
           /\ AfterUncertain(L, r) =
                  [ reservations |-> L.reservations, usages |-> WithUsage(L, r, Uncertain),
                    released |-> L.released, stop |-> Reconcile ]
<1>0. L = [ reservations |-> L.reservations, usages |-> L.usages,
             released |-> L.released, stop |-> L.stop ]
  BY DEF BudgetSound
<1> DEFINE paid == WithUsage(L, r, Usage(amounts))
           unknown == WithUsage(L, r, Uncertain)
<1>1. /\ AfterCommit(L, r, amounts) = [L EXCEPT !.usages = paid]
      /\ AfterUncertain(L, r) = [L EXCEPT !.usages = unknown, !.stop = Reconcile]
  BY DEF AfterCommit, AfterUncertain
<1> HIDE DEF paid, unknown
<1>2. [L EXCEPT !.usages = paid] =
          [ reservations |-> L.reservations, usages |-> paid,
            released |-> L.released, stop |-> L.stop ]
  BY <1>0
<1>3. [L EXCEPT !.usages = unknown, !.stop = Reconcile] =
          [ reservations |-> L.reservations, usages |-> unknown,
            released |-> L.released, stop |-> Reconcile ]
  <2> DEFINE used == [ reservations |-> L.reservations, usages |-> unknown,
                       released |-> L.released, stop |-> L.stop ]
  <2>1. [L EXCEPT !.usages = unknown] = used
    BY <1>0
  <2>2. [used EXCEPT !.stop = Reconcile] =
            [ reservations |-> L.reservations, usages |-> unknown,
              released |-> L.released, stop |-> Reconcile ]
    OBVIOUS
  <2> HIDE DEF used
  <2> QED BY <2>1, <2>2
<1> QED BY <1>1, <1>2, <1>3 DEF paid, unknown

\* A usage settles a reservation or stops the spending.
LEMMA UsageIsSound ==
    ASSUME NEW L, BudgetSound(L), NEW r, NEW amounts
    PROVE  /\ BudgetSound(AfterCommit(L, r, amounts))
           /\ SameReservations(L, AfterCommit(L, r, amounts))
           /\ BudgetSound(AfterUncertain(L, r))
           /\ SameReservations(L, AfterUncertain(L, r))
<1>1. /\ AfterCommit(L, r, amounts) =
             [ reservations |-> L.reservations, usages |-> WithUsage(L, r, Usage(amounts)),
               released |-> L.released, stop |-> L.stop ]
      /\ AfterUncertain(L, r) =
             [ reservations |-> L.reservations, usages |-> WithUsage(L, r, Uncertain),
               released |-> L.released, stop |-> Reconcile ]
  BY UsageFields
<1>2. \A id \in DOMAIN WithUsage(L, r, Usage(amounts)) :
          ~WithUsage(L, r, Usage(amounts))[id].resolved => L.stop # Open
  BY DEF BudgetSound, WithUsage, Usage
<1>3. Reconcile # Open
  BY DEF Reconcile, Open
<1> HIDE DEF WithUsage
<1> QED BY <1>1, <1>2, <1>3 DEF BudgetSound, SameReservations, Reserved

-----------------------------------------------------------------------------
(* Every step keeps the invariant. *)

\* The caller's ledger grows between runs.
LEMMA CallerKeepsHeld ==
    ASSUME ShadowInv, run = NoValue, UNCHANGED <<run, attempts>>,
           BudgetSound(ledger'), Reserved(ledger) \subseteq Reserved(ledger'),
           \A id \in CallIds : attempts[id] > 0 /\ id \in ledger'.released => id \in ledger.released
    PROVE  ShadowInv'
<1>1. AttemptedIsHeld'
  BY DEF ShadowInv, AttemptedIsHeld, IsHeld, Reserved
<1>2. RunIsHeld'
  BY DEF RunIsHeld
<1> QED BY <1>1, <1>2 DEF ShadowInv, BudgetSound, Reserved

LEMMA CallerKeepsInv ==
    ASSUME ShadowInv,
           \/ \E request \in Requests : Reserve(request)
           \/ \E r \in Escalations : ReserveEscalation(r)
           \/ \E r \in Reserved(ledger) : ReleaseCall(r)
           \/ ActivateHardStop
    PROVE  ShadowInv'
<1>0. BudgetSound(ledger)
  BY DEF ShadowInv
<1>1. ASSUME NEW request \in Requests, Reserve(request)
      PROVE  ShadowInv'
  <2> DEFINE first == AfterReserve(ledger, request[1])
             both == AfterReserve(first, request[2])
  <2>1. /\ BudgetSound(first) /\ first.released = ledger.released
        /\ Reserved(ledger) \subseteq Reserved(first)
    BY <1>0, ReserveIsSound
  <2>2. /\ BudgetSound(both) /\ both.released = first.released
        /\ Reserved(first) \subseteq Reserved(both)
    <3> HIDE DEF first
    <3> QED BY <2>1, ReserveIsSound
  <2>3. ledger' = first \/ ledger' = both
    BY <1>1 DEF Reserve
  <2> HIDE DEF first, both
  <2>4. run = NoValue /\ UNCHANGED <<run, attempts>>
    BY <1>1 DEF Reserve
  <2>5. /\ BudgetSound(ledger') /\ ledger'.released = ledger.released
        /\ Reserved(ledger) \subseteq Reserved(ledger')
    BY <2>1, <2>2, <2>3
  <2> QED BY <2>4, <2>5, CallerKeepsHeld
<1>2. ASSUME NEW r \in Escalations, ReserveEscalation(r)
      PROVE  ShadowInv'
  <2>1. /\ ledger' = AfterReserve(ledger, Escalation(ledger, r))
        /\ run = NoValue /\ UNCHANGED <<run, attempts>>
    BY <1>2 DEF ReserveEscalation
  <2>2. /\ BudgetSound(ledger') /\ ledger'.released = ledger.released
        /\ Reserved(ledger) \subseteq Reserved(ledger')
    BY <1>0, <2>1, ReserveIsSound
  <2> QED BY <2>1, <2>2, CallerKeepsHeld
<1>3. ASSUME NEW r \in Reserved(ledger), ReleaseCall(r)
      PROVE  ShadowInv'
  <2>1. /\ run = NoValue /\ UNCHANGED <<run, attempts>>
        /\ attempts[r.id] = 0
        /\ ledger' = [ reservations |-> ledger.reservations, usages |-> ledger.usages,
                       released |-> ledger.released \cup {r.id}, stop |-> ledger.stop ]
    BY <1>0, <1>3 DEF ReleaseCall, AfterRelease, BudgetSound
  <2>2. BudgetSound(ledger') /\ Reserved(ledger') = Reserved(ledger)
    BY <1>0, <2>1 DEF BudgetSound, Reserved
  <2>3. \A id \in CallIds :
            attempts[id] > 0 /\ id \in ledger'.released => id \in ledger.released
    BY <2>1
  <2> QED BY <2>1, <2>2, <2>3, CallerKeepsHeld
<1>4. CASE ActivateHardStop
  <2>1. /\ run = NoValue /\ UNCHANGED <<run, attempts>>
        /\ ledger' = [ reservations |-> ledger.reservations, usages |-> ledger.usages,
                       released |-> ledger.released, stop |-> HardStop ]
    BY <1>0, <1>4 DEF ActivateHardStop, AfterHardStop, BudgetSound
  <2>2. BudgetSound(ledger') /\ Reserved(ledger') = Reserved(ledger)
    BY <1>0, <2>1 DEF BudgetSound, Reserved, HardStop, Open
  <2> QED BY <2>1, <2>2, CallerKeepsHeld
<1> QED BY <1>1, <1>2, <1>3, <1>4

\* A plan is a non-empty sequence of calls.
LEMMA PlanShape ==
    ASSUME NEW plan \in Plans
    PROVE  /\ plan.calls \in Seq(Range(plan.calls))
           /\ 1 \in DOMAIN plan.calls
           /\ \A i \in DOMAIN plan.calls : IsCall(plan.calls[i], plan.run)
<1>1. IsPlan(plan)
  BY PlanAssumption
<1>2. /\ plan.calls \in Seq(Range(plan.calls))
      /\ [i \in DOMAIN plan.calls |-> plan.calls[i].attempts[1].model] \in RouteGraphs
      /\ \A i \in DOMAIN plan.calls : IsCall(plan.calls[i], plan.run)
  BY <1>1, Zenon DEF IsPlan
<1>3. \A graph \in RouteGraphs : 1 \in DOMAIN graph
  BY DEF RouteGraphs
<1> QED BY <1>2, <1>3

\* A call has a first attempt, and one after each that is not its last.
LEMMA CallPositions ==
    ASSUME NEW planned, NEW runId, IsCall(planned, runId)
    PROVE  /\ 1 \in DOMAIN planned.attempts
           /\ \A i \in DOMAIN planned.attempts :
                 i < Len(planned.attempts) => i + 1 \in DOMAIN planned.attempts
<1> DEFINE s == planned.attempts
<1>1. s \in Seq(Range(s)) /\ Len(s) \in 1 .. 2
  BY DEF IsCall
<1> HIDE DEF s
<1>2. DOMAIN s = 1 .. Len(s)
  BY <1>1
<1>3. 1 \in DOMAIN s /\ \A i \in DOMAIN s : i < Len(s) => i + 1 \in DOMAIN s
  BY <1>1, <1>2
<1> QED BY <1>3 DEF s

\* A run begins with what the preflight found.
LEMMA PlanKeepsInv ==
    ASSUME ShadowInv, NEW plan \in Plans, Deny(plan) \/ BeginPlan(plan)
    PROVE  ShadowInv'
<1>1. CASE Deny(plan)
  BY <1>1 DEF Deny, ShadowInv, BudgetSound, AttemptedIsHeld, RunIsHeld, IsHeld, Reserved
<1>2. CASE BeginPlan(plan)
  <2>1. /\ run' = [plan |-> plan, index |-> 1, attempt |-> 0, after |-> ledger]
        /\ UNCHANGED <<ledger, attempts>>
        /\ Preflight(ledger, plan)
    BY <1>2 DEF BeginPlan
  <2>2. /\ ledger.stop = Open
        /\ \A r \in ReservationsOf(plan) : IsHeld(ledger, r)
    BY <2>1 DEF Preflight, IsAuthorized, Active, IsHeld
  <2>3. 1 \in DOMAIN plan.calls
    BY PlanShape
  <2>4. RunIsHeld'
    BY <2>1, <2>2, <2>3 DEF RunIsHeld, ShadowInv, SameReservations, IsHeld, Reserved, BudgetSound
  <2> QED BY <2>1, <2>4 DEF ShadowInv, BudgetSound, AttemptedIsHeld, IsHeld, Reserved
<1> QED BY <1>1, <1>2

\* What is attempted is held.
LEMMA AttemptIsHeld ==
    ASSUME ShadowInv, Attempt
    PROVE  /\ attempts' \in [CallIds -> Nat]
           /\ IsHeld(ledger, CurrentAttempt)
           /\ \A id \in CallIds : attempts'[id] > 0 =>
                  \E r \in Reserved(ledger) : r.id = id /\ IsHeld(ledger, r)
<1>1. CurrentAttempt \in ReservationsOf(run.plan)
  <2>1. /\ run.index \in DOMAIN run.plan.calls
        /\ run.attempt \in DOMAIN CurrentCall.attempts
    BY DEF Attempt, ShadowInv, RunIsHeld
  <2>2. CurrentAttempt \in Range(CurrentCall.attempts)
    BY <2>1 DEF CurrentAttempt, Range
  <2> QED BY <2>1, <2>2 DEF ReservationsOf, CurrentCall
<1>2. IsHeld(ledger, CurrentAttempt)
  BY <1>1 DEF Attempt, ShadowInv, RunIsHeld
<1> DEFINE asked == CurrentAttempt.id
<1>3. /\ attempts' = [attempts EXCEPT ![asked] = @ + 1]
      /\ attempts \in [CallIds -> Nat]
  BY DEF Attempt, ShadowInv
<1> HIDE DEF asked
<1> HIDE DEF CallIds
<1>4. /\ attempts' \in [CallIds -> Nat]
      /\ \A id \in CallIds : id # asked => attempts'[id] = attempts[id]
  <2>1. CASE asked \in CallIds
    BY <1>3, <2>1
  <2>2. CASE asked \notin CallIds
    BY <1>3, <2>2
  <2> QED BY <2>1, <2>2
<1>5. ASSUME NEW id \in CallIds, attempts'[id] > 0
      PROVE  \E r \in Reserved(ledger) : r.id = id /\ IsHeld(ledger, r)
  <2>1. CASE id = asked
    BY <1>2, <2>1 DEF asked, IsHeld
  <2>2. CASE id # asked
    BY <1>4, <1>5, <2>2 DEF ShadowInv, AttemptedIsHeld
  <2> QED BY <2>1, <2>2
<1> QED BY <1>2, <1>4, <1>5

\* A run that is over leaves the ledger it was given or the one it asked.
LEMMA RunEndsSoundly ==
    ASSUME ShadowInv, run' = NoValue, BudgetSound(ledger'),
           SameReservations(ledger, ledger'),
           attempts' \in [CallIds -> Nat],
           \A id \in CallIds : attempts'[id] > 0 =>
               \E r \in Reserved(ledger) : r.id = id /\ IsHeld(ledger, r)
    PROVE  ShadowInv'
<1>1. AttemptedIsHeld'
  BY DEF AttemptedIsHeld, IsHeld, Reserved, SameReservations
<1>2. RunIsHeld'
  BY DEF RunIsHeld
<1> QED BY <1>1, <1>2 DEF ShadowInv, BudgetSound, Reserved

\* A run that goes on stays within its plan.
LEMMA RunGoesOnSoundly ==
    ASSUME ShadowInv, run # NoValue, UNCHANGED ledger,
           NEW index, NEW attempt, NEW after,
           run' = [plan |-> run.plan, index |-> index, attempt |-> attempt, after |-> after],
           index \in DOMAIN run.plan.calls,
           attempt = 0 \/ attempt \in DOMAIN run.plan.calls[index].attempts,
           BudgetSound(after), SameReservations(ledger, after),
           attempts' \in [CallIds -> Nat],
           \A id \in CallIds : attempts'[id] > 0 =>
               \E r \in Reserved(ledger) : r.id = id /\ IsHeld(ledger, r)
    PROVE  ShadowInv'
<1>1. AttemptedIsHeld'
  BY DEF AttemptedIsHeld, IsHeld, Reserved
<1>2. RunIsHeld'
  BY DEF ShadowInv, RunIsHeld, CurrentCall, SameReservations, IsHeld, Reserved, BudgetSound
<1> QED BY <1>1, <1>2 DEF ShadowInv, BudgetSound, Reserved

\* The steps of a run between calls of the transport.
LEMMA InvocationKeepsInv ==
    ASSUME ShadowInv, InvocationRaises \/ CircuitIsOpen \/ Invoke
    PROVE  ShadowInv'
<1>0. /\ run # NoValue /\ UNCHANGED attempts
      /\ attempts' \in [CallIds -> Nat]
      /\ \A id \in CallIds : attempts'[id] > 0 =>
             \E r \in Reserved(ledger) : r.id = id /\ IsHeld(ledger, r)
  BY DEF InvocationRaises, CircuitIsOpen, Invoke, ShadowInv, AttemptedIsHeld
<1>1. CASE InvocationRaises
  <2>1. run' = NoValue /\ ledger' = ledger
    BY <1>1 DEF InvocationRaises, Raise
  <2>2. BudgetSound(ledger') /\ SameReservations(ledger, ledger')
    BY <2>1 DEF ShadowInv, SameReservations
  <2> QED BY <1>0, <2>1, <2>2, RunEndsSoundly
<1>2. CASE CircuitIsOpen
  <2>1. run' = NoValue /\ ledger' = run.after
    BY <1>2 DEF CircuitIsOpen, End
  <2>2. BudgetSound(ledger') /\ SameReservations(ledger, ledger')
    BY <1>0, <2>1 DEF ShadowInv, RunIsHeld
  <2> QED BY <1>0, <2>1, <2>2, RunEndsSoundly
<1>3. CASE Invoke
  <2>1. /\ run.plan \in Plans /\ run.index \in DOMAIN run.plan.calls
        /\ BudgetSound(run.after) /\ SameReservations(ledger, run.after)
        /\ run' = [ plan |-> run.plan, index |-> run.index,
                    attempt |-> 1, after |-> run.after ]
        /\ UNCHANGED ledger
    BY <1>0, <1>3 DEF Invoke, ShadowInv, RunIsHeld
  <2>2. IsCall(run.plan.calls[run.index], run.plan.run)
    BY <2>1, PlanShape
  <2>3. 1 \in DOMAIN run.plan.calls[run.index].attempts
    BY <2>2, CallPositions
  <2> QED BY <1>0, <2>1, <2>3, RunGoesOnSoundly
<1> QED BY <1>1, <1>2, <1>3

\* A call of the transport, however it ends.
LEMMA AttemptKeepsInv ==
    ASSUME ShadowInv,
           \/ Retry \/ CallFails \/ UsageIsRefused \/ ResponseRaises
           \/ OutcomeIsUncertain
           \/ \E amounts \in Usages : CallSucceeds(amounts)
    PROVE  ShadowInv'
<1>0. Attempt
  BY DEF Retry, CallFails, UsageIsRefused, ResponseRaises, OutcomeIsUncertain, CallSucceeds
<1>1. /\ attempts' \in [CallIds -> Nat]
      /\ \A id \in CallIds : attempts'[id] > 0 =>
             \E r \in Reserved(ledger) : r.id = id /\ IsHeld(ledger, r)
  BY <1>0, AttemptIsHeld
<1>2. /\ run # NoValue
      /\ run.plan \in Plans
      /\ run.index \in DOMAIN run.plan.calls
      /\ run.attempt \in DOMAIN run.plan.calls[run.index].attempts
      /\ BudgetSound(run.after) /\ SameReservations(ledger, run.after)
      /\ run = [ plan |-> run.plan, index |-> run.index,
                 attempt |-> run.attempt, after |-> run.after ]
  BY <1>0 DEF Attempt, ShadowInv, RunIsHeld, CurrentCall
<1>3. /\ run.plan.calls \in Seq(Range(run.plan.calls))
      /\ IsCall(run.plan.calls[run.index], run.plan.run)
  BY <1>2, PlanShape
<1>4. CASE Retry
  <2>1. /\ run.attempt < Len(run.plan.calls[run.index].attempts)
        /\ run' = [ plan |-> run.plan, index |-> run.index,
                    attempt |-> run.attempt + 1, after |-> run.after ]
        /\ UNCHANGED ledger
    BY <1>2, <1>4 DEF Retry, MayRetry, CurrentCall
  <2>2. run.attempt + 1 \in DOMAIN run.plan.calls[run.index].attempts
    BY <1>2, <1>3, <2>1, CallPositions
  <2> QED BY <1>1, <1>2, <2>1, <2>2, RunGoesOnSoundly
<1>5. CASE CallFails \/ UsageIsRefused
  <2>1. run' = NoValue /\ ledger' = run.after
    BY <1>5 DEF CallFails, UsageIsRefused, End
  <2> QED BY <1>1, <1>2, <2>1, RunEndsSoundly
<1>6. CASE ResponseRaises
  <2>1. run' = NoValue /\ ledger' = ledger
    BY <1>6 DEF ResponseRaises, Raise
  <2>2. BudgetSound(ledger') /\ SameReservations(ledger, ledger')
    BY <2>1 DEF ShadowInv, SameReservations
  <2> QED BY <1>1, <2>1, <2>2, RunEndsSoundly
<1>7. CASE OutcomeIsUncertain
  <2>1. run' = NoValue /\ ledger' = AfterUncertain(run.after, CurrentAttempt)
    BY <1>7 DEF OutcomeIsUncertain, End
  <2>2. BudgetSound(ledger') /\ SameReservations(run.after, ledger')
    BY <1>2, <2>1, UsageIsSound
  <2>3. SameReservations(ledger, ledger')
    BY <1>2, <2>2 DEF SameReservations
  <2> QED BY <1>1, <2>1, <2>2, <2>3, RunEndsSoundly
<1>8. ASSUME NEW amounts \in Usages, CallSucceeds(amounts)
      PROVE  ShadowInv'
  <2> DEFINE after == AfterCommit(run.after, CurrentAttempt, amounts)
  <2>1. BudgetSound(after) /\ SameReservations(run.after, after)
    BY <1>2, UsageIsSound
  <2>2. SameReservations(ledger, after)
    BY <1>2, <2>1 DEF SameReservations
  <2>3. CASE run.index = Len(run.plan.calls)
    <3>1. run' = NoValue /\ ledger' = after
      BY <1>8, <2>3 DEF CallSucceeds, End
    <3> HIDE DEF after
    <3> QED BY <1>1, <2>1, <2>2, <3>1, RunEndsSoundly
  <2>4. CASE run.index # Len(run.plan.calls)
    <3>1. /\ run' = [run EXCEPT !.after = after, !.index = @ + 1, !.attempt = 0]
          /\ UNCHANGED ledger
      BY <1>8, <2>4 DEF CallSucceeds
    <3> HIDE DEF after
    <3>2. run' = [plan |-> run.plan, index |-> run.index + 1, attempt |-> 0, after |-> after]
      BY <1>2, <3>1
    <3>3. run.index + 1 \in DOMAIN run.plan.calls
      BY <1>2, <1>3, <2>4
    <3> QED BY <1>1, <1>2, <2>1, <2>2, <3>1, <3>2, <3>3, RunGoesOnSoundly
  <2> QED BY <2>3, <2>4
<1> QED BY <1>4, <1>5, <1>6, <1>7, <1>8

LEMMA ShadowStep ==
    ASSUME ShadowInv, [ShadowNext]_shadowVars
    PROVE  ShadowInv'
<1>1. CASE UNCHANGED shadowVars
  BY <1>1 DEF shadowVars, ShadowInv, BudgetSound, AttemptedIsHeld, RunIsHeld, IsHeld,
              Reserved, SameReservations, CurrentCall
<1>2. CASE ShadowNext
  BY <1>2, CallerKeepsInv, PlanKeepsInv, InvocationKeepsInv, AttemptKeepsInv DEF ShadowNext
<1> QED BY <1>1, <1>2

\* The invariant that the theorems below follow from.
THEOREM ShadowInvHolds == ShadowSpec => []ShadowInv
<1>1. ShadowInit => ShadowInv
  BY DEF ShadowInit, ShadowInv, BudgetSound, EmptyBudget, AttemptedIsHeld, RunIsHeld
<1> QED BY <1>1, ShadowStep, PTL DEF ShadowSpec

\* What a provider may have been paid for stays charged, in the ledger of the
\* run and in the caller's, also when the run raises.
THEOREM EveryAttemptIsChargedTheorem == ShadowSpec => []EveryAttemptIsCharged
<1>1. ASSUME ShadowInv PROVE EveryAttemptIsCharged
  <2> SUFFICES ASSUME NEW L \in Ledgers, NEW id \in CallIds, attempts[id] > 0
               PROVE  \E r \in Reserved(L) : r.id = id /\ (r \in Active(L) \/ IsResolved(L, r))
    BY DEF EveryAttemptIsCharged
  <2>1. SameReservations(ledger, L)
    BY <1>1 DEF Ledgers, ShadowInv, RunIsHeld, SameReservations
  <2>2. PICK r \in Reserved(ledger) : r.id = id /\ IsHeld(ledger, r)
    BY <1>1 DEF ShadowInv, AttemptedIsHeld
  <2>3. r \in Reserved(L) /\ r.id \notin L.released
    BY <2>1, <2>2 DEF SameReservations, IsHeld, Reserved
  <2> QED BY <2>2, <2>3 DEF Active
<1> QED BY <1>1, ShadowInvHolds, PTL

\* After a hard stop or a usage of unknown cost nothing is reserved and no
\* provider is called, and the ledger never opens again.
THEOREM NothingAfterStopTheorem == ShadowSpec => NothingAfterStop
<1> DEFINE Halted == /\ ledger'.reservations = ledger.reservations
                     /\ attempts' = attempts
                     /\ IsStopped(ledger')
<1>1. ASSUME ShadowInv, IsStopped(ledger), ShadowNext
      PROVE  Halted
  <2>0. BudgetSound(ledger) /\ ledger.stop # Open /\ run = NoValue
    BY <1>1 DEF ShadowInv, IsStopped, BudgetSound, RunIsHeld
  <2>1. \A r : CanReserve(ledger, r) => AfterReserve(ledger, r) = ledger
    BY <2>0 DEF CanReserve, AfterReserve
  <2>2. ASSUME NEW request \in Requests, Reserve(request) PROVE Halted
    BY <1>1, <2>1, <2>2 DEF Reserve
  <2>3. ASSUME NEW r \in Escalations, ReserveEscalation(r) PROVE Halted
    BY <1>1, <2>1, <2>3 DEF ReserveEscalation
  <2>4. ASSUME NEW r, ReleaseCall(r) PROVE Halted
    BY <2>0, <2>4 DEF ReleaseCall, AfterRelease, BudgetSound, IsStopped
  <2>5. CASE ActivateHardStop
    BY <2>0, <2>5 DEF ActivateHardStop, AfterHardStop, BudgetSound, IsStopped, HardStop, Open
  <2>6. ASSUME NEW plan \in Plans, Deny(plan) \/ BeginPlan(plan) PROVE Halted
    BY <1>1, <2>0, <2>6 DEF Deny, BeginPlan, Preflight
  <2> QED BY <1>1, <2>0, <2>2, <2>3, <2>4, <2>5, <2>6
          DEF ShadowNext, InvocationRaises, CircuitIsOpen, Invoke, Retry, CallFails,
              CallSucceeds, UsageIsRefused, ResponseRaises, OutcomeIsUncertain, Attempt
<1>2. ShadowInv /\ [ShadowNext]_shadowVars =>
          [IsStopped(ledger) => Halted]_shadowVars
  BY <1>1
<1> QED BY <1>2, ShadowInvHolds, PTL DEF ShadowSpec, NothingAfterStop

-----------------------------------------------------------------------------
(* The charges of a budget and its caps. *)

\* What a reservation is charged: what it cost, or what it was reserved for.
Billed(L, m, q) == IF IsResolved(L, q) THEN L.usages[q.id].amounts[m] ELSE q.amounts[m]

\* Who is charged for in the scope s of reservation r.
Charged(L, s, r) ==
    {q \in Reserved(L) : (q \in Active(L) \/ IsResolved(L, q)) /\ SameScope(s, r, q)}

Bill(L, m, s, r) == [q \in Charged(L, s, r) |-> Billed(L, m, q)]

\* A charge is the sum of a bill.
LEMMA ChargeIsSum ==
    ASSUME NEW L, IsFiniteSet(Reserved(L)), NEW m, NEW s, NEW r
    PROVE  \E g : /\ IsSum(g, Bill(L, m, s, r), Charged(L, s, r))
                  /\ Charge(L, m, s, r) = g[Charged(L, s, r)]
<1> DEFINE Due == Charged(L, s, r)
           g == CHOOSE g : g = [T \in SUBSET Due |->
               IF T = {} THEN 0
               ELSE LET x == CHOOSE x \in T : TRUE
                    IN  (IF IsResolved(L, x) THEN L.usages[x.id].amounts[m] ELSE x.amounts[m])
                          + g[T \ {x}]]
<1>1. Charge(L, m, s, r) = g[Due]
  BY DEF Charge, MapThenSumSet, MapThenFoldSet, Charged
<1>2. PICK f : IsSum(f, Bill(L, m, s, r), Due)
  <2>1. IsFiniteSet(Due)
    BY FS_Subset DEF Charged
  <2> QED BY <2>1, SumExists
<1> HIDE DEF Due
<1> DEFINE Terms(f_) == [T \in SUBSET Due |->
               IF T = {} THEN 0
               ELSE LET x == CHOOSE x \in T : TRUE
                    IN  (IF IsResolved(L, x) THEN L.usages[x.id].amounts[m] ELSE x.amounts[m])
                          + f_[T \ {x}]]
<1>3. ASSUME NEW f_ PROVE Terms(f_) = [T \in SUBSET Due |-> NextTerm(f_, Bill(L, m, s, r), T)]
  <2>1. ASSUME NEW T \in SUBSET Due, T # {}
        PROVE  Bill(L, m, s, r)[CHOOSE x \in T : TRUE] = Billed(L, m, CHOOSE x \in T : TRUE)
    <3>1. (CHOOSE x \in T : TRUE) \in Due
      BY <2>1
    <3> QED BY <3>1 DEF Bill, Due
  <2> QED BY <2>1 DEF NextTerm, Billed
<1>4. f = Terms(f)
  BY <1>2, <1>3 DEF IsSum
<1>5. g = Terms(g)
  BY <1>4, Zenon
<1>6. IsSum(g, Bill(L, m, s, r), Due)
  BY <1>3, <1>5 DEF IsSum
<1> QED BY <1>1, <1>6 DEF Due

\* A reservation of a known model, with amounts.
IsPriced(r) == r.model \in DOMAIN ModelProvider /\ IsAmounts(r.amounts)

\* The caps are kept.
Limits(L) ==
    /\ \A r \in Reserved(L) : \A m \in Measures : \A s \in ScopesOf(m, r) :
          Charge(L, m, s, r) <= Cap[<<m, s>>]
    /\ Len(L.reservations) <= MaxCallCount
    /\ \A r \in Reserved(L) :
          Cardinality({q \in Reserved(L) : q.run = r.run}) <= MaxRunCalls

\* Reservations have prices and ids of their own, and what a usage names is one.
Booked(L) ==
    /\ \A r \in Reserved(L) : IsPriced(r)
    /\ \A r, q \in Reserved(L) : r.id = q.id => r = q
    /\ \A id \in DOMAIN L.usages : \E r \in Reserved(L) : r.id = id
    /\ \A id \in DOMAIN L.usages : L.usages[id].resolved => IsAmounts(L.usages[id].amounts)

\* A sequence has no more members than positions.
LEMMA RangeIsFinite ==
    ASSUME NEW s, s \in Seq(Range(s))
    PROVE  /\ IsFiniteSet(Range(s))
           /\ Cardinality(Range(s)) \in Nat
           /\ Cardinality(Range(s)) <= Len(s)
<1> DEFINE positions == 1 .. Len(s)
           at == [i \in positions |-> s[i]]
<1>1. Len(s) \in Nat /\ DOMAIN s = positions
  OBVIOUS
<1>2. IsFiniteSet(positions) /\ Cardinality(positions) = Len(s)
  <2>1. 1 \in Int /\ Len(s) \in Int
    BY <1>1
  <2>2. /\ IsFiniteSet(positions)
        /\ Cardinality(positions) = IF 1 > Len(s) THEN 0 ELSE Len(s) - 1 + 1
    BY <2>1, FS_Interval, Zenon
  <2> QED BY <1>1, <2>2
<1>3. at \in Surjection(positions, Range(s))
  BY <1>1 DEF Surjection, Range
<1>4. /\ IsFiniteSet(Range(s))
      /\ Cardinality(Range(s)) <= Cardinality(positions)
  BY <1>2, <1>3, FS_Surjection
<1> QED BY <1>2, <1>4, FS_CardinalityType

LEMMA ReservedIsFinite ==
    ASSUME NEW L, L.reservations \in Seq(Reserved(L))
    PROVE  IsFiniteSet(Reserved(L))
  BY RangeIsFinite DEF Reserved

\* Whoever is billed is billed a number.
LEMMA BilledIsNat ==
    ASSUME NEW L, Booked(L), NEW q \in Reserved(L), NEW m \in Measures
    PROVE  Billed(L, m, q) \in Nat /\ q.amounts[m] \in Nat
  BY DEF Booked, Billed, IsResolved, IsPriced, IsAmounts

\* A charge is a number, and no smaller than that of what it covers.
LEMMA ChargeBounds ==
    ASSUME NEW L, NEW M, Booked(L), Booked(M),
           IsFiniteSet(Reserved(L)), IsFiniteSet(Reserved(M)),
           NEW m \in Measures, NEW s, NEW r, NEW q,
           Charged(L, s, r) \subseteq Charged(M, s, q),
           \A p \in Charged(L, s, r) : Billed(L, m, p) <= Billed(M, m, p)
    PROVE  /\ Charge(L, m, s, r) \in Nat
           /\ Charge(M, m, s, q) \in Nat
           /\ Charge(L, m, s, r) <= Charge(M, m, s, q)
<1> DEFINE A == Charged(L, s, r)
           B == Charged(M, s, q)
           v == Bill(L, m, s, r)
           w == Bill(M, m, s, q)
<1>1. PICK g : IsSum(g, v, A) /\ Charge(L, m, s, r) = g[A]
  BY ChargeIsSum
<1>2. PICK h : IsSum(h, w, B) /\ Charge(M, m, s, q) = h[B]
  BY ChargeIsSum
<1>3. /\ IsFiniteSet(A) /\ IsFiniteSet(B)
      /\ A \subseteq Reserved(L) /\ B \subseteq Reserved(M)
  BY FS_Subset DEF Charged
<1>4. /\ \A x \in A : v[x] \in Nat /\ v[x] = Billed(L, m, x)
      /\ \A x \in B : w[x] \in Nat /\ w[x] = Billed(M, m, x)
  BY <1>3, BilledIsNat DEF Bill
<1>5. \A x \in A : v[x] <= w[x]
  BY <1>4
<1>6. A \subseteq B
  OBVIOUS
<1> HIDE DEF A, B, v, w
<1>7. g[A] <= h[A]
  BY <1>1, <1>2, <1>3, <1>4, <1>5, <1>6, SumIsMonotonic
<1>8. h[A] <= h[B]
  BY <1>2, <1>3, <1>4, <1>6, SumOfSubset
<1>9. g[A] \in Nat
  BY <1>1, <1>3, <1>4, SumTakesOut
<1>10. h[A] \in Nat /\ h[B] \in Nat
  BY <1>2, <1>3, <1>4, <1>6, SumTakesOut
<1> QED BY <1>1, <1>2, <1>7, <1>8, <1>9, <1>10 DEF A, B

\* One more reservation adds its amount at most.
LEMMA ChargeOfOneMore ==
    ASSUME NEW L, NEW M, Booked(L), Booked(M),
           IsFiniteSet(Reserved(L)), IsFiniteSet(Reserved(M)),
           NEW m \in Measures, NEW s, NEW r, NEW q, NEW more,
           Charged(M, s, q) \subseteq Charged(L, s, r) \cup {more},
           more \in Charged(M, s, q),
           \A p \in Charged(M, s, q) \ {more} : Billed(M, m, p) <= Billed(L, m, p)
    PROVE  /\ Charge(L, m, s, r) \in Nat
           /\ Charge(M, m, s, q) \in Nat
           /\ Charge(M, m, s, q) <= Charge(L, m, s, r) + Billed(M, m, more)
<1> DEFINE A == Charged(L, s, r)
           B == Charged(M, s, q)
           v == Bill(L, m, s, r)
           w == Bill(M, m, s, q)
           U == B \ {more}
<1>1. PICK g : IsSum(g, v, A) /\ Charge(L, m, s, r) = g[A]
  BY ChargeIsSum
<1>2. PICK h : IsSum(h, w, B) /\ Charge(M, m, s, q) = h[B]
  BY ChargeIsSum
<1>3. /\ IsFiniteSet(A) /\ IsFiniteSet(B)
      /\ A \subseteq Reserved(L) /\ B \subseteq Reserved(M)
  BY FS_Subset DEF Charged
<1>4. /\ \A x \in A : v[x] \in Nat /\ v[x] = Billed(L, m, x)
      /\ \A x \in B : w[x] \in Nat /\ w[x] = Billed(M, m, x)
  BY <1>3, BilledIsNat DEF Bill
<1>5. /\ U \subseteq A /\ U \subseteq B /\ more \in B
      /\ \A x \in U : w[x] <= v[x]
  BY <1>4
<1>6. w[more] = Billed(M, m, more) /\ w[more] \in Nat
  BY <1>4
<1>7. U = B \ {more}
  OBVIOUS
<1> HIDE DEF A, B, v, w, U
<1>8. h[U] <= g[U]
  BY <1>1, <1>2, <1>3, <1>4, <1>5, SumIsMonotonic
<1>9. g[U] <= g[A]
  BY <1>1, <1>3, <1>4, <1>5, SumOfSubset
<1>10. h[B] = w[more] + h[U] /\ h[B] \in Nat
  <2>1. \A T \in SUBSET B : h[T] \in Nat /\ \A y \in T : h[T] = w[y] + h[T \ {y}]
    BY <1>2, <1>3, <1>4, SumTakesOut
  <2>2. B \in SUBSET B
    OBVIOUS
  <2> QED BY <1>5, <1>7, <2>1, <2>2
<1>11. h[U] \in Nat
  BY <1>2, <1>3, <1>4, <1>5, SumTakesOut
<1>12. g[U] \in Nat /\ g[A] \in Nat
  BY <1>1, <1>3, <1>4, <1>5, SumTakesOut
<1>13. h[B] <= g[A] + w[more]
  BY <1>6, <1>8, <1>9, <1>10, <1>11, <1>12
<1> QED BY <1>1, <1>2, <1>6, <1>10, <1>12, <1>13 DEF A, B

\* Who is in the scope of q is in that of whoever shares it.
LEMMA ScopesAreShared ==
    ASSUME NEW q, NEW r, NEW p, NEW m, NEW s \in ScopesOf(m, q),
           q.model \in DOMAIN ModelProvider, r.model \in DOMAIN ModelProvider,
           p.model \in DOMAIN ModelProvider,
           SameScope(s, q, r)
    PROVE  /\ s \in ScopesOf(m, r)
           /\ SameScope(s, q, p) => SameScope(s, r, p)
  BY DEF ScopesOf, SameScope, ModelProvider

\* The policy has a cap for every scope of a priced reservation.
LEMMA ScopesAreCapped ==
    ASSUME NEW r, r.model \in DOMAIN ModelProvider, NEW m \in Measures, NEW s \in ScopesOf(m, r)
    PROVE  Cap[<<m, s>>] \in Nat
<1>1. s \in Scopes(m)
  BY DEF ScopesOf, Scopes, Range
<1> QED BY <1>1, CapAssumption

\* A ledger with the same reservations, of which no more are due and for no
\* more, keeps the caps.
LEMMA LessIsWithinLimits ==
    ASSUME NEW L, NEW M, IsFiniteSet(Reserved(L)), Booked(L), Booked(M), Limits(L),
           M.reservations = L.reservations,
           \A p \in Reserved(L) :
               p \in Active(M) \/ IsResolved(M, p) =>
                   /\ p \in Active(L) \/ IsResolved(L, p)
                   /\ \A m \in Measures : Billed(M, m, p) <= Billed(L, m, p)
    PROVE  Limits(M)
<1>1. Reserved(M) = Reserved(L)
  BY DEF Reserved
<1>2. ASSUME NEW r \in Reserved(M), NEW m \in Measures, NEW s \in ScopesOf(m, r)
      PROVE  Charge(M, m, s, r) <= Cap[<<m, s>>]
  <2>1. /\ Charged(M, s, r) \subseteq Charged(L, s, r)
        /\ \A p \in Charged(M, s, r) : Billed(M, m, p) <= Billed(L, m, p)
    BY <1>1 DEF Charged
  <2>2. /\ Charge(M, m, s, r) \in Nat
        /\ Charge(L, m, s, r) \in Nat
        /\ Charge(M, m, s, r) <= Charge(L, m, s, r)
    BY <1>1, <2>1, ChargeBounds
  <2>3. Charge(L, m, s, r) <= Cap[<<m, s>>]
    BY <1>1, <1>2 DEF Limits
  <2>4. Cap[<<m, s>>] \in Nat
    BY <1>1, <1>2, ScopesAreCapped DEF Booked, IsPriced
  <2> QED BY <2>2, <2>3, <2>4
<1> QED BY <1>1, <1>2 DEF Limits

\* A reservation that reserve_call lets through keeps the caps.
LEMMA ReserveKeepsLimits ==
    ASSUME NEW L, BudgetSound(L), Booked(L), Limits(L), NEW r, IsPriced(r), CanReserve(L, r)
    PROVE  Booked(AfterReserve(L, r)) /\ Limits(AfterReserve(L, r))
<1> DEFINE M == AfterReserve(L, r)
<1>1. CASE IsRepeated(L, r)
  BY <1>1 DEF AfterReserve
<1>2. CASE ~IsRepeated(L, r)
  <2>1. /\ M.reservations = Append(L.reservations, r)
        /\ M.usages = L.usages /\ M.released = L.released
    <3>1. L = [ reservations |-> L.reservations, usages |-> L.usages,
                released |-> L.released, stop |-> L.stop ]
      BY DEF BudgetSound
    <3>2. M = [L EXCEPT !.reservations = Append(@, r)]
      BY <1>2 DEF AfterReserve
    <3> HIDE DEF M
    <3> QED BY <3>1, <3>2
  <2> HIDE DEF M
  <2>2. /\ L.reservations \in Seq(Reserved(L) \cup {r})
        /\ L.reservations \in Seq(Reserved(L))
    BY DEF BudgetSound
  <2>3. /\ Reserved(M) = Reserved(L) \cup {r}
        /\ Len(M.reservations) = Len(L.reservations) + 1
        /\ Len(L.reservations) \in Nat
    <3>1. /\ DOMAIN Append(L.reservations, r) = 1 .. (Len(L.reservations) + 1)
          /\ DOMAIN L.reservations = 1 .. Len(L.reservations)
          /\ Len(L.reservations) \in Nat
          /\ Append(L.reservations, r)[Len(L.reservations) + 1] = r
          /\ \A i \in 1 .. Len(L.reservations) : Append(L.reservations, r)[i] = L.reservations[i]
          /\ Len(Append(L.reservations, r)) = Len(L.reservations) + 1
      BY <2>2
    <3> QED BY <2>1, <3>1 DEF Reserved, Range
  <2>4. IsFiniteSet(Reserved(L)) /\ IsFiniteSet(Reserved(M))
    BY <2>2, <2>3, ReservedIsFinite, FS_AddElement
  <2>5. /\ \A q \in Reserved(L) : ~IsSameCall(r, q)
        /\ \A m \in Measures : \A s \in ScopesOf(m, r) :
               Charge(L, m, s, r) + r.amounts[m] <= Cap[<<m, s>>]
        /\ Len(L.reservations) < MaxCallCount
        /\ Cardinality({q \in Reserved(L) : q.run = r.run}) < MaxRunCalls
    BY <1>2 DEF CanReserve
  <2>6. /\ r \notin Reserved(L)
        /\ \A q \in Reserved(L) : q.id # r.id
        /\ r.id \notin DOMAIN L.usages
    BY <2>5 DEF IsSameCall, Booked
  <2>7. Booked(M)
    BY <2>1, <2>3, <2>6 DEF Booked
  <2>8. \A q : IsResolved(M, q) <=> IsResolved(L, q)
    BY <2>1 DEF IsResolved
  <2>9. /\ \A m : Billed(M, m, r) = r.amounts[m]
        /\ \A q, m : Billed(M, m, q) = Billed(L, m, q)
    BY <2>1, <2>6 DEF Billed, IsResolved
  <2>10. \A s, q : Charged(M, s, q) \ {r} \subseteq Charged(L, s, q)
    BY <2>1, <2>3, <2>8 DEF Charged, Active
  <2>11. ASSUME NEW q \in Reserved(M), NEW m \in Measures, NEW s \in ScopesOf(m, q)
         PROVE  Charge(M, m, s, q) <= Cap[<<m, s>>]
    <3>1. q.model \in DOMAIN ModelProvider /\ Cap[<<m, s>>] \in Nat
      BY <2>7, ScopesAreCapped DEF Booked, IsPriced
    <3>2. r.amounts[m] \in Nat
      BY DEF IsPriced, IsAmounts
    <3>3. \A p \in Charged(M, s, q) : Billed(M, m, p) = Billed(L, m, p) /\ Billed(L, m, p) \in Nat
      BY <2>7, <2>9, BilledIsNat DEF Charged
    <3>4. CASE r \in Charged(M, s, q)
      <4>1. SameScope(s, q, r) /\ r.model \in DOMAIN ModelProvider
        BY <3>4 DEF Charged, IsPriced
      <4>2. s \in ScopesOf(m, r)
        BY <3>1, <4>1, ScopesAreShared
      <4>3. Charged(M, s, q) \subseteq Charged(L, s, r) \cup {r}
        <5> SUFFICES ASSUME NEW p \in Charged(M, s, q), p # r
                     PROVE  p \in Charged(L, s, r)
          OBVIOUS
        <5>1. p \in Charged(L, s, q)
          BY <2>10
        <5>2. SameScope(s, q, p) /\ p \in Reserved(L) /\ p.model \in DOMAIN ModelProvider
          BY <5>1 DEF Charged, Booked, IsPriced
        <5>3. SameScope(s, r, p)
          BY <3>1, <4>1, <5>2, ScopesAreShared
        <5> QED BY <5>1, <5>3 DEF Charged
      <4>4. \A p \in Charged(M, s, q) \ {r} : Billed(M, m, p) <= Billed(L, m, p)
        BY <3>3
      <4>5. /\ Charge(L, m, s, r) \in Nat
            /\ Charge(M, m, s, q) \in Nat
            /\ Charge(M, m, s, q) <= Charge(L, m, s, r) + Billed(M, m, r)
        BY <2>4, <2>7, <3>4, <4>3, <4>4, ChargeOfOneMore
      <4>6. Charge(L, m, s, r) + r.amounts[m] <= Cap[<<m, s>>]
        BY <2>5, <4>2
      <4> QED BY <2>9, <3>1, <3>2, <4>5, <4>6
    <3>5. CASE r \notin Charged(M, s, q)
      <4>1. Charged(M, s, q) \subseteq Charged(L, s, q)
        BY <2>10, <3>5
      <4>2. \A p \in Charged(M, s, q) : Billed(M, m, p) <= Billed(L, m, p)
        BY <3>3
      <4>3. /\ Charge(M, m, s, q) \in Nat
            /\ Charge(L, m, s, q) \in Nat
            /\ Charge(M, m, s, q) <= Charge(L, m, s, q)
        BY <2>4, <2>7, <4>1, <4>2, ChargeBounds
      <4>4. CASE q = r
        BY <2>5, <2>11, <3>1, <3>2, <4>3, <4>4
      <4>5. CASE q # r
        <5>1. Charge(L, m, s, q) <= Cap[<<m, s>>]
          BY <2>3, <2>11, <4>5 DEF Limits
        <5> QED BY <3>1, <4>3, <5>1
      <4> QED BY <4>4, <4>5
    <3> QED BY <3>4, <3>5
  <2>12. Len(M.reservations) <= MaxCallCount
    BY <2>3, <2>5, CountAssumption
  <2>13. ASSUME NEW q \in Reserved(M)
         PROVE  Cardinality({p \in Reserved(M) : p.run = q.run}) <= MaxRunCalls
    <3>1. CASE q.run = r.run
      <4> DEFINE mine == {p \in Reserved(L) : p.run = r.run}
      <4>1. {p \in Reserved(M) : p.run = q.run} = mine \cup {r}
        BY <2>3, <3>1
      <4>2. IsFiniteSet(mine) /\ Cardinality(mine) \in Nat
        BY <2>4, FS_Subset, FS_CardinalityType
      <4>3. Cardinality(mine) < MaxRunCalls /\ r \notin mine
        BY <2>5, <2>6
      <4> HIDE DEF mine
      <4>4. Cardinality(mine \cup {r}) = Cardinality(mine) + 1
        BY <4>2, <4>3, FS_AddElement
      <4>5. Cardinality(mine \cup {r}) <= MaxRunCalls
        BY <4>2, <4>3, <4>4, CountAssumption
      <4> QED BY <4>1, <4>5
    <3>2. CASE q.run # r.run
      <4>1. /\ q \in Reserved(L)
            /\ {p \in Reserved(M) : p.run = q.run} = {p \in Reserved(L) : p.run = q.run}
        BY <2>3, <3>2
      <4> QED BY <4>1 DEF Limits
    <3> QED BY <3>1, <3>2
  <2>14. Limits(M)
    BY <2>11, <2>12, <2>13 DEF Limits
  <2> QED BY <2>7, <2>14 DEF M
<1> QED BY <1>1, <1>2

\* A usage of no more than was reserved, or of unknown cost, keeps the caps.
LEMMA UsageKeepsLimits ==
    ASSUME NEW L, BudgetSound(L), Booked(L), Limits(L), NEW r \in Reserved(L),
           r.id \notin L.released, r.id \notin DOMAIN L.usages,
           NEW usage, usage.resolved \in BOOLEAN,
           usage.resolved => IsAmounts(usage.amounts),
           usage.resolved => \A m \in Measures : usage.amounts[m] <= r.amounts[m],
           NEW M, M.reservations = L.reservations, M.released = L.released,
           M.usages = WithUsage(L, r, usage)
    PROVE  Booked(M) /\ Limits(M)
<1>1. Reserved(M) = Reserved(L)
  BY DEF Reserved
<1>2. /\ DOMAIN M.usages = DOMAIN L.usages \cup {r.id}
      /\ M.usages[r.id] = usage
      /\ \A id \in DOMAIN L.usages : M.usages[id] = L.usages[id]
  BY DEF WithUsage
<1>3. Booked(M)
  BY <1>1, <1>2 DEF Booked
<1>4. ASSUME NEW p \in Reserved(L), p # r
      PROVE  /\ IsResolved(M, p) <=> IsResolved(L, p)
             /\ \A m : Billed(M, m, p) = Billed(L, m, p)
  <2>1. p.id # r.id
    BY <1>4 DEF Booked
  <2> QED BY <1>2, <2>1 DEF IsResolved, Billed
<1>5. /\ r \in Active(L)
      /\ \A m \in Measures : Billed(M, m, r) <= Billed(L, m, r)
  <2>1. r \in Active(L) /\ \A m : Billed(L, m, r) = r.amounts[m]
    BY DEF Active, IsResolved, Billed
  <2>2. \A m \in Measures : r.amounts[m] \in Nat
    BY DEF Booked, IsPriced, IsAmounts
  <2>3. CASE usage.resolved
    <3>1. \A m \in Measures : Billed(M, m, r) = usage.amounts[m] /\ usage.amounts[m] <= r.amounts[m]
      BY <1>2, <2>3 DEF Billed, IsResolved
    <3> QED BY <2>1, <3>1
  <2>4. CASE ~usage.resolved
    <3>1. \A m : Billed(M, m, r) = r.amounts[m]
      BY <1>2, <2>4 DEF Billed, IsResolved
    <3> QED BY <2>1, <2>2, <3>1
  <2> QED BY <2>1, <2>3, <2>4
<1>6. ASSUME NEW p \in Reserved(L), p \in Active(M) \/ IsResolved(M, p)
      PROVE  /\ p \in Active(L) \/ IsResolved(L, p)
             /\ \A m \in Measures : Billed(M, m, p) <= Billed(L, m, p)
  <2>1. CASE p = r
    BY <1>5, <2>1
  <2>2. CASE p # r
    <3>1. p \in Active(L) \/ IsResolved(L, p)
      BY <1>4, <1>6, <2>2 DEF Active
    <3>2. \A m \in Measures : Billed(M, m, p) = Billed(L, m, p) /\ Billed(L, m, p) \in Nat
      BY <1>4, <2>2, BilledIsNat
    <3> QED BY <3>1, <3>2
  <2> QED BY <2>1, <2>2
<1>7. IsFiniteSet(Reserved(L))
  BY ReservedIsFinite DEF BudgetSound
<1> QED BY <1>3, <1>6, <1>7, LessIsWithinLimits

\* A release and a hard stop charge nobody more.
LEMMA ReleaseKeepsLimits ==
    ASSUME NEW L, BudgetSound(L), Booked(L), Limits(L),
           NEW M, M.reservations = L.reservations, M.usages = L.usages,
           L.released \subseteq M.released
    PROVE  Booked(M) /\ Limits(M)
<1>1. Reserved(M) = Reserved(L)
  BY DEF Reserved
<1>2. Booked(M)
  BY <1>1 DEF Booked
<1>3. ASSUME NEW p \in Reserved(L), p \in Active(M) \/ IsResolved(M, p)
      PROVE  /\ p \in Active(L) \/ IsResolved(L, p)
             /\ \A m \in Measures : Billed(M, m, p) <= Billed(L, m, p)
  <2>1. p \in Active(L) \/ IsResolved(L, p)
    BY <1>3 DEF Active, IsResolved
  <2>2. \A m \in Measures : Billed(M, m, p) = Billed(L, m, p) /\ Billed(L, m, p) \in Nat
    BY BilledIsNat DEF Billed, IsResolved
  <2> QED BY <2>1, <2>2
<1>4. IsFiniteSet(Reserved(L))
  BY ReservedIsFinite DEF BudgetSound
<1> QED BY <1>2, <1>3, <1>4, LessIsWithinLimits

\* The bookings and the caps, of the caller's ledger and the run's.
WithinInv ==
    /\ ShadowInv
    /\ Booked(ledger) /\ Limits(ledger)
    /\ run # NoValue => Booked(run.after) /\ Limits(run.after)

\* What is asked for is priced, an escalation too.
LEMMA AskedIsPriced ==
    /\ \A request \in Requests : IsPriced(request[1])
    /\ \A request \in Requests : Len(request) # 1 => IsPriced(request[2])
    /\ \A r \in Escalations : IsPriced(Escalation(ledger, r))
<1>1. \A r \in AskedFor : IsPriced(r)
  BY RequestAssumption, Zenon DEF IsPriced
<1>2. ASSUME NEW request \in Requests
      PROVE  /\ IsPriced(request[1])
             /\ Len(request) # 1 => IsPriced(request[2])
  <2>1. request \in Seq(Range(request)) /\ Len(request) \in 1 .. 2
    BY RequestAssumption, Zenon
  <2>2. /\ request[1] \in Range(request)
        /\ Len(request) # 1 => request[2] \in Range(request)
    BY <2>1
  <2>3. Range(request) \subseteq AskedFor
    BY DEF AskedFor
  <2> QED BY <1>1, <2>2, <2>3
<1>3. ASSUME NEW r \in Escalations
      PROVE  IsPriced(Escalation(ledger, r))
  <2>1. r \in AskedFor
    BY Zenon DEF AskedFor
  <2>2. r = [ id |-> r.id, run |-> r.run, call |-> r.call, model |-> r.model,
              amounts |-> r.amounts ]
    BY <2>1, RequestAssumption, Zenon DEF Reservation
  <2>3. PICK other : Escalation(ledger, r) = [r EXCEPT !.run = other]
    BY DEF Escalation
  <2>4. /\ Escalation(ledger, r).model = r.model
        /\ Escalation(ledger, r).amounts = r.amounts
    BY <2>2, <2>3
  <2>5. IsPriced(r)
    BY <1>1, <2>1
  <2> QED BY <2>4, <2>5 DEF IsPriced
<1> QED BY <1>2, <1>3

\* The operations of the caller keep the caps.
LEMMA CallerKeepsLimits ==
    ASSUME WithinInv,
           \/ \E request \in Requests : Reserve(request)
           \/ \E r \in Escalations : ReserveEscalation(r)
           \/ \E r \in Reserved(ledger) : ReleaseCall(r)
           \/ ActivateHardStop
    PROVE  Booked(ledger') /\ Limits(ledger')
<1>0. BudgetSound(ledger) /\ Booked(ledger) /\ Limits(ledger)
  BY DEF WithinInv, ShadowInv
<1>1. ASSUME NEW request \in Requests, Reserve(request)
      PROVE  Booked(ledger') /\ Limits(ledger')
  <2> DEFINE first == AfterReserve(ledger, request[1])
             both == AfterReserve(first, request[2])
  <2>1. BudgetSound(first) /\ Booked(first) /\ Limits(first)
    BY <1>0, <1>1, AskedIsPriced, ReserveIsSound, ReserveKeepsLimits DEF Reserve
  <2>2. CASE Len(request) = 1
    BY <1>1, <2>1, <2>2 DEF Reserve
  <2>3. CASE Len(request) # 1
    <3>1. ledger' = both /\ CanReserve(first, request[2])
      BY <1>1, <2>3 DEF Reserve
    <3>2. IsPriced(request[2])
      BY <2>3, AskedIsPriced
    <3> HIDE DEF first
    <3>3. Booked(both) /\ Limits(both)
      BY <2>1, <3>1, <3>2, ReserveKeepsLimits
    <3> QED BY <3>1, <3>3
  <2> QED BY <2>2, <2>3
<1>2. ASSUME NEW r \in Escalations, ReserveEscalation(r)
      PROVE  Booked(ledger') /\ Limits(ledger')
  BY <1>0, <1>2, AskedIsPriced, ReserveKeepsLimits DEF ReserveEscalation
<1>3. ASSUME NEW r \in Reserved(ledger), ReleaseCall(r)
      PROVE  Booked(ledger') /\ Limits(ledger')
  <2>1. /\ ledger'.reservations = ledger.reservations /\ ledger'.usages = ledger.usages
        /\ ledger.released \subseteq ledger'.released
    BY <1>0, <1>3 DEF ReleaseCall, AfterRelease, BudgetSound
  <2> QED BY <1>0, <2>1, ReleaseKeepsLimits
<1>4. CASE ActivateHardStop
  <2>1. /\ ledger'.reservations = ledger.reservations /\ ledger'.usages = ledger.usages
        /\ ledger.released \subseteq ledger'.released
    BY <1>0, <1>4 DEF ActivateHardStop, AfterHardStop, BudgetSound
  <2> QED BY <1>0, <2>1, ReleaseKeepsLimits
<1> QED BY <1>1, <1>2, <1>3, <1>4

\* Every step keeps the caps, in the ledger of the run and in the caller's.
LEMMA WithinStep ==
    ASSUME WithinInv, [ShadowNext]_shadowVars
    PROVE  WithinInv'
<1>0. ShadowInv /\ ShadowInv'
  BY ShadowStep DEF WithinInv
<1>1. /\ Booked(ledger) /\ Limits(ledger)
      /\ run # NoValue => Booked(run.after) /\ Limits(run.after)
  BY DEF WithinInv
<1>2. CASE \/ \E request \in Requests : Reserve(request)
           \/ \E r \in Escalations : ReserveEscalation(r)
           \/ \E r \in Reserved(ledger) : ReleaseCall(r)
           \/ ActivateHardStop
  <2>1. Booked(ledger') /\ Limits(ledger')
    BY <1>2, CallerKeepsLimits
  <2>2. run' = NoValue
    BY <1>2 DEF Reserve, ReserveEscalation, ReleaseCall, ActivateHardStop
  <2> QED BY <1>0, <2>1, <2>2 DEF WithinInv
<1>3. ASSUME NEW plan \in Plans, Deny(plan) \/ BeginPlan(plan)
      PROVE  WithinInv'
  <2>1. ledger' = ledger /\ (run' = run \/ run'.after = ledger)
    BY <1>3 DEF Deny, BeginPlan
  <2> QED BY <1>0, <1>1, <2>1 DEF WithinInv
<1>4. CASE Invoke \/ Retry
  <2>1. ledger' = ledger /\ run # NoValue /\ run'.after = run.after
    BY <1>0, <1>4 DEF Invoke, Retry, Attempt, ShadowInv, RunIsHeld
  <2> QED BY <1>0, <1>1, <2>1 DEF WithinInv
<1>5. CASE InvocationRaises \/ ResponseRaises \/ CircuitIsOpen \/ CallFails \/ UsageIsRefused
  <2>1. run # NoValue /\ run' = NoValue /\ (ledger' = ledger \/ ledger' = run.after)
    BY <1>5 DEF InvocationRaises, ResponseRaises, Raise, CircuitIsOpen, CallFails,
                UsageIsRefused, Attempt, End
  <2> QED BY <1>0, <1>1, <2>1 DEF WithinInv
<1>6. ASSUME NEW amounts \in Usages, CallSucceeds(amounts)
      PROVE  WithinInv'
  <2> DEFINE after == AfterCommit(run.after, CurrentAttempt, amounts)
  <2>1. /\ run # NoValue /\ CanCommit(run.after, CurrentAttempt, amounts, TRUE)
        /\ BudgetSound(run.after) /\ Booked(run.after) /\ Limits(run.after)
    BY <1>0, <1>1, <1>6 DEF CallSucceeds, Attempt, ShadowInv, RunIsHeld
  <2>2. /\ after.reservations = run.after.reservations
        /\ after.released = run.after.released
        /\ after.usages = WithUsage(run.after, CurrentAttempt, Usage(amounts))
    BY <2>1, UsageFields
  <2>3. /\ Usage(amounts).resolved \in BOOLEAN
        /\ IsAmounts(Usage(amounts).amounts)
        /\ \A m \in Measures : Usage(amounts).amounts[m] <= CurrentAttempt.amounts[m]
    <3>1. IsAmounts(amounts)
      BY RequestAssumption, Zenon
    <3> QED BY <2>1, <3>1 DEF CanCommit, Usage
  <2> HIDE DEF after
  <2>4. Booked(after) /\ Limits(after)
    BY <2>1, <2>2, <2>3, UsageKeepsLimits DEF CanCommit
  <2>5. \/ run' = NoValue /\ ledger' = after
        \/ run'.after = after /\ ledger' = ledger
    BY <1>0, <1>6, <2>1 DEF CallSucceeds, End, ShadowInv, RunIsHeld, after
  <2> QED BY <1>0, <1>1, <2>4, <2>5 DEF WithinInv
<1>7. CASE OutcomeIsUncertain
  <2> DEFINE after == AfterUncertain(run.after, CurrentAttempt)
  <2>1. /\ run # NoValue /\ CanReconcileUncertain(run.after, CurrentAttempt)
        /\ BudgetSound(run.after) /\ Booked(run.after) /\ Limits(run.after)
    BY <1>0, <1>1, <1>7 DEF OutcomeIsUncertain, Attempt, ShadowInv, RunIsHeld
  <2>2. /\ after.reservations = run.after.reservations
        /\ after.released = run.after.released
        /\ after.usages = WithUsage(run.after, CurrentAttempt, Uncertain)
    BY <2>1, UsageFields
  <2> HIDE DEF after
  <2>3. Booked(after) /\ Limits(after)
    <3>1. /\ Uncertain.resolved \in BOOLEAN
          /\ Uncertain.resolved => IsAmounts(Uncertain.amounts)
          /\ Uncertain.resolved =>
                 \A m \in Measures : Uncertain.amounts[m] <= CurrentAttempt.amounts[m]
      BY DEF Uncertain
    <3>2. /\ CurrentAttempt \in Reserved(run.after)
          /\ CurrentAttempt.id \notin run.after.released
          /\ CurrentAttempt.id \notin DOMAIN run.after.usages
      BY <2>1 DEF CanReconcileUncertain
    <3> HIDE DEF CurrentAttempt, Uncertain
    <3> QED BY <2>1, <2>2, <3>1, <3>2, UsageKeepsLimits
  <2>4. run' = NoValue /\ ledger' = after
    BY <1>7 DEF OutcomeIsUncertain, End, after
  <2> QED BY <1>0, <1>1, <2>3, <2>4 DEF WithinInv
<1>8. CASE UNCHANGED shadowVars
  BY <1>0, <1>1, <1>8 DEF shadowVars, WithinInv
<1> QED BY <1>2, <1>3, <1>4, <1>5, <1>6, <1>7, <1>8 DEF ShadowNext

\* The empty ledger keeps any caps.
LEMMA InitIsWithin ==
    ASSUME ShadowInit
    PROVE  WithinInv
<1>1. ShadowInv /\ run = NoValue
  BY DEF ShadowInit, ShadowInv, BudgetSound, EmptyBudget, AttemptedIsHeld, RunIsHeld
<1>2. Reserved(ledger) = {} /\ DOMAIN ledger.usages = {} /\ Len(ledger.reservations) = 0
  BY DEF ShadowInit, EmptyBudget, Reserved, Range
<1>3. Booked(ledger) /\ Limits(ledger)
  BY <1>2, CountAssumption DEF Booked, Limits
<1> QED BY <1>1, <1>3 DEF WithinInv

\* Every step keeps the bookings and the caps.
THEOREM WithinInvHolds == ShadowSpec => []WithinInv
  BY InitIsWithin, WithinStep, PTL DEF ShadowSpec

\* No cap of the policy is ever exceeded by what reserve_call, commit_usage and
\* the others leave committed and reserved, for all caps, prices and usages.
THEOREM WithinLimitsTheorem == ShadowSpec => []WithinLimits
<1>1. WithinInv => WithinLimits
  BY DEF WithinInv, WithinLimits, Limits, Ledgers
<1> QED BY <1>1, WithinInvHolds, PTL

-----------------------------------------------------------------------------
(* The calls of a plan have reservations of their own. *)

\* The number of attempts of each call.
Attempts(plan) == [i \in DOMAIN plan.calls |-> Len(plan.calls[i].attempts)]

\* The reservations of some of its calls.
AskedBy(plan, T) == UNION {Range(plan.calls[i].attempts) : i \in T}

\* The calls of a plan have as many attempts as it has reservations.
LEMMA PlanIsCounted ==
    ASSUME NEW plan \in Plans
    PROVE  \E g : /\ IsSum(g, Attempts(plan), DOMAIN plan.calls)
                  /\ Cardinality(ReservationsOf(plan)) = g[DOMAIN plan.calls]
                  /\ IsFiniteSet(DOMAIN plan.calls)
<1> DEFINE S == DOMAIN plan.calls
           val == [i \in S |-> Len(plan.calls[i].attempts)]
           g == CHOOSE g : g = [T \in SUBSET S |->
               IF T = {} THEN 0
               ELSE LET x == CHOOSE x \in T : TRUE
                    IN  Len(plan.calls[x].attempts) + g[T \ {x}]]
           Terms(f_) == [T \in SUBSET S |->
               IF T = {} THEN 0
               ELSE LET x == CHOOSE x \in T : TRUE
                    IN  Len(plan.calls[x].attempts) + f_[T \ {x}]]
<1>1. IsPlan(plan)
  BY PlanAssumption
<1>2. Cardinality(ReservationsOf(plan)) = g[S]
  BY <1>1 DEF IsPlan, MapThenSumSet, MapThenFoldSet
<1>3. IsFiniteSet(S)
  <2>1. plan.calls \in Seq(Range(plan.calls))
    BY <1>1, Zenon DEF IsPlan
  <2>2. S = 1 .. Len(plan.calls) /\ 1 \in Int /\ Len(plan.calls) \in Int
    BY <2>1
  <2> HIDE DEF S
  <2> QED BY <2>2, FS_Interval
<1>4. ASSUME NEW f_ PROVE Terms(f_) = [T \in SUBSET S |-> NextTerm(f_, val, T)]
  <2>1. ASSUME NEW T \in SUBSET S, T # {}
        PROVE  val[CHOOSE x \in T : TRUE] = Len(plan.calls[CHOOSE x \in T : TRUE].attempts)
    <3>1. (CHOOSE x \in T : TRUE) \in S
      BY <2>1
    <3> QED BY <3>1
  <2> HIDE DEF val
  <2> QED BY <2>1 DEF NextTerm
<1>5. PICK f : IsSum(f, val, S)
  BY <1>3, SumExists
<1>6. f = Terms(f)
  BY <1>4, <1>5 DEF IsSum
<1>7. g = Terms(g)
  BY <1>6, Zenon
<1>8. IsSum(g, val, S)
  BY <1>4, <1>7 DEF IsSum
<1> QED BY <1>2, <1>3, <1>8 DEF Attempts

\* The attempts of a call are a number ...
LEMMA AttemptsAreNat ==
    ASSUME NEW plan \in Plans, NEW i \in DOMAIN plan.calls
    PROVE  Attempts(plan)[i] \in Nat
<1>1. plan.calls[i].attempts \in Seq(Range(plan.calls[i].attempts))
  BY PlanShape DEF IsCall
<1> QED BY <1>1 DEF Attempts

\* ... and those of several calls add up.
LEMMA AttemptsAdd ==
    ASSUME NEW plan \in Plans, NEW S, S = DOMAIN plan.calls, IsFiniteSet(S),
           NEW g, IsSum(g, Attempts(plan), S)
    PROVE  \A T \in SUBSET S :
               g[T] \in Nat /\ \A i \in T : g[T] = Attempts(plan)[i] + g[T \ {i}]
<1>1. \A i \in S : Attempts(plan)[i] \in Nat
  BY AttemptsAreNat
<1> QED BY <1>1, SumTakesOut

\* Calls together ask for no more reservations than they have attempts.
LEMMA AskedAtMost ==
    ASSUME NEW plan \in Plans, NEW S, S = DOMAIN plan.calls, IsFiniteSet(S),
           NEW g, IsSum(g, Attempts(plan), S),
           NEW U \in SUBSET S
    PROVE  /\ IsFiniteSet(AskedBy(plan, U))
           /\ Cardinality(AskedBy(plan, U)) \in Nat
           /\ Cardinality(AskedBy(plan, U)) <= g[U]
<1> DEFINE Asked(T) == AskedBy(plan, T)
           Good(T) == IsFiniteSet(Asked(T)) /\ Cardinality(Asked(T)) <= g[T]
           Bad == {T \in SUBSET S : ~Good(T)}
           Sizes == {Cardinality(T) : T \in Bad}
<1>1. \A T \in SUBSET S : IsFiniteSet(T) /\ Cardinality(T) \in Nat
  BY FS_Subset, FS_CardinalityType
<1>2. ASSUME NEW i \in S
      PROVE  /\ IsFiniteSet(Range(plan.calls[i].attempts))
             /\ Cardinality(Range(plan.calls[i].attempts)) \in Nat
             /\ Cardinality(Range(plan.calls[i].attempts)) <= Attempts(plan)[i]
             /\ Attempts(plan)[i] \in Nat
  <2>1. plan.calls[i].attempts \in Seq(Range(plan.calls[i].attempts))
    BY PlanShape DEF IsCall
  <2> QED BY <2>1, RangeIsFinite DEF Attempts
<1>3. \A T \in SUBSET S : g[T] \in Nat /\ \A i \in T : g[T] = Attempts(plan)[i] + g[T \ {i}]
  BY AttemptsAdd
<1>4. ASSUME Bad # {} PROVE FALSE
  <2>1. Sizes \subseteq Nat /\ Sizes # {}
    BY <1>1, <1>4
  <2>2. PICK n \in Sizes : \A m \in Sizes : n <= m
    BY <2>1, LeastOfNat
  <2>3. PICK T \in Bad : Cardinality(T) = n
    BY <2>2
  <2>4. CASE T = {}
    <3>1. Asked(T) = {}
      BY <2>4 DEF AskedBy
    <3>2. g[T] \in Nat
      BY <1>3, <2>3
    <3>3. IsFiniteSet({}) /\ Cardinality({}) = 0
      BY FS_EmptySet
    <3>4. Cardinality(Asked(T)) <= g[T]
      <4> HIDE DEF Asked
      <4> QED BY <3>1, <3>2, <3>3
    <3> QED BY <2>3, <3>1, <3>3, <3>4
  <2>5. CASE T # {}
    <3>1. PICK i \in T : TRUE
      BY <2>5
    <3> DEFINE R == Range(plan.calls[i].attempts)
               Rest == Asked(T \ {i})
    <3>2. T \in SUBSET S /\ T \ {i} \in SUBSET S /\ Cardinality(T \ {i}) < Cardinality(T)
      <4>1. T \in SUBSET S /\ T \ {i} \in SUBSET S
        BY <2>3
      <4>2. /\ IsFiniteSet(T)
            /\ Cardinality(T) \in Nat
            /\ Cardinality(T \ {i}) = Cardinality(T) - 1
        BY <1>1, <3>1, <4>1, FS_RemoveElement
      <4> QED BY <4>1, <4>2
    <3>3. Good(T \ {i})
      <4>1. Cardinality(T \ {i}) \notin Sizes
        BY <1>1, <2>1, <2>2, <2>3, <3>2
      <4> QED BY <3>2, <4>1
    <3>4. Asked(T) = Rest \cup R
      BY <3>1 DEF AskedBy
    <3>5. /\ IsFiniteSet(R) /\ Cardinality(R) \in Nat
          /\ Cardinality(R) <= Attempts(plan)[i] /\ Attempts(plan)[i] \in Nat
      BY <1>2, <3>1, <3>2
    <3>6. IsFiniteSet(Rest) /\ Cardinality(Rest) <= g[T \ {i}]
      BY <3>3
    <3>7. g[T] = Attempts(plan)[i] + g[T \ {i}] /\ g[T \ {i}] \in Nat
      BY <1>3, <3>1, <3>2
    <3> HIDE DEF R, Rest
    <3>8. /\ IsFiniteSet(Rest \cup R)
          /\ Cardinality(Rest \cup R) =
                 Cardinality(Rest) + Cardinality(R) - Cardinality(Rest \cap R)
      BY <3>5, <3>6, FS_Union
    <3>9. Cardinality(Rest \cap R) \in Nat /\ Cardinality(Rest) \in Nat
      BY <3>6, FS_Intersection, FS_CardinalityType
    <3>10. Cardinality(Rest \cup R) <= g[T]
      BY <3>5, <3>6, <3>7, <3>8, <3>9
    <3> QED BY <2>3, <3>4, <3>8, <3>10
  <2> QED BY <2>4, <2>5
<1>5. Good(U)
  BY <1>4
<1> QED BY <1>5, FS_CardinalityType

\* No two calls of a plan share a reservation.
LEMMA CallsAreApart ==
    ASSUME NEW plan \in Plans, NEW i \in DOMAIN plan.calls, NEW j \in DOMAIN plan.calls, i # j,
           NEW r \in Range(plan.calls[i].attempts)
    PROVE  r \notin Range(plan.calls[j].attempts)
<1> SUFFICES ASSUME r \in Range(plan.calls[j].attempts) PROVE FALSE
  OBVIOUS
<1> DEFINE S == DOMAIN plan.calls
           R == Range(plan.calls[i].attempts) \ {r}
           Rest == AskedBy(plan, S \ {i})
<1>1. PICK g : /\ IsSum(g, Attempts(plan), S)
               /\ Cardinality(ReservationsOf(plan)) = g[S]
               /\ IsFiniteSet(S)
  BY PlanIsCounted
<1>2. /\ IsFiniteSet(Rest) /\ Cardinality(Rest) \in Nat
      /\ Cardinality(Rest) <= g[S \ {i}]
  BY <1>1, AskedAtMost
<1>3. \A T \in SUBSET S : g[T] \in Nat /\ \A k \in T : g[T] = Attempts(plan)[k] + g[T \ {k}]
  BY <1>1, AttemptsAdd
<1>4. g[S] = Attempts(plan)[i] + g[S \ {i}] /\ g[S \ {i}] \in Nat /\ Attempts(plan)[i] \in Nat
  <2>1. i \in S /\ S \in SUBSET S /\ S \ {i} \in SUBSET S
    OBVIOUS
  <2>2. Attempts(plan)[i] \in Nat
    BY AttemptsAreNat
  <2> HIDE DEF S
  <2> QED BY <1>3, <2>1, <2>2
<1>5. /\ IsFiniteSet(R) /\ Cardinality(R) \in Nat
      /\ Cardinality(R) < Attempts(plan)[i]
  <2>1. plan.calls[i].attempts \in Seq(Range(plan.calls[i].attempts))
    BY PlanShape DEF IsCall
  <2>2. /\ IsFiniteSet(Range(plan.calls[i].attempts))
        /\ Cardinality(Range(plan.calls[i].attempts)) \in Nat
        /\ Cardinality(Range(plan.calls[i].attempts)) <= Attempts(plan)[i]
    BY <2>1, RangeIsFinite DEF Attempts
  <2>3. IsFiniteSet(R) /\ Cardinality(R) = Cardinality(Range(plan.calls[i].attempts)) - 1
    BY <2>2, FS_RemoveElement
  <2> QED BY <1>4, <2>2, <2>3, FS_CardinalityType
<1>6. ReservationsOf(plan) = Rest \cup R
  BY DEF ReservationsOf, AskedBy
<1> HIDE DEF S, R, Rest
<1>7. Cardinality(Rest \cup R) = Cardinality(Rest) + Cardinality(R) - Cardinality(Rest \cap R)
  BY <1>2, <1>5, FS_Union
<1>8. Cardinality(Rest \cap R) \in Nat
  BY <1>2, FS_Intersection, FS_CardinalityType
<1> QED BY <1>1, <1>2, <1>4, <1>5, <1>6, <1>7, <1>8

-----------------------------------------------------------------------------
(* What a run has paid, and what its report says of it. *)

\* No reservation of the call has been used.
Untouched(planned, L) == \A r \in Range(planned.attempts) : r.id \notin DOMAIN L.usages

\* The calls before the current one are paid and the others have no usage.
PaidUpTo(calls, index, L) ==
    \A i \in DOMAIN calls :
        /\ i < index => IsPaid(calls[i], L)
        /\ ~(i < index) => Untouched(calls[i], L)

PaidInOrder ==
    run # NoValue => run.after.stop = Open /\ PaidUpTo(run.plan.calls, run.index, run.after)

\* Of a result, what is paid is what is counted.
IsTrueReport(result, L) ==
    /\ result.plan \in Plans /\ result.completed \in Int
    /\ \A i \in DOMAIN result.plan.calls :
          IsPaid(result.plan.calls[i], L) <=> i <= result.completed
    /\ result.status = "COMPLETED" <=> result.completed = Len(result.plan.calls)

PaidInv ==
    /\ WithinInv
    /\ PaidInOrder
    /\ report # NoValue => run = NoValue /\ IsTrueReport(report, ledger)

\* What a call was paid is all that its usages say.
LEMMA SameUsagesSamePaid ==
    ASSUME NEW L, NEW M, M.usages = L.usages, NEW planned
    PROVE  IsPaid(planned, M) <=> IsPaid(planned, L)
  BY DEF IsPaid, IsResolved

LEMMA UntouchedIsUnpaid ==
    ASSUME NEW L, NEW planned, Untouched(planned, L)
    PROVE  ~IsPaid(planned, L)
  BY DEF Untouched, IsPaid, IsResolved

\* What a plan may begin with has not been used.
LEMMA PreflightIsUntouched ==
    ASSUME NEW L, BudgetSound(L), NEW plan \in Plans, Preflight(L, plan)
    PROVE  L.stop = Open /\ PaidUpTo(plan.calls, 1, L)
<1>1. L.stop = Open /\ \A r \in ReservationsOf(plan) : r \in Active(L)
  BY DEF Preflight, IsAuthorized
<1>2. ASSUME NEW i \in DOMAIN plan.calls
      PROVE  ~(i < 1) /\ Untouched(plan.calls[i], L)
  <2>1. ~(i < 1)
    BY PlanShape
  <2>2. ASSUME NEW r \in Range(plan.calls[i].attempts)
        PROVE  r.id \notin DOMAIN L.usages
    <3>1. r \in Active(L)
      BY <1>1 DEF ReservationsOf
    <3>2. r.id \in DOMAIN L.usages => L.usages[r.id].resolved
      BY <1>1 DEF BudgetSound
    <3> QED BY <3>1, <3>2 DEF Active, IsResolved
  <2> QED BY <2>1, <2>2 DEF Untouched
<1> QED BY <1>1, <1>2 DEF PaidUpTo

\* A result with nothing paid but the calls before the current one.
LEMMA PartialIsTrue ==
    ASSUME ShadowInv, PaidInOrder, run # NoValue,
           NEW M, NEW failure, NEW status, status # "COMPLETED",
           \A i \in DOMAIN run.plan.calls :
               IsPaid(run.plan.calls[i], M) <=> IsPaid(run.plan.calls[i], run.after)
    PROVE  IsTrueReport(Report(status, failure, run.index - 1), M)
<1>1. /\ run.plan \in Plans /\ run.index \in DOMAIN run.plan.calls
      /\ run.plan.calls \in Seq(Range(run.plan.calls))
  BY PlanShape DEF ShadowInv, RunIsHeld
<1>2. ASSUME NEW i \in DOMAIN run.plan.calls
      PROVE  IsPaid(run.plan.calls[i], M) <=> i <= run.index - 1
  <2>1. IsPaid(run.plan.calls[i], run.after) <=> i < run.index
    BY UntouchedIsUnpaid DEF PaidInOrder, PaidUpTo
  <2>2. i < run.index <=> i <= run.index - 1
    BY <1>1
  <2> QED BY <2>1, <2>2
<1>3. run.index - 1 # Len(run.plan.calls) /\ run.index - 1 \in Int
  BY <1>1
<1> QED BY <1>1, <1>2, <1>3 DEF Report, IsTrueReport

\* What the current attempt has to do with the calls of the plan.
LEMMA AttemptIsOfItsCall ==
    ASSUME WithinInv, run # NoValue, run.attempt # 0
    PROVE  /\ CurrentAttempt \in Range(run.plan.calls[run.index].attempts)
           /\ \A i \in DOMAIN run.plan.calls : i # run.index =>
                  \A r \in Range(run.plan.calls[i].attempts) : r.id # CurrentAttempt.id
<1>0. /\ run.plan \in Plans /\ run.index \in DOMAIN run.plan.calls
      /\ run.attempt \in DOMAIN CurrentCall.attempts
      /\ \A r \in ReservationsOf(run.plan) : r \in Reserved(ledger)
      /\ Booked(ledger)
  BY DEF WithinInv, ShadowInv, RunIsHeld, IsHeld
<1>1. CurrentAttempt \in Range(run.plan.calls[run.index].attempts)
  BY <1>0 DEF CurrentAttempt, CurrentCall, Range
<1>2. CurrentAttempt \in Reserved(ledger)
  BY <1>0, <1>1 DEF ReservationsOf
<1>3. ASSUME NEW i \in DOMAIN run.plan.calls, i # run.index,
             NEW r \in Range(run.plan.calls[i].attempts)
      PROVE  r.id # CurrentAttempt.id
  <2>1. r # CurrentAttempt
    BY <1>0, <1>1, <1>3, CallsAreApart
  <2>2. r \in Reserved(ledger)
    BY <1>0 DEF ReservationsOf
  <2> QED BY <1>0, <1>2, <2>1, <2>2 DEF Booked
<1> QED BY <1>1, <1>3

\* A successful call pays the current call and no other.
LEMMA SuccessPaysNext ==
    ASSUME WithinInv, PaidInOrder, run # NoValue, run.attempt # 0,
           NEW M, NEW amounts,
           M.usages = WithUsage(run.after, CurrentAttempt, Usage(amounts)),
           CurrentAttempt.id \notin DOMAIN run.after.usages
    PROVE  PaidUpTo(run.plan.calls, run.index + 1, M)
<1> DEFINE now == CurrentAttempt.id
           calls == run.plan.calls
<1>1. /\ DOMAIN M.usages = DOMAIN run.after.usages \cup {now}
      /\ M.usages[now].resolved
      /\ \A id \in DOMAIN run.after.usages : M.usages[id] = run.after.usages[id]
  BY DEF WithUsage, Usage
<1>2. /\ run.plan \in Plans /\ run.index \in DOMAIN calls
      /\ calls \in Seq(Range(calls))
  BY PlanShape DEF WithinInv, ShadowInv, RunIsHeld
<1>3. ASSUME NEW i \in DOMAIN calls
      PROVE  /\ i < run.index + 1 => IsPaid(calls[i], M)
             /\ ~(i < run.index + 1) => Untouched(calls[i], M)
  <2>1. CASE i = run.index
    <3>1. IsPaid(calls[i], M)
      BY <1>1, <2>1, AttemptIsOfItsCall DEF IsPaid, IsResolved
    <3>2. i < run.index + 1
      BY <1>2, <2>1
    <3> QED BY <3>1, <3>2
  <2>2. CASE i # run.index
    <3>1. i < run.index + 1 <=> i < run.index
      BY <1>2, <2>2
    <3>2. CASE i < run.index
      <4>1. IsPaid(calls[i], run.after)
        BY <3>2 DEF PaidInOrder, PaidUpTo
      <4>2. IsPaid(calls[i], M)
        BY <1>1, <4>1 DEF IsPaid, IsResolved
      <4> QED BY <3>1, <3>2, <4>2
    <3>3. CASE ~(i < run.index)
      <4>1. Untouched(calls[i], run.after)
        BY <3>3 DEF PaidInOrder, PaidUpTo
      <4>2. Untouched(calls[i], M)
        BY <1>1, <2>2, <4>1, AttemptIsOfItsCall DEF Untouched
      <4> QED BY <3>1, <3>3, <4>2
    <3> QED BY <3>2, <3>3
  <2> QED BY <2>1, <2>2
<1> HIDE DEF calls
<1>4. PaidUpTo(calls, run.index + 1, M)
  BY <1>3 DEF PaidUpTo
<1> QED BY <1>4 DEF calls

\* A usage of unknown cost pays nothing.
LEMMA UncertainPaysNothing ==
    ASSUME WithinInv, run # NoValue, run.attempt # 0,
           NEW M, M.usages = WithUsage(run.after, CurrentAttempt, Uncertain),
           CurrentAttempt.id \notin DOMAIN run.after.usages,
           NEW planned
    PROVE  IsPaid(planned, M) <=> IsPaid(planned, run.after)
<1> DEFINE now == CurrentAttempt.id
<1>1. /\ DOMAIN M.usages = DOMAIN run.after.usages \cup {now}
      /\ ~M.usages[now].resolved
      /\ \A id \in DOMAIN run.after.usages : M.usages[id] = run.after.usages[id]
  BY DEF WithUsage, Uncertain
<1> QED BY <1>1 DEF IsPaid, IsResolved

\* Every step keeps what is paid in order, and the report true.
LEMMA PaidStep ==
    ASSUME PaidInv, [ShadowNext]_shadowVars
    PROVE  PaidInv'
<1>0. /\ WithinInv /\ WithinInv' /\ ShadowInv /\ PaidInOrder
      /\ report # NoValue => run = NoValue /\ IsTrueReport(report, ledger)
  BY WithinStep DEF PaidInv, WithinInv
<1>1. ASSUME NEW M, M.usages = ledger.usages, IsTrueReport(report, ledger)
      PROVE  IsTrueReport(report, M)
  BY <1>1, SameUsagesSamePaid DEF IsTrueReport
<1>2. CASE \/ \E request \in Requests : Reserve(request)
           \/ \E r \in Escalations : ReserveEscalation(r)
           \/ \E r \in Reserved(ledger) : ReleaseCall(r)
           \/ ActivateHardStop
  <2>1. run = NoValue /\ run' = NoValue /\ report' = report
    BY <1>2 DEF Reserve, ReserveEscalation, ReleaseCall, ActivateHardStop
  <2>2. BudgetSound(ledger)
    BY <1>0 DEF ShadowInv
  <2>3. \A L, r : BudgetSound(L) => AfterReserve(L, r).usages = L.usages
    BY DEF BudgetSound, AfterReserve
  <2>4. ASSUME NEW request \in Requests, Reserve(request)
        PROVE  ledger'.usages = ledger.usages
    <3>1. BudgetSound(AfterReserve(ledger, request[1]))
      BY <2>2, ReserveIsSound
    <3> QED BY <2>2, <2>3, <2>4, <3>1 DEF Reserve
  <2>5. ASSUME NEW r \in Escalations, ReserveEscalation(r)
        PROVE  ledger'.usages = ledger.usages
    BY <2>2, <2>3, <2>5 DEF ReserveEscalation
  <2>6. ASSUME NEW r, ReleaseCall(r)
        PROVE  ledger'.usages = ledger.usages
    BY <2>2, <2>6 DEF ReleaseCall, AfterRelease, BudgetSound
  <2>7. ASSUME ActivateHardStop
        PROVE  ledger'.usages = ledger.usages
    <3>1. ledger' = [ reservations |-> ledger.reservations, usages |-> ledger.usages,
                      released |-> ledger.released, stop |-> HardStop ]
      BY <2>2, <2>7 DEF ActivateHardStop, AfterHardStop, BudgetSound
    <3> QED BY <3>1
  <2>8. ledger'.usages = ledger.usages
    BY <1>2, <2>4, <2>5, <2>6, <2>7, Zenon
  <2>9. report' # NoValue => IsTrueReport(report', ledger')
    BY <1>0, <1>1, <2>1, <2>8
  <2> QED BY <1>0, <2>1, <2>9 DEF PaidInv, PaidInOrder
<1>3. ASSUME NEW plan \in Plans, Deny(plan) \/ BeginPlan(plan)
      PROVE  PaidInv'
  <2>1. report' = NoValue
    BY <1>3 DEF Deny, BeginPlan
  <2>2. CASE Deny(plan)
    BY <1>0, <2>1, <2>2 DEF Deny, PaidInv, PaidInOrder
  <2>3. CASE BeginPlan(plan)
    <3>1. /\ run'.plan = plan /\ run'.index = 1 /\ run'.after = ledger
          /\ Preflight(ledger, plan) /\ BudgetSound(ledger)
      BY <1>0, <2>3 DEF BeginPlan, ShadowInv
    <3>2. ledger.stop = Open /\ PaidUpTo(plan.calls, 1, ledger)
      BY <3>1, PreflightIsUntouched
    <3> QED BY <1>0, <2>1, <3>1, <3>2 DEF PaidInv, PaidInOrder
  <2> QED BY <1>3, <2>2, <2>3
<1>4. CASE Invoke \/ Retry
  <2>1. /\ run # NoValue /\ report' = report
        /\ run'.plan = run.plan /\ run'.index = run.index /\ run'.after = run.after
    BY <1>0, <1>4 DEF Invoke, Retry, Attempt, ShadowInv, RunIsHeld
  <2>2. report' = NoValue
    BY <1>0, <2>1
  <2> QED BY <1>0, <2>1, <2>2 DEF PaidInv, PaidInOrder
<1>5. CASE InvocationRaises \/ ResponseRaises
  <2>1. run' = NoValue /\ report' = NoValue
    BY <1>5 DEF InvocationRaises, ResponseRaises, Raise
  <2> QED BY <1>0, <2>1 DEF PaidInv, PaidInOrder
<1>6. CASE CircuitIsOpen \/ CallFails \/ UsageIsRefused
  <2>1. PICK failure : /\ run # NoValue /\ run' = NoValue /\ ledger' = run.after
                       /\ report' = Report("PARTIAL_EVIDENCE", failure, run.index - 1)
    BY <1>6 DEF CircuitIsOpen, CallFails, UsageIsRefused, Attempt, End
  <2>2. IsTrueReport(Report("PARTIAL_EVIDENCE", failure, run.index - 1), run.after)
    BY <1>0, <2>1, PartialIsTrue
  <2> QED BY <1>0, <2>1, <2>2 DEF PaidInv, PaidInOrder
<1>7. CASE OutcomeIsUncertain
  <2> DEFINE after == AfterUncertain(run.after, CurrentAttempt)
             result == Report("RECONCILIATION_REQUIRED", "UNCERTAIN_TRANSPORT_OUTCOME",
                              run.index - 1)
  <2>1. /\ run # NoValue /\ run.attempt # 0
        /\ CanReconcileUncertain(run.after, CurrentAttempt)
        /\ BudgetSound(run.after)
    BY <1>0, <1>7 DEF OutcomeIsUncertain, Attempt, ShadowInv, RunIsHeld
  <2>2. after.usages = WithUsage(run.after, CurrentAttempt, Uncertain)
    BY <2>1, UsageFields
  <2>3. run' = NoValue /\ ledger' = after /\ report' = result
    BY <1>7 DEF OutcomeIsUncertain, End
  <2> HIDE DEF after
  <2>4. \A i \in DOMAIN run.plan.calls :
            IsPaid(run.plan.calls[i], after) <=> IsPaid(run.plan.calls[i], run.after)
    BY <1>0, <2>1, <2>2, UncertainPaysNothing DEF CanReconcileUncertain
  <2>5. IsTrueReport(result, after)
    BY <1>0, <2>1, <2>4, PartialIsTrue
  <2> HIDE DEF result
  <2> QED BY <1>0, <2>3, <2>5 DEF PaidInv, PaidInOrder
<1>8. ASSUME NEW amounts \in Usages, CallSucceeds(amounts)
      PROVE  PaidInv'
  <2> DEFINE after == AfterCommit(run.after, CurrentAttempt, amounts)
  <2>1. /\ run # NoValue /\ run.attempt # 0
        /\ CanCommit(run.after, CurrentAttempt, amounts, TRUE)
        /\ BudgetSound(run.after)
        /\ run = [ plan |-> run.plan, index |-> run.index,
                   attempt |-> run.attempt, after |-> run.after ]
        /\ run.plan \in Plans /\ run.index \in DOMAIN run.plan.calls
        /\ run.plan.calls \in Seq(Range(run.plan.calls))
    BY <1>0, <1>8, PlanShape DEF CallSucceeds, Attempt, ShadowInv, RunIsHeld
  <2>2. /\ after.usages = WithUsage(run.after, CurrentAttempt, Usage(amounts))
        /\ after.stop = run.after.stop
    BY <2>1, UsageFields
  <2>3. \/ /\ run.index = Len(run.plan.calls)
           /\ run' = NoValue /\ ledger' = after
           /\ report' = Report("COMPLETED", "NONE", run.index)
        \/ /\ run' = [ plan |-> run.plan, index |-> run.index + 1,
                       attempt |-> 0, after |-> after ]
           /\ report' = report
    BY <1>8, <2>1 DEF CallSucceeds, End
  <2> HIDE DEF after
  <2>4. PaidUpTo(run.plan.calls, run.index + 1, after)
    BY <1>0, <2>1, <2>2, SuccessPaysNext DEF CanCommit
  <2>5. ASSUME run.index = Len(run.plan.calls),
               run' = NoValue, ledger' = after,
               report' = Report("COMPLETED", "NONE", run.index)
        PROVE  PaidInv'
    <3>2. ASSUME NEW i \in DOMAIN run.plan.calls
          PROVE  IsPaid(run.plan.calls[i], after) <=> i <= run.index
      <4>1. i < run.index + 1 /\ i <= run.index
        BY <2>1, <2>5
      <4> QED BY <2>4, <4>1 DEF PaidUpTo
    <3>3. IsTrueReport(Report("COMPLETED", "NONE", run.index), after)
      BY <2>1, <2>5, <3>2 DEF IsTrueReport, Report
    <3> QED BY <1>0, <2>5, <3>3 DEF PaidInv, PaidInOrder
  <2>6. ASSUME run' = [ plan |-> run.plan, index |-> run.index + 1,
                        attempt |-> 0, after |-> after ],
               report' = report
        PROVE  PaidInv'
    <3>1. /\ run'.plan = run.plan /\ run'.index = run.index + 1 /\ run'.after = after
          /\ report' = NoValue
      BY <1>0, <2>1, <2>6
    <3>2. after.stop = Open
      BY <1>0, <2>1, <2>2 DEF PaidInOrder
    <3> QED BY <1>0, <2>4, <3>1, <3>2 DEF PaidInv, PaidInOrder
  <2> QED BY <2>3, <2>5, <2>6
<1>9. CASE UNCHANGED shadowVars
  BY <1>0, <1>9 DEF shadowVars, PaidInv, PaidInOrder
<1> QED BY <1>2, <1>3, <1>4, <1>5, <1>6, <1>7, <1>8, <1>9 DEF ShadowNext

\* Every step keeps the order in which calls are paid.
THEOREM PaidInvHolds == ShadowSpec => []PaidInv
<1>1. ShadowInit => PaidInv
  <2> SUFFICES ASSUME ShadowInit PROVE PaidInv
    OBVIOUS
  <2>1. WithinInv
    BY InitIsWithin
  <2> QED BY <2>1 DEF ShadowInit, PaidInv, PaidInOrder
<1> QED BY <1>1, PaidStep, PTL DEF ShadowSpec

\* The preflight of the whole plan is enough for each of its calls: whatever the
\* calls before it left, the reservations of the next one are still good.
THEOREM PreflightSufficesTheorem == ShadowSpec => []PreflightSuffices
<1>1. ASSUME PaidInv, run # NoValue
      PROVE  IsBudgeted(run.after, CurrentCall)
  <2>1. /\ run.index \in DOMAIN run.plan.calls
        /\ SameReservations(ledger, run.after)
        /\ \A r \in ReservationsOf(run.plan) : IsHeld(ledger, r)
    BY <1>1 DEF PaidInv, WithinInv, ShadowInv, RunIsHeld
  <2>2. /\ run.after.stop = Open
        /\ PaidUpTo(run.plan.calls, run.index, run.after)
    BY <1>1 DEF PaidInv, PaidInOrder
  <2>3. run.plan \in Plans
    BY <1>1 DEF PaidInv, WithinInv, ShadowInv, RunIsHeld
  <2>4. ~(run.index < run.index)
    BY <2>1, <2>3, PlanShape
  <2>5. Untouched(CurrentCall, run.after)
    BY <2>1, <2>2, <2>4 DEF PaidUpTo, CurrentCall
  <2>6. ASSUME NEW r \in Range(CurrentCall.attempts)
        PROVE  IsAuthorized(run.after, r) /\ r.id \notin DOMAIN run.after.usages
    <3>1. r \in ReservationsOf(run.plan)
      BY <2>1 DEF ReservationsOf, CurrentCall
    <3>2. r \in Reserved(run.after) /\ r.id \notin run.after.released
      BY <2>1, <3>1 DEF IsHeld, SameReservations, Reserved
    <3>3. r.id \notin DOMAIN run.after.usages
      BY <2>5 DEF Untouched
    <3> QED BY <2>2, <3>2, <3>3 DEF IsAuthorized, Active, IsResolved
  <2> QED BY <2>6 DEF IsBudgeted
<1>2. PaidInv => PreflightSuffices
  BY <1>1 DEF PreflightSuffices
<1> QED BY <1>2, PaidInvHolds, PTL

\* A run has paid exactly the calls it counts as completed, in order, and its
\* result says so of the ledger it hands back.
THEOREM ReportsMatchLedgerTheorem == ShadowSpec => []ReportsMatchLedger
<1>1. ASSUME PaidInv PROVE ReportsMatchLedger
  <2>1. ASSUME run # NoValue, NEW i \in DOMAIN run.plan.calls
        PROVE  IsPaid(run.plan.calls[i], run.after) = (i < run.index)
    <3>1. IsPaid(run.plan.calls[i], run.after) <=> i < run.index
      BY <1>1, <2>1, UntouchedIsUnpaid DEF PaidInv, PaidInOrder, PaidUpTo
    <3>2. i \in Int /\ run.index \in Int
      BY <1>1, <2>1, PlanShape DEF PaidInv, WithinInv, ShadowInv, RunIsHeld
    <3>3. (i < run.index) \in BOOLEAN
      BY <3>2
    <3> QED BY <3>1, <3>3 DEF IsPaid
  <2>2. ASSUME report # NoValue, NEW i \in DOMAIN report.plan.calls
        PROVE  IsPaid(report.plan.calls[i], ledger) = (i <= report.completed)
    <3>1. IsPaid(report.plan.calls[i], ledger) <=> i <= report.completed
      BY <1>1, <2>2 DEF PaidInv, IsTrueReport
    <3>2. i \in Int /\ report.completed \in Int
      BY <1>1, <2>2, PlanShape DEF PaidInv, IsTrueReport
    <3>3. (i <= report.completed) \in BOOLEAN
      BY <3>2
    <3> QED BY <3>1, <3>3 DEF IsPaid
  <2>3. ASSUME report # NoValue
        PROVE  (report.status = "COMPLETED") = (report.completed = Len(report.plan.calls))
    BY <1>1, <2>3 DEF PaidInv, IsTrueReport
  <2> QED BY <2>1, <2>2, <2>3 DEF ReportsMatchLedger
<1>2. PaidInv => ReportsMatchLedger
  BY <1>1
<1> QED BY <1>2, PaidInvHolds, PTL

-----------------------------------------------------------------------------
(* The forward test: any number of executions, symbols and candles and any *)
(* lookback. *)

Names == {"resolution", "temporary"}

\* Of n candles, those a horizon asks for.
Reached(n) == IF n < 3 THEN n ELSE 3

\* The results are those of the first of n closed candles, without a gap.
IsTrue(resolved, n, votes) ==
    /\ resolved = [s \in Symbols |-> resolved[s]]
    /\ \A s \in Symbols : \E k \in 0 .. Reached(n) :
          /\ DOMAIN resolved[s] = 1 .. k
          /\ \A h \in 1 .. k : resolved[s][h] = votes[s][h]

OutcomeTypeOK ==
    /\ clock \in Nat
    /\ closes \in [Symbols -> Seq(Votes)]
    /\ \A s \in Symbols : Len(closes[s]) = Reached(clock)
    /\ file = [n \in Names |-> file[n]]
    /\ proc = [p \in Runs |-> proc[p]]
    /\ verdicts = [s \in Symbols |-> verdicts[s]]

\* Whatever can be read is true.
TextIsTrue(text, n, votes) ==
    text # NoFile /\ text.kind = "whole" => IsTrue(text.resolved, n, votes)

FilesAreTrue == \A x \in Names : TextIsTrue(file[x], clock, closes)

ExecutionIsTrue(execution, n, votes) ==
    /\ execution.at \in {"load", "fetch"} => execution.now \in 0 .. n
    /\ execution.at \in {"fetch", "open", "write"} => IsTrue(execution.resolved, n, votes)

ExecutionsAreTrue == \A p \in Runs : ExecutionIsTrue(proc[p], clock, closes)

\* A verdict is that of the three candles.
VerdictsAreTrue ==
    \A s \in Symbols :
        verdicts[s] \subseteq IF clock < 3 THEN {} ELSE {Verdict(closes[s])}

OutcomeInv ==
    /\ OutcomeTypeOK
    /\ FilesAreTrue
    /\ ExecutionsAreTrue
    /\ VerdictsAreTrue

-----------------------------------------------------------------------------

LEMMA Updated ==
    ASSUME NEW S, NEW f, f = [x \in S |-> f[x]], NEW p \in S, NEW v, NEW g,
           g = [f EXCEPT ![p] = v]
    PROVE  /\ g = [x \in S |-> g[x]]
           /\ \A q \in S : g[q] = IF q = p THEN v ELSE f[q]
  OBVIOUS

LEMMA ExecutionFields ==
    ASSUME NEW at, NEW now, NEW resolved, NEW pending, NEW open
    PROVE  /\ Execution(at, now, resolved, pending, open).at = at
           /\ Execution(at, now, resolved, pending, open).now = now
           /\ Execution(at, now, resolved, pending, open).resolved = resolved
           /\ Execution(at, now, resolved, pending, open).pending = pending
  BY DEF Execution

LEMMA NothingIsTrue ==
    ASSUME OutcomeTypeOK
    PROVE  IsTrue(NothingResolved, clock, closes)
<1>1. \A s \in Symbols : DOMAIN NothingResolved[s] = 1 .. 0
  BY DEF NothingResolved
<1>2. 0 \in 0 .. Reached(clock)
  BY DEF OutcomeTypeOK, Reached
<1> QED
  BY <1>1, <1>2 DEF IsTrue, NothingResolved

\* What is in memory is true, at whatever step.
LEMMA Clean ==
    ASSUME OutcomeTypeOK, NEW step \in {"idle", "replace", "report"}
    PROVE  ExecutionIsTrue(At(step), clock, closes)
  BY ExecutionFields DEF ExecutionIsTrue, At

\* What a file or an execution says of closed candles stays true.
LEMMA TrueStays ==
    ASSUME OutcomeTypeOK, CandleCloses, NEW resolved, IsTrue(resolved, clock, closes)
    PROVE  IsTrue(resolved, clock', closes')
<1>1. clock \in Nat /\ clock' = clock + 1
  BY DEF OutcomeTypeOK, CandleCloses
<1>2. Reached(clock) \in Nat /\ Reached(clock') \in Nat /\ Reached(clock) <= Reached(clock')
  BY <1>1 DEF Reached
<1>3. ASSUME NEW s \in Symbols, NEW h \in 1 .. Reached(clock)
      PROVE  closes'[s][h] = closes[s][h]
  <2>1. closes[s] \in Seq(Votes) /\ h \in 1 .. Len(closes[s])
    BY <1>3 DEF OutcomeTypeOK
  <2>2. CASE clock' \in Horizons
    <3>1. PICK vote \in [Symbols -> Votes] : closes' = [q \in Symbols |-> Append(closes[q], vote[q])]
      BY <2>2 DEF CandleCloses
    <3>2. closes'[s] = Append(closes[s], vote[s]) /\ vote[s] \in Votes
      BY <3>1
    <3> QED
      BY <2>1, <3>2
  <2>3. CASE clock' \notin Horizons
    BY <2>3 DEF CandleCloses
  <2> QED
    BY <2>2, <2>3
<1>4. ASSUME NEW s \in Symbols
      PROVE  \E k \in 0 .. Reached(clock') :
                /\ DOMAIN resolved[s] = 1 .. k
                /\ \A h \in 1 .. k : resolved[s][h] = closes'[s][h]
  <2>1. PICK k \in 0 .. Reached(clock) :
            /\ DOMAIN resolved[s] = 1 .. k
            /\ \A h \in 1 .. k : resolved[s][h] = closes[s][h]
    BY DEF IsTrue
  <2>2. \A h \in 1 .. k : resolved[s][h] = closes'[s][h]
    BY <2>1, <1>2, <1>3
  <2>3. k \in 0 .. Reached(clock')
    BY <1>2
  <2> QED
    BY <2>1, <2>2, <2>3
<1> QED
  BY <1>4 DEF IsTrue

LEMMA InitIsTrue == OutcomeInit => OutcomeInv
<1> SUFFICES ASSUME OutcomeInit PROVE OutcomeInv
  OBVIOUS
<1>1. OutcomeTypeOK
  <2>1. clock = 0 /\ Reached(clock) = 0
    BY DEF OutcomeInit, Reached
  <2>2. \A s \in Symbols : closes[s] = <<>>
    BY DEF OutcomeInit
  <2>3. closes \in [Symbols -> Seq(Votes)]
    BY DEF OutcomeInit
  <2>4. file = [n \in Names |-> file[n]]
    BY DEF OutcomeInit, Names
  <2>5. proc = [p \in Runs |-> proc[p]] /\ verdicts = [s \in Symbols |-> verdicts[s]]
    BY DEF OutcomeInit
  <2> QED
    BY <2>1, <2>2, <2>3, <2>4, <2>5 DEF OutcomeTypeOK
<1>2. FilesAreTrue
  BY DEF OutcomeInit, FilesAreTrue, TextIsTrue, Names
<1>3. ExecutionsAreTrue
  BY <1>1, Clean DEF OutcomeInit, ExecutionsAreTrue, Idle
<1>4. VerdictsAreTrue
  BY DEF OutcomeInit, VerdictsAreTrue
<1> QED
  BY <1>1, <1>2, <1>3, <1>4 DEF OutcomeInv

LEMMA CandleKeepsTypes ==
    ASSUME OutcomeInv, CandleCloses
    PROVE  OutcomeTypeOK' /\ VerdictsAreTrue'
<1> USE DEF OutcomeInv
<1>1. clock \in Nat /\ clock' = clock + 1 /\ UNCHANGED <<file, proc, verdicts>>
  BY DEF OutcomeTypeOK, CandleCloses
<1>2. CASE clock' \in Horizons
  <2>1. PICK vote \in [Symbols -> Votes] : closes' = [q \in Symbols |-> Append(closes[q], vote[q])]
    BY <1>2 DEF CandleCloses
  <2>2. clock < 3 /\ Reached(clock') = Reached(clock) + 1
    BY <1>1, <1>2 DEF Horizons, Reached
  <2>3. \A s \in Symbols :
           closes'[s] \in Seq(Votes) /\ Len(closes'[s]) = Len(closes[s]) + 1
    BY <2>1 DEF OutcomeTypeOK
  <2>4. closes' \in [Symbols -> Seq(Votes)]
    BY <2>1, <2>3
  <2>5. OutcomeTypeOK'
    BY <1>1, <2>2, <2>3, <2>4 DEF OutcomeTypeOK
  <2>6. VerdictsAreTrue'
    BY <1>1, <2>2 DEF VerdictsAreTrue
  <2> QED
    BY <2>5, <2>6
<1>3. CASE clock' \notin Horizons
  <2>1. closes' = closes /\ ~(clock < 3) /\ Reached(clock') = Reached(clock)
    BY <1>1, <1>3 DEF CandleCloses, Horizons, Reached
  <2>2. OutcomeTypeOK'
    BY <1>1, <2>1 DEF OutcomeTypeOK
  <2>3. VerdictsAreTrue'
    BY <1>1, <2>1 DEF VerdictsAreTrue
  <2> QED
    BY <2>2, <2>3
<1> QED
  BY <1>2, <1>3

LEMMA CandleKeepsTruth ==
    ASSUME OutcomeInv, CandleCloses
    PROVE  FilesAreTrue' /\ ExecutionsAreTrue'
<1>1. clock \in Nat /\ clock' = clock + 1 /\ file' = file /\ proc' = proc
  BY DEF OutcomeInv, OutcomeTypeOK, CandleCloses
<1>2. ASSUME NEW x \in Names PROVE TextIsTrue(file'[x], clock', closes')
  <2>1. TextIsTrue(file[x], clock, closes)
    BY DEF OutcomeInv, FilesAreTrue
  <2> QED
    BY <1>1, <2>1, TrueStays DEF OutcomeInv, TextIsTrue
<1>3. ASSUME NEW p \in Runs PROVE ExecutionIsTrue(proc'[p], clock', closes')
  <2>1. ExecutionIsTrue(proc[p], clock, closes)
    BY DEF OutcomeInv, ExecutionsAreTrue
  <2> QED
    BY <1>1, <2>1, TrueStays DEF OutcomeInv, ExecutionIsTrue
<1> QED
  BY <1>2, <1>3 DEF FilesAreTrue, ExecutionsAreTrue

LEMMA ExecutionMoves ==
    ASSUME OutcomeInv, UNCHANGED <<clock, closes>>,
           NEW p \in Runs, NEW execution,
           proc' = [proc EXCEPT ![p] = execution],
           ExecutionIsTrue(execution, clock, closes)
    PROVE  ExecutionsAreTrue' /\ proc' = [q \in Runs |-> proc'[q]]
<1>1. /\ proc' = [q \in Runs |-> proc'[q]]
      /\ \A q \in Runs : proc'[q] = IF q = p THEN execution ELSE proc[q]
  BY Updated DEF OutcomeInv, OutcomeTypeOK
<1>2. \A q \in Runs : ExecutionIsTrue(proc'[q], clock', closes')
  BY <1>1 DEF OutcomeInv, ExecutionsAreTrue
<1> QED
  BY <1>1, <1>2 DEF ExecutionsAreTrue

LEMMA FileMoves ==
    ASSUME OutcomeInv, UNCHANGED <<clock, closes>>,
           NEW x \in Names, NEW text,
           file' = [file EXCEPT ![x] = text],
           TextIsTrue(text, clock, closes)
    PROVE  FilesAreTrue' /\ file' = [n \in Names |-> file'[n]]
<1>1. /\ file' = [n \in Names |-> file'[n]]
      /\ \A n \in Names : file'[n] = IF n = x THEN text ELSE file[n]
  BY Updated DEF OutcomeInv, OutcomeTypeOK
<1>2. \A n \in Names : TextIsTrue(file'[n], clock', closes')
  BY <1>1 DEF OutcomeInv, FilesAreTrue
<1> QED
  BY <1>1, <1>2 DEF FilesAreTrue

\* An action that only moves one execution.
LEMMA OnlyMoves ==
    ASSUME OutcomeInv, UNCHANGED <<clock, closes, file, verdicts>>,
           NEW p \in Runs, NEW execution,
           proc' = [proc EXCEPT ![p] = execution],
           ExecutionIsTrue(execution, clock, closes)
    PROVE  OutcomeInv'
<1>1. ExecutionsAreTrue' /\ proc' = [q \in Runs |-> proc'[q]]
  BY ExecutionMoves
<1>2. OutcomeTypeOK'
  BY <1>1 DEF OutcomeInv, OutcomeTypeOK
<1>3. FilesAreTrue' /\ VerdictsAreTrue'
  BY DEF OutcomeInv, FilesAreTrue, VerdictsAreTrue
<1> QED
  BY <1>1, <1>2, <1>3 DEF OutcomeInv

LEMMA EndsKeeps ==
    ASSUME OutcomeInv, UNCHANGED <<clock, closes, file, verdicts>>,
           NEW p \in Runs, Ends(p)
    PROVE  OutcomeInv'
<1>1. ExecutionIsTrue(Idle, clock, closes)
  BY Clean DEF OutcomeInv, Idle
<1> QED
  BY <1>1, OnlyMoves DEF Ends

LEMMA StartKeeps ==
    ASSUME OutcomeInv, NEW p \in Runs, Start(p)
    PROVE  OutcomeInv'
<1>1. clock \in 0 .. clock
  BY DEF OutcomeInv, OutcomeTypeOK
<1>2. ExecutionIsTrue(Execution("load", clock, NothingResolved, {}, NoFile), clock, closes)
  BY <1>1, ExecutionFields DEF ExecutionIsTrue
<1> QED
  BY <1>2, OnlyMoves DEF Start

LEMMA LoadedIsTrue ==
    ASSUME OutcomeInv, ~Unreadable
    PROVE  IsTrue(Loaded, clock, closes)
<1>1. CASE Exists("resolution")
  <2>1. TextIsTrue(file["resolution"], clock, closes)
    BY DEF OutcomeInv, FilesAreTrue, Names
  <2> QED
    BY <1>1, <2>1 DEF TextIsTrue, Unreadable, Exists, Loaded
<1>2. CASE ~Exists("resolution")
  BY <1>2, NothingIsTrue DEF Loaded, OutcomeInv
<1> QED
  BY <1>1, <1>2

LEMMA LoadKeeps ==
    ASSUME OutcomeInv, NEW p \in Runs, LoadResolution(p)
    PROVE  OutcomeInv'
<1>1. CASE Unreadable
  BY <1>1, EndsKeeps DEF LoadResolution
<1>2. CASE ~Unreadable
  <2> DEFINE due == {s \in Symbols : Eligible(Loaded[s], proc[p].now) # {}}
             next == IF due # {} THEN "fetch"
                     ELSE IF Exists("resolution") THEN "report" ELSE "open"
             replay == Execution(next, proc[p].now, Loaded, due, NoFile)
  <2>1. proc' = [proc EXCEPT ![p] = replay]
    BY <1>2 DEF LoadResolution
  <2>2. next \in {"fetch", "report", "open"}
    OBVIOUS
  <2>3. proc[p].now \in 0 .. clock
    BY DEF OutcomeInv, ExecutionsAreTrue, ExecutionIsTrue, LoadResolution
  <2>4. replay.at = next /\ replay.now = proc[p].now /\ replay.resolved = Loaded
    BY ExecutionFields
  <2> HIDE DEF next, due, replay
  <2>5. ExecutionIsTrue(replay, clock, closes)
    BY <1>2, <2>2, <2>3, <2>4, LoadedIsTrue DEF ExecutionIsTrue
  <2> QED
    BY <2>1, <2>5, OnlyMoves DEF LoadResolution
<1> QED
  BY <1>1, <1>2

\* What is merged continues what was known.
LEMMA MergedIsTrue ==
    ASSUME NEW n \in Nat, NEW now \in 0 .. n, NEW votes, NEW known, NEW result,
           NEW k \in 0 .. Reached(n),
           DOMAIN known = 1 .. k,
           \A h \in 1 .. k : known[h] = votes[h],
           \A h \in Eligible(known, now) : result[h] = votes[h]
    PROVE  \E j \in 0 .. Reached(n) :
              /\ DOMAIN Merged(known, Eligible(known, now), result) = 1 .. j
              /\ \A h \in 1 .. j : Merged(known, Eligible(known, now), result)[h] = votes[h]
<1> DEFINE j == IF Reached(now) > k THEN Reached(now) ELSE k
           due == Eligible(known, now)
<1>1. /\ Reached(n) \in Nat /\ Reached(n) <= 3
      /\ Reached(now) \in Nat /\ Reached(now) <= Reached(n)
      /\ \A h \in Nat : h <= Reached(now) <=> h <= 3 /\ h <= now
  BY DEF Reached
<1>2. j \in 0 .. Reached(n)
  BY <1>1
<1>3. due = {h \in 1 .. 3 : ~(h \in 1 .. k) /\ now >= h}
  BY DEF Eligible, Horizons
<1>4. (1 .. k) \cup due = 1 .. j
  BY <1>1, <1>3
<1>5. DOMAIN Merged(known, due, result) = 1 .. j
  BY <1>4 DEF Merged
<1>6. ASSUME NEW h \in 1 .. j PROVE Merged(known, due, result)[h] = votes[h]
  <2>1. Merged(known, due, result)[h] = IF h \in due THEN result[h] ELSE known[h]
    BY <1>4 DEF Merged
  <2>2. h \in due \/ h \in 1 .. k
    BY <1>4
  <2> QED
    BY <2>1, <2>2
<1> QED
  BY <1>2, <1>5, <1>6

LEMMA FetchKeeps ==
    ASSUME OutcomeInv, NEW p \in Runs, NEW s \in Symbols, Fetch(p, s)
    PROVE  OutcomeInv'
<1> DEFINE known == proc[p].resolved[s]
           due == Eligible(known, proc[p].now)
<1>1. PICK result \in [due -> Votes] :
         /\ \A h \in due : result[h] \in VotesAt(s, h)
         /\ proc' = [proc EXCEPT ![p] = Fetched(proc[p], s, Merged(known, due, result))]
  BY DEF Fetch
<1> DEFINE results == Merged(known, due, result)
<1>2. /\ clock \in Nat
      /\ proc[p].now \in 0 .. clock
      /\ IsTrue(proc[p].resolved, clock, closes)
  BY DEF OutcomeInv, OutcomeTypeOK, ExecutionsAreTrue, ExecutionIsTrue, Fetch
<1>3. PICK k \in 0 .. Reached(clock) :
         /\ DOMAIN known = 1 .. k
         /\ \A h \in 1 .. k : known[h] = closes[s][h]
  BY <1>2 DEF IsTrue
<1>4. ASSUME NEW h \in due PROVE result[h] = closes[s][h]
  <2>1. h \in 1 .. 3 /\ proc[p].now >= h
    BY DEF Eligible, Horizons
  <2>2. h <= clock
    BY <1>2, <2>1
  <2>3. result[h] \in VotesAt(s, h)
    BY <1>1
  <2> QED
    BY <2>2, <2>3 DEF VotesAt
<1>5. \E j \in 0 .. Reached(clock) :
         /\ DOMAIN results = 1 .. j
         /\ \A h \in 1 .. j : results[h] = closes[s][h]
  <2> DEFINE now == proc[p].now
             votes == closes[s]
  <2>1. /\ now \in 0 .. clock
        /\ \A h \in 1 .. k : known[h] = votes[h]
        /\ \A h \in Eligible(known, now) : result[h] = votes[h]
    BY <1>2, <1>3, <1>4
  <2> HIDE DEF now, votes, known
  <2>2. \E j \in 0 .. Reached(clock) :
           /\ DOMAIN Merged(known, Eligible(known, now), result) = 1 .. j
           /\ \A h \in 1 .. j : Merged(known, Eligible(known, now), result)[h] = votes[h]
    BY <1>2, <1>3, <2>1, MergedIsTrue
  <2> QED
    BY <2>2 DEF now, votes
<1> HIDE DEF results, due, known
<1> DEFINE resolved == [proc[p].resolved EXCEPT ![s] = results]
<1>6. /\ resolved = [q \in Symbols |-> resolved[q]]
      /\ \A q \in Symbols : resolved[q] = IF q = s THEN results ELSE proc[p].resolved[q]
  BY <1>2, Updated DEF IsTrue
<1>7. IsTrue(resolved, clock, closes)
  <2> HIDE DEF resolved
  <2> QED
    BY <1>2, <1>5, <1>6 DEF IsTrue
<1> DEFINE fetched == Fetched(proc[p], s, results)
<1>8. /\ fetched.at \in {"open", "fetch"}
      /\ fetched.now = proc[p].now
      /\ fetched.resolved = resolved
  BY ExecutionFields DEF Fetched
<1> HIDE DEF resolved, fetched
<1>9. ExecutionIsTrue(fetched, clock, closes)
  BY <1>2, <1>7, <1>8 DEF ExecutionIsTrue
<1>10. proc' = [proc EXCEPT ![p] = fetched]
  BY <1>1 DEF fetched, results, due, known
<1> QED
  BY <1>9, <1>10, OnlyMoves DEF Fetch

LEMMA UnwrittenIsTrue ==
    /\ TextIsTrue(NoFile, clock, closes)
    /\ TextIsTrue(Blank, clock, closes)
    /\ TextIsTrue(Torn, clock, closes)
  BY DEF TextIsTrue, Blank, Torn, Text

LEMMA OpenKeeps ==
    ASSUME OutcomeInv, NEW p \in Runs, OpenTemporary(p)
    PROVE  OutcomeInv'
<1> DEFINE opened == Execution("write", proc[p].now, proc[p].resolved, {}, "temporary")
<1>1. opened.at = "write" /\ opened.resolved = proc[p].resolved
  BY ExecutionFields
<1>2. IsTrue(proc[p].resolved, clock, closes)
  BY DEF OutcomeInv, ExecutionsAreTrue, ExecutionIsTrue, OpenTemporary
<1>3. proc' = [proc EXCEPT ![p] = opened] /\ UNCHANGED <<clock, closes, verdicts>>
  BY DEF OpenTemporary
<1> HIDE DEF opened
<1>4. ExecutionIsTrue(opened, clock, closes)
  BY <1>1, <1>2 DEF ExecutionIsTrue
<1>5. ExecutionsAreTrue' /\ proc' = [q \in Runs |-> proc'[q]]
  BY <1>3, <1>4, ExecutionMoves
<1>6. FilesAreTrue' /\ file' = [n \in Names |-> file'[n]]
  BY <1>3, FileMoves, UnwrittenIsTrue DEF OpenTemporary, Names
<1> QED
  BY <1>3, <1>5, <1>6 DEF OutcomeInv, OutcomeTypeOK, VerdictsAreTrue

LEMMA WriteKeeps ==
    ASSUME OutcomeInv, NEW p \in Runs, Write(p)
    PROVE  OutcomeInv'
<1>1. UNCHANGED <<clock, closes, verdicts>> /\ proc' = [proc EXCEPT ![p] = At("replace")]
  BY DEF Write
<1>2. ExecutionIsTrue(At("replace"), clock, closes)
  BY Clean DEF OutcomeInv
<1>3. ExecutionsAreTrue' /\ proc' = [q \in Runs |-> proc'[q]]
  BY <1>1, <1>2, ExecutionMoves
<1>4. FilesAreTrue' /\ file' = [n \in Names |-> file'[n]]
  <2> DEFINE text == Text("whole", proc[p].resolved)
             open == proc[p].open
  <2>1. TextIsTrue(text, clock, closes)
    BY DEF Text, TextIsTrue, OutcomeInv, ExecutionsAreTrue, ExecutionIsTrue, Write
  <2>2. CASE UNCHANGED file
    BY <1>1, <2>2 DEF OutcomeInv, OutcomeTypeOK, FilesAreTrue
  <2>3. CASE ~UNCHANGED file
    <3>1. PICK after \in {text, Torn} : file' = [file EXCEPT ![open] = after]
      BY <2>3 DEF Write
    <3>2. open \in Names
      BY <2>3, <3>1 DEF OutcomeInv, OutcomeTypeOK
    <3>3. TextIsTrue(after, clock, closes)
      BY <2>1, <3>1, UnwrittenIsTrue
    <3> HIDE DEF text, open
    <3> QED
      BY <1>1, <3>1, <3>2, <3>3, FileMoves
  <2> QED
    BY <2>2, <2>3
<1> QED
  BY <1>1, <1>3, <1>4 DEF OutcomeInv, OutcomeTypeOK, VerdictsAreTrue

LEMMA ReopenedIsTrue ==
    ASSUME NEW execution, NEW open, ExecutionIsTrue(execution, clock, closes)
    PROVE  ExecutionIsTrue(Reopened(execution, open), clock, closes)
  BY ExecutionFields DEF ExecutionIsTrue, Reopened

LEMMA ReplaceKeeps ==
    ASSUME OutcomeInv, NEW p \in Runs, ReplaceResolution(p)
    PROVE  OutcomeInv'
<1>1. /\ UNCHANGED <<clock, closes, verdicts>>
      /\ file' = [resolution |-> file["temporary"], temporary |-> NoFile]
      /\ proc' = [q \in Runs |-> IF q = p THEN At("report") ELSE Renamed(proc[q])]
  BY DEF ReplaceResolution
<1>2. ASSUME NEW q \in Runs PROVE ExecutionIsTrue(proc'[q], clock, closes)
  <2>1. ExecutionIsTrue(At("report"), clock, closes)
    BY Clean DEF OutcomeInv
  <2>2. ExecutionIsTrue(Renamed(proc[q]), clock, closes)
    BY ReopenedIsTrue DEF OutcomeInv, ExecutionsAreTrue, Renamed
  <2> QED
    BY <1>1, <2>1, <2>2
<1>3. /\ file' = [n \in Names |-> file'[n]]
      /\ file'["resolution"] = file["temporary"] /\ file'["temporary"] = NoFile
  BY <1>1 DEF Names
<1>4. TextIsTrue(file["temporary"], clock, closes)
  BY DEF OutcomeInv, FilesAreTrue, Names
<1>5. FilesAreTrue'
  BY <1>1, <1>3, <1>4, UnwrittenIsTrue DEF FilesAreTrue, Names
<1>6. ExecutionsAreTrue'
  BY <1>1, <1>2 DEF ExecutionsAreTrue
<1>7. proc' = [q \in Runs |-> proc'[q]]
  BY <1>1
<1> QED
  BY <1>1, <1>3, <1>5, <1>6, <1>7 DEF OutcomeInv, OutcomeTypeOK, VerdictsAreTrue

LEMMA SavingFailsKeeps ==
    ASSUME OutcomeInv, NEW p \in Runs, SavingFails(p)
    PROVE  OutcomeInv'
<1>1. /\ UNCHANGED <<clock, closes, verdicts>>
      /\ file' = [file EXCEPT !["temporary"] = NoFile]
      /\ proc' = [q \in Runs |-> IF q = p THEN Idle ELSE Unlinked(proc[q])]
  BY DEF SavingFails
<1>2. ASSUME NEW q \in Runs PROVE ExecutionIsTrue(proc'[q], clock, closes)
  <2>1. ExecutionIsTrue(Idle, clock, closes)
    BY Clean DEF OutcomeInv, Idle
  <2>2. ExecutionIsTrue(Unlinked(proc[q]), clock, closes)
    BY ReopenedIsTrue DEF OutcomeInv, ExecutionsAreTrue, Unlinked
  <2> QED
    BY <1>1, <2>1, <2>2
<1>3. FilesAreTrue' /\ file' = [n \in Names |-> file'[n]]
  BY <1>1, FileMoves, UnwrittenIsTrue DEF Names
<1>4. ExecutionsAreTrue'
  BY <1>1, <1>2 DEF ExecutionsAreTrue
<1>5. proc' = [q \in Runs |-> proc'[q]]
  BY <1>1
<1> QED
  BY <1>1, <1>3, <1>4, <1>5 DEF OutcomeInv, OutcomeTypeOK, VerdictsAreTrue

\* Results that are true and complete have the verdict of the candles.
LEMMA TrueVerdict ==
    ASSUME OutcomeTypeOK, NEW resolved, IsTrue(resolved, clock, closes), NEW s \in Symbols,
           Verdict(resolved[s]) # "PENDING"
    PROVE  ~(clock < 3) /\ Verdict(resolved[s]) = Verdict(closes[s])
<1>1. PICK k \in 0 .. Reached(clock) :
         /\ DOMAIN resolved[s] = 1 .. k
         /\ \A h \in 1 .. k : resolved[s][h] = closes[s][h]
  BY DEF IsTrue
<1>2. 3 \in DOMAIN resolved[s]
  BY DEF Verdict
<1>3. clock \in Nat /\ ~(clock < 3) /\ Reached(clock) = 3 /\ k = 3
  BY <1>1, <1>2 DEF Reached, OutcomeTypeOK
<1>4. closes[s] \in Seq(Votes) /\ Len(closes[s]) = 3
  BY <1>3 DEF OutcomeTypeOK
<1>5. DOMAIN closes[s] = 1 .. 3
  BY <1>4
<1>6. ASSUME NEW vote PROVE VotesFor(resolved[s], vote) = VotesFor(closes[s], vote)
  <2>1. {h \in DOMAIN resolved[s] : resolved[s][h] = vote} = {h \in DOMAIN closes[s] : closes[s][h] = vote}
    BY <1>1, <1>3, <1>5
  <2> QED
    BY <2>1 DEF VotesFor
<1>7. 3 \in DOMAIN closes[s]
  BY <1>5
<1> QED
  BY <1>2, <1>3, <1>6, <1>7 DEF Verdict

LEMMA ValidateKeeps ==
    ASSUME OutcomeInv, NEW p \in Runs, Validate(p)
    PROVE  OutcomeInv'
<1>1. CASE Unreadable
  BY <1>1, EndsKeeps DEF Validate
<1>2. CASE ~Unreadable
  <2>1. /\ UNCHANGED <<clock, closes, file>>
        /\ proc' = [proc EXCEPT ![p] = Idle]
        /\ verdicts' = [s \in Symbols |-> verdicts[s] \cup ({Verdict(Loaded[s])} \ {"PENDING"})]
    BY <1>2 DEF Validate, Ends
  <2>2. ExecutionIsTrue(Idle, clock, closes)
    BY Clean DEF OutcomeInv, Idle
  <2>3. ExecutionsAreTrue' /\ proc' = [q \in Runs |-> proc'[q]]
    BY <2>1, <2>2, ExecutionMoves
  <2>4. ASSUME NEW s \in Symbols
        PROVE  {Verdict(Loaded[s])} \ {"PENDING"} \subseteq IF clock < 3 THEN {} ELSE {Verdict(closes[s])}
    BY <1>2, LoadedIsTrue, TrueVerdict DEF OutcomeInv
  <2>5. VerdictsAreTrue'
    BY <2>1, <2>4 DEF OutcomeInv, VerdictsAreTrue
  <2>6. verdicts' = [s \in Symbols |-> verdicts'[s]]
    BY <2>1
  <2>7. FilesAreTrue'
    BY <2>1 DEF OutcomeInv, FilesAreTrue
  <2>8. OutcomeTypeOK'
    BY <2>1, <2>3, <2>6 DEF OutcomeInv, OutcomeTypeOK
  <2> QED
    BY <2>3, <2>5, <2>7, <2>8 DEF OutcomeInv
<1> QED
  BY <1>1, <1>2

-----------------------------------------------------------------------------

\* Whatever a file or an execution holds are results of closed candles, without
\* a gap, and whatever was reported is the verdict of the three candles.
THEOREM OutcomeInvHolds == OutcomeSpec => []OutcomeInv
<1>1. OutcomeInit => OutcomeInv
  BY InitIsTrue
<1>2. OutcomeInv /\ [OutcomeNext]_outcomeVars => OutcomeInv'
  <2> SUFFICES ASSUME OutcomeInv, [OutcomeNext]_outcomeVars PROVE OutcomeInv'
    OBVIOUS
  <2>1. CASE CandleCloses
    BY <2>1, CandleKeepsTypes, CandleKeepsTruth DEF OutcomeInv
  <2>2. ASSUME NEW p \in Runs, Start(p) PROVE OutcomeInv'
    BY <2>2, StartKeeps
  <2>3. ASSUME NEW p \in Runs, LoadResolution(p) PROVE OutcomeInv'
    BY <2>3, LoadKeeps
  <2>4. ASSUME NEW p \in Runs, FetchFails(p) PROVE OutcomeInv'
    BY <2>4, EndsKeeps DEF FetchFails
  <2>5. ASSUME NEW p \in Runs, OpenTemporary(p) PROVE OutcomeInv'
    BY <2>5, OpenKeeps
  <2>6. ASSUME NEW p \in Runs, Write(p) PROVE OutcomeInv'
    BY <2>6, WriteKeeps
  <2>7. ASSUME NEW p \in Runs, ReplaceResolution(p) PROVE OutcomeInv'
    BY <2>7, ReplaceKeeps
  <2>8. ASSUME NEW p \in Runs, SavingFails(p) PROVE OutcomeInv'
    BY <2>8, SavingFailsKeeps
  <2>9. ASSUME NEW p \in Runs, Validate(p) PROVE OutcomeInv'
    BY <2>9, ValidateKeeps
  <2>10. ASSUME NEW p \in Runs, Dies(p) PROVE OutcomeInv'
    BY <2>10, EndsKeeps DEF Dies
  <2>11. ASSUME NEW p \in Runs, NEW s \in Symbols, Fetch(p, s) PROVE OutcomeInv'
    BY <2>11, FetchKeeps
  <2>12. CASE UNCHANGED outcomeVars
    BY <2>12 DEF outcomeVars, OutcomeInv, OutcomeTypeOK, FilesAreTrue, ExecutionsAreTrue,
                 VerdictsAreTrue
  <2> QED
    BY <2>1, <2>2, <2>3, <2>4, <2>5, <2>6, <2>7, <2>8, <2>9, <2>10, <2>11, <2>12 DEF OutcomeNext
<1> QED
  BY <1>1, <1>2, PTL DEF OutcomeSpec

\* The verdict on a symbol is the same in every report, however many executions
\* of the forward test (run_forward_test_v4) fail, overlap or overwrite each
\* other.
THEOREM VerdictsAgreeTheorem == OutcomeSpec => []VerdictsAgree
<1>1. OutcomeInv => VerdictsAgree
  <2> SUFFICES ASSUME OutcomeInv, NEW s \in Symbols PROVE Cardinality(verdicts[s]) <= 1
    BY DEF VerdictsAgree
  <2>1. verdicts[s] = {} \/ verdicts[s] = {Verdict(closes[s])}
    BY DEF OutcomeInv, VerdictsAreTrue
  <2>2. Cardinality({}) = 0 /\ Cardinality({Verdict(closes[s])}) = 1
    BY FS_EmptySet, FS_Singleton
  <2> QED
    BY <2>1, <2>2
<1> QED
  BY <1>1, OutcomeInvHolds, PTL

-----------------------------------------------------------------------------
(* The paper observation: any ranges of the candles, any validity and any *)
(* number of candles. *)

Undecided == {"NONE", "OBSERVING", "EXPIRED_UNTOUCHED"}

PaperTypeOK ==
    /\ time \in Nat
    /\ cancelledAt = NoTime \/ cancelledAt \in 0 .. time
    /\ observation.state # "NONE" => observation.until \in 0 .. time

\* What an observation decided is what its window still shows.
ObservationStands ==
    observation.state \notin Undecided => observation.state = StateOf(observation.until)

PaperInvariant == PaperTypeOK /\ ObservationStands

-----------------------------------------------------------------------------
(* The first close of a window. *)

LEMMA NatHasLeast ==
    ASSUME NEW S, S \subseteq Nat, S # {}
    PROVE  Earliest(S) # {}
BY LeastOfNat DEF Earliest

LEMMA ChosenIsEarliest ==
    ASSUME NEW until \in Nat, Deciding(until) # {}
    PROVE  /\ (CHOOSE close \in Earliest(Deciding(until)) : TRUE) \in Deciding(until)
           /\ Earliest(Deciding(until)) # {}
<1>1. Deciding(until) \subseteq Nat
      BY DEF Deciding
<1>2. Earliest(Deciding(until)) # {}
      BY <1>1, NatHasLeast
<1>3. Earliest(Deciding(until)) \subseteq Deciding(until)
      BY DEF Earliest
<1>. QED BY <1>2, <1>3

-----------------------------------------------------------------------------
(* A longer window of the same candles. *)

\* A close that decides in the shorter window is first in the longer one too.
LEMMA EarliestIsKept ==
    ASSUME NEW short \in Nat, NEW long \in Nat, short <= long, Deciding(short) # {}
    PROVE  /\ Earliest(Deciding(long)) = Earliest(Deciding(short))
           /\ Deciding(long) # {}
<1>1. Deciding(short) = {close \in Deciding(long) : close <= short}
      BY DEF Deciding
<1>2. Deciding(long) \subseteq Nat
      BY DEF Deciding
<1>3. PICK first \in Deciding(short) : TRUE
      OBVIOUS
<1>. QED BY <1>1, <1>2, <1>3 DEF Earliest

\* What a window decided, every longer one decides.
LEMMA LongerWindowAgrees ==
    ASSUME PaperTypeOK, NEW short \in Nat, NEW long \in Nat, short <= long,
           StateOf(short) \notin Undecided
    PROVE  StateOf(long) = StateOf(short)
<1>1. CASE Deciding(short) # {}
  <2>1. Deciding(long) # {} /\ Earliest(Deciding(long)) = Earliest(Deciding(short))
        BY <1>1, EarliestIsKept
  <2>2. (CHOOSE close \in Earliest(Deciding(long)) : TRUE)
           = CHOOSE close \in Earliest(Deciding(short)) : TRUE
        BY <2>1
  <2>3. StateOf(long) = StateAt(CHOOSE close \in Earliest(Deciding(long)) : TRUE)
        BY <2>1 DEF StateOf
  <2>4. StateOf(short) = StateAt(CHOOSE close \in Earliest(Deciding(short)) : TRUE)
        BY <1>1 DEF StateOf
  <2>. QED BY <2>2, <2>3, <2>4
<1>2. CASE Deciding(short) = {}
  <2>1. /\ IsCancelled /\ cancelledAt <= short
        /\ StateOf(short) = "CANCELLED"
        BY <1>2 DEF StateOf, StateAfter, Undecided
  <2>2. CASE Deciding(long) = {}
        BY <2>1, <2>2, PaperSignalAssumption
        DEF StateOf, StateAfter, PaperTypeOK, IsCancelled
  <2>3. CASE Deciding(long) # {}
    <3>. DEFINE first == CHOOSE close \in Earliest(Deciding(long)) : TRUE
    <3>1. first \in Deciding(long)
          BY <2>3, ChosenIsEarliest
    <3>2. first \in Nat /\ short < first
          BY <3>1, <1>2 DEF Deciding
    <3>3. CancelledBefore(first)
          BY <2>1, <3>2, PaperSignalAssumption DEF CancelledBefore, PaperTypeOK, IsCancelled
    <3>. QED BY <2>1, <2>3, <3>3 DEF StateOf, StateAt
  <2>. QED BY <2>2, <2>3
<1>. QED BY <1>1, <1>2

-----------------------------------------------------------------------------
(* Candles that close, and a cancellation that comes, after a window. *)

LEMMA LaterEventsChangeNothing ==
    ASSUME PaperTypeOK, NEW until \in 0 .. time,
           StateOf(until) \notin Undecided,
           side' = side,
           \A close \in 0 .. until : market'[close] = market[close],
           cancelledAt' = cancelledAt \/ (~IsCancelled /\ cancelledAt' = time)
    PROVE  StateOf(until)' = StateOf(until)
<1>1. \A close \in 0 .. until : Touches(market[close])' = Touches(market[close])
      BY DEF Touches, TouchesEntry, TouchesTarget, TouchesInvalidation
<1>2. \A close \in 0 .. until : CancelledBefore(close)' <=> CancelledBefore(close)
      BY PaperSignalAssumption DEF CancelledBefore, IsCancelled, PaperTypeOK
<1>3. \A close \in 0 .. until : Decides(close)' <=> Decides(close)
      BY <1>1, <1>2 DEF Decides
<1>4. Deciding(until)' = Deciding(until)
      BY <1>3 DEF Deciding
<1>5. ASSUME NEW close \in 0 .. until
      PROVE  StateAt(close)' = StateAt(close)
  <2>1. Touches(market[close])' = Touches(market[close])
        BY <1>1
  <2>2. CancelledBefore(close)' <=> CancelledBefore(close)
        BY <1>2
  <2>3. (CHOOSE state \in Touches(market[close]) : TRUE)'
           = CHOOSE state \in Touches(market[close]) : TRUE
        BY <2>1
  <2>4. (Cardinality(Touches(market[close])) > 1)' <=> Cardinality(Touches(market[close])) > 1
        BY <2>1
  <2>5. CASE CancelledBefore(close)
        BY <2>2, <2>5 DEF StateAt
  <2>6. CASE ~CancelledBefore(close) /\ Cardinality(Touches(market[close])) > 1
        BY <2>2, <2>4, <2>6 DEF StateAt
  <2>7. CASE ~CancelledBefore(close) /\ ~(Cardinality(Touches(market[close])) > 1)
    <3>1. StateAt(close) = CHOOSE state \in Touches(market[close]) : TRUE
          BY <2>7 DEF StateAt
    <3>2. StateAt(close)' = (CHOOSE state \in Touches(market[close]) : TRUE)'
          BY <2>2, <2>4, <2>7 DEF StateAt
    <3>. QED BY <2>3, <3>1, <3>2
  <2>. QED BY <2>5, <2>6, <2>7
<1>6. CASE Deciding(until) = {}
  <2>1. IsCancelled /\ cancelledAt <= until /\ StateOf(until) = "CANCELLED"
        BY <1>6 DEF StateOf, StateAfter, Undecided
  <2>. QED BY <2>1, <1>4, <1>6 DEF StateOf, StateAfter, IsCancelled
<1>7. CASE Deciding(until) # {}
  <2>. DEFINE first == CHOOSE close \in Earliest(Deciding(until)) : TRUE
  <2>1. first \in 0 .. until
    <3>1. first \in Deciding(until)
          BY <1>7, ChosenIsEarliest
    <3>. QED BY <3>1 DEF Deciding
  <2>2. StateOf(until) = StateAt(first)
        BY <1>7 DEF StateOf
  <2>3. StateOf(until)' = StateAt(CHOOSE close \in Earliest(Deciding(until)) : TRUE)'
        BY <1>4, <1>7 DEF StateOf
  <2>4. (CHOOSE close \in Earliest(Deciding(until)) : TRUE)' = first
        BY <1>4 DEF Earliest
  <2>. QED BY <1>5, <2>1, <2>2, <2>3, <2>4
<1>. QED BY <1>6, <1>7

-----------------------------------------------------------------------------
(* The invariant and the theorem. *)

LEMMA PaperInitHolds == PaperInit => PaperInvariant
BY PaperSignalAssumption
DEF PaperInit, PaperInvariant, PaperTypeOK, ObservationStands, NoObservation, Undecided

\* An observation stands in a step that makes no new one.
LEMMA ObservationStaysTrue ==
    ASSUME PaperInvariant,
           observation'.state = observation.state, observation'.until = observation.until,
           side' = side,
           \A close \in 0 .. time : market'[close] = market[close],
           cancelledAt' = cancelledAt \/ (~IsCancelled /\ cancelledAt' = time)
    PROVE  ObservationStands'
<1>. SUFFICES ASSUME observation.state \notin Undecided
              PROVE  observation'.state = StateOf(observation.until)'
     BY DEF ObservationStands
<1>1. PICK until \in 0 .. time : until = observation.until
      BY DEF PaperInvariant, PaperTypeOK, Undecided
<1>2. StateOf(until) = observation.state
      BY <1>1 DEF PaperInvariant, ObservationStands
<1>3. \A close \in 0 .. until : market'[close] = market[close]
      BY <1>1 DEF PaperInvariant, PaperTypeOK
<1>4. StateOf(until)' = StateOf(until)
      BY <1>2, <1>3, LaterEventsChangeNothing DEF PaperInvariant
<1>5. observation'.until = until
      BY <1>1
<1>6. StateOf(observation.until)' = StateOf(until)'
      BY <1>5
<1>. QED BY <1>2, <1>4, <1>6

LEMMA PaperStepHolds ==
    ASSUME PaperInvariant, [PaperNext]_paperVars
    PROVE  PaperInvariant'
<1>1. ASSUME NEW range \in Ranges, CloseCandle(range)
      PROVE  PaperInvariant'
  <2>1. PaperTypeOK'
        BY <1>1 DEF CloseCandle, PaperInvariant, PaperTypeOK
  <2>2. \A close \in 0 .. time : market'[close] = market[close]
        BY <1>1 DEF CloseCandle, PaperInvariant, PaperTypeOK
  <2>. QED BY <1>1, <2>1, <2>2, ObservationStaysTrue DEF CloseCandle, PaperInvariant
<1>2. CASE Cancel
  <2>1. PaperTypeOK'
        BY <1>2 DEF Cancel, PaperInvariant, PaperTypeOK
  <2>. QED BY <1>2, <2>1, ObservationStaysTrue DEF Cancel, PaperInvariant
<1>3. ASSUME NEW until \in 0 .. time, Observe(until)
      PROVE  PaperInvariant'
  <2>1. observation'.until = until /\ observation'.state = StateOf(until)
        BY <1>3 DEF Observe
  <2>2. PaperTypeOK'
        BY <1>3 DEF Observe, PaperInvariant, PaperTypeOK
  <2>3. ASSUME StateOf(until) \notin Undecided
        PROVE  StateOf(until)' = StateOf(until)
        BY <1>3, <2>3, LaterEventsChangeNothing DEF Observe, PaperInvariant
  <2>4. StateOf(observation.until)' = StateOf(until)'
        BY <2>1
  <2>. QED BY <2>1, <2>2, <2>3, <2>4 DEF PaperInvariant, ObservationStands
<1>4. CASE Acknowledge
  <2>1. observation'.state = observation.state /\ observation'.until = observation.until
        BY <1>4 DEF Acknowledge
  <2>2. PaperTypeOK'
        BY <1>4, <2>1 DEF Acknowledge, PaperInvariant, PaperTypeOK
  <2>. QED BY <1>4, <2>1, <2>2, ObservationStaysTrue DEF Acknowledge, PaperInvariant
<1>5. CASE UNCHANGED paperVars
  <2>1. PaperTypeOK'
        BY <1>5 DEF paperVars, PaperInvariant, PaperTypeOK
  <2>. QED BY <1>5, <2>1, ObservationStaysTrue DEF paperVars, PaperInvariant
<1>. QED BY <1>1, <1>2, <1>3, <1>4, <1>5 DEF PaperNext

\* The observation on file is what its window shows, as long as it decided.
THEOREM ObservationStandsTheorem == PaperSpec => []PaperInvariant
BY PaperInitHolds, PaperStepHolds, PTL DEF PaperSpec

LEMMA StepDecidesOnce ==
    ASSUME PaperInvariant, [PaperNext]_paperVars
    PROVE  [observation.state \notin {"NONE", "OBSERVING", "EXPIRED_UNTOUCHED"}
               => KeepsVerdict]_paperVars
<1>. USE DEF PaperInvariant, ObservationStands, KeepsVerdict
<1>. SUFFICES ASSUME PaperNext, observation.state \notin Undecided
              PROVE  KeepsVerdict
     BY DEF Undecided
<1>1. ASSUME NEW until \in 0 .. time, Observe(until), until >= observation.until
      PROVE  observation'.state = observation.state
  <2>1. observation.until \in 0 .. time
        BY DEF PaperTypeOK, Undecided
  <2>2. StateOf(until) = StateOf(observation.until)
        BY <1>1, <2>1, LongerWindowAgrees DEF PaperTypeOK
  <2>. QED BY <1>1, <2>2 DEF Observe
<1>2. ASSUME NEW range \in Ranges, CloseCandle(range)
      PROVE  KeepsVerdict
      BY <1>2 DEF CloseCandle
<1>3. CASE Cancel
      BY <1>3 DEF Cancel
<1>4. CASE Acknowledge
      BY <1>4 DEF Acknowledge
<1>5. ASSUME NEW until \in 0 .. time, Observe(until)
      PROVE  KeepsVerdict
      BY <1>1, <1>5 DEF Observe
<1>. QED BY <1>2, <1>3, <1>4, <1>5 DEF PaperNext

\* A touch, an ambiguity and a cancellation are decided once, whatever closes,
\* is cancelled or is observed later (observe_paper_signal).
THEOREM DecidedOnceTheorem == PaperSpec => DecidedOnce
<1>1. PaperInvariant /\ [PaperNext]_paperVars
        => [observation.state \notin {"NONE", "OBSERVING", "EXPIRED_UNTOUCHED"}
               => KeepsVerdict]_paperVars
      BY StepDecidesOnce
<1>. QED BY <1>1, ObservationStandsTheorem, PTL DEF PaperSpec, DecidedOnce
=============================================================================
