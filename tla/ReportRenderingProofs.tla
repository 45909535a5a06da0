----------------------- MODULE ReportRenderingProofs -----------------------
(***************************************************************************)
(* Machine-checked proofs about ReportRendering, for every finite set of   *)
(* calls and every set of processes.                                       *)
(***************************************************************************)
EXTENDS ReportRendering, FiniteSetTheorems, TLAPS

(* The calls that share a lock are finitely many.                          *)
LEMMA SharersFinite ==
  ASSUME NEW l
  PROVE  IsFiniteSet(Sharers(l)) /\ Cardinality(Sharers(l)) \in Nat
BY CallAssumption, FS_Subset, FS_CardinalityType DEF Sharers

(* Whoever is leaving is counted, so the count can be decremented.         *)
LEMMA LeaverIsCounted ==
  ASSUME TypeOK, LockInv, RenderingInv, NEW c \in Call, pc[c] = "leaving"
  PROVE  /\ entry[c] \in Call /\ entry[c] = registry[proc[c]] /\ proc[c] \in Proc
         /\ proc[entry[c]] = proc[c]
         /\ c \in Sharers(entry[c])
         /\ interest[entry[c]] = Cardinality(Sharers(entry[c]))
         /\ interest[entry[c]] >= 1
<1>1. InLock(c)
  BY DEF InLock, Interested
<1>2. entry[c] \in Call /\ entry[c] = registry[proc[c]] /\ proc[c] \in Proc
  BY <1>1 DEF LockInv, SharedLock, RenderingInv, CallInv
<1>3. /\ proc[entry[c]] = proc[c]
      /\ interest[entry[c]] = Cardinality(Sharers(entry[c]))
  BY <1>2, NullAssumption DEF LockInv, CountedLock
<1>4. c \in Sharers(entry[c])
  BY <1>1 DEF Sharers
<1>5. Cardinality(Sharers(entry[c])) # 0
  BY <1>4, SharersFinite, FS_EmptySet
<1>6. QED
  BY <1>2, <1>3, <1>4, <1>5, SharersFinite

(* Removing files leaves only smaller maps behind.                         *)
LEMMA RemoveTypes ==
  ASSUME TypeOK, NEW ids \in SUBSET Call, Remove(ids)
  PROVE  file' \in [Call -> Call \cup {NoCall}] /\ stuck' \subseteq Call
BY DEF TypeOK, Remove

-----------------------------------------------------------------------------
(* The state stays well-typed.                                             *)
LEMMA StepTypeOK ==
  ASSUME TypeOK, LockInv, RenderingInv, [Next]_vars
  PROVE  TypeOK'
<1> USE DEF TypeOK, Goto, dbVars, said, disk, lockVars, deleteVars, Running, Locked, Over, Report, ReportId
<1>1. ASSUME NEW c \in Call, NEW p \in Proc, BeginHook(c, p) PROVE TypeOK'
  <2>1. column' \in {"pending", "generating", "ready", "failed", "skipped"} /\ unsaid' \in BOOLEAN
    BY <1>1 DEF BeginHook, SetColumn
  <2>2. pc' \in [Call -> {"idle"} \cup Running \cup Over]
    BY <1>1 DEF BeginHook
  <2>3. QED
    BY <1>1, <2>1, <2>2 DEF BeginHook
<1>2. ASSUME NEW c \in Call, NEW p \in Proc, BeginPost(c, p) PROVE TypeOK'
  BY <1>2 DEF BeginPost
<1>3. ASSUME NEW c \in Call, CheckExisting(c) PROVE TypeOK'
  BY <1>3 DEF CheckExisting
<1>3a. ASSUME NEW c \in Call, CheckRaises(c) PROVE TypeOK'
  BY <1>3a DEF CheckRaises
<1>4. ASSUME NEW c \in Call, Adopt(c) PROVE TypeOK'
  BY <1>4 DEF Adopt, SetColumn
<1>5. ASSUME NEW c \in Call, Register(c) PROVE TypeOK'
  <2> DEFINE lock == IF registry[proc[c]] = NoCall THEN c ELSE registry[proc[c]]
  <2>1. proc[c] \in Proc
    BY <1>5 DEF Register, RenderingInv, CallInv
  <2>2. lock \in Call
    BY <2>1
  <2>3. interest' \in [Call -> Nat]
    BY <1>5, <2>2 DEF Register
  <2>4. registry' \in [Proc -> Call \cup {NoCall}] /\ entry' \in [Call -> Call \cup {NoCall}]
    BY <1>5, <2>2 DEF Register
  <2>5. QED
    BY <1>5, <2>3, <2>4 DEF Register
<1>6. ASSUME NEW c \in Call, Acquire(c) PROVE TypeOK'
  BY <1>6 DEF Acquire
<1>7. ASSUME NEW c \in Call, Release(c) PROVE TypeOK'
  BY <1>7 DEF Release
<1>8. ASSUME NEW c \in Call, Unregister(c) PROVE TypeOK'
  <2>1. interest[entry[c]] - 1 \in Nat
    BY <1>8, LeaverIsCounted DEF Unregister
  <2>2. interest' \in [Call -> Nat]
    BY <1>8, <2>1 DEF Unregister
  <2>3. registry' \in [Proc -> Call \cup {NoCall}]
    BY <1>8 DEF Unregister
  <2>4. QED
    BY <1>8, <2>2, <2>3 DEF Unregister
<1>9. ASSUME NEW c \in Call, Recheck(c) PROVE TypeOK'
  BY <1>9 DEF Recheck
<1>9a. ASSUME NEW c \in Call, RecheckRaises(c) PROVE TypeOK'
  BY <1>9a DEF RecheckRaises
<1>10. ASSUME NEW c \in Call, Announce(c) PROVE TypeOK'
  BY <1>10 DEF Announce, SetColumn
<1>11. ASSUME NEW c \in Call, Render(c) PROVE TypeOK'
  BY <1>11 DEF Render
<1>12. ASSUME NEW c \in Call, Save(c) PROVE TypeOK'
  <2>1. row' \in Report
    BY <1>12 DEF Save, RenderingInv, CallInv
  <2>2. QED
    BY <1>12, <2>1 DEF Save
<1>12a. ASSUME NEW c \in Call, SaveRaises(c) PROVE TypeOK'
  BY <1>12a DEF SaveRaises
<1>13. ASSUME NEW c \in Call, SaveRefused(c) PROVE TypeOK'
  BY <1>13 DEF SaveRefused
<1>14. ASSUME NEW c \in Call, StatFails(c) PROVE TypeOK'
  BY <1>14 DEF StatFails
<1>15. ASSUME NEW c \in Call, Yield(c) PROVE TypeOK'
  <2>1. target[c] \in Call
    BY <1>15 DEF Yield, RenderingInv, CallInv
  <2>2. file' \in [Call -> Call \cup {NoCall}] /\ stuck' \subseteq Call
    BY <1>15, <2>1, RemoveTypes DEF Yield
  <2>3. QED
    BY <1>15, <2>2 DEF Yield
<1>16. ASSUME NEW c \in Call, Fail(c) PROVE TypeOK'
  BY <1>16 DEF Fail, SetColumn
<1>17. ASSUME NEW c \in Call, HookStamps(c) PROVE TypeOK'
  BY <1>17 DEF HookStamps, SetColumn
<1>18. ASSUME ResolvePaths PROVE TypeOK'
  BY <1>18 DEF ResolvePaths
<1>19. ASSUME DropRows PROVE TypeOK'
  BY <1>19 DEF DropRows
<1>20. ASSUME Reclaim PROVE TypeOK'
  BY <1>20 DEF Reclaim, Remove
<1>21. ASSUME NEW p \in Proc, Crash(p) PROVE TypeOK'
  BY <1>21 DEF Crash
<1>22. ASSUME UNCHANGED vars PROVE TypeOK'
  BY <1>22 DEF vars
<1>23. QED
  BY <1>1, <1>2, <1>3, <1>3a, <1>4, <1>5, <1>6, <1>7, <1>8, <1>9, <1>9a, <1>10, <1>11, <1>12,
     <1>12a, <1>13, <1>14, <1>15, <1>16, <1>17, <1>18, <1>19, <1>20, <1>21, <1>22
     DEF Next, CallStep, LockStep, RenderStep, DeleteStep

-----------------------------------------------------------------------------
(* What an action that only moves one call c must respect.                 *)
LEMMA LockKept ==
  ASSUME TypeOK, LockInv, NEW c \in Call,
         UNCHANGED <<registry, interest, holder, entry, proc>>,
         \A d \in Call : d # c => pc'[d] = pc[d],
         InLock(c)' <=> InLock(c),
         InLock(c)' /\ pc'[c] \notin {"waiting", "leaving"}
           => InLock(c) /\ pc[c] \notin {"waiting", "leaving"},
         pc'[c] \in {"idle", "called", "entering"} => pc[c] \in {"idle", "called", "entering"}
  PROVE  LockInv'
<1>1. \A d \in Call : InLock(d)' <=> InLock(d)
  BY DEF InLock
<1>3. SharedLock'
  BY <1>1 DEF LockInv, SharedLock
<1>4. HeldLock'
  BY <1>1 DEF LockInv, HeldLock
<1>5. CountedLock'
  <2>1. \A p \in Proc : Sharers(registry[p])' = Sharers(registry[p])
    BY <1>1 DEF Sharers
  <2>2. QED
    BY <2>1 DEF LockInv, CountedLock
<1>6. FreshLock'
  BY DEF LockInv, FreshLock
<1>7. QED
  BY <1>3, <1>4, <1>5, <1>6 DEF LockInv

(* A call joins the registered lock, or brings a fresh one.                *)
LEMMA RegisterKeepsLockInv ==
  ASSUME TypeOK, LockInv, RenderingInv, NEW c \in Call, Register(c)
  PROVE  LockInv'
<1> DEFINE p == proc[c]
           l == IF registry[p] = NoCall THEN c ELSE registry[p]
           Later(k) == {d \in Call : InLock(d)' /\ entry'[d] = k}
<1>1. /\ p \in Proc /\ l \in Call /\ ~InLock(c) /\ c \in Call
      /\ pc[c] = "entering" /\ pc' = [pc EXCEPT ![c] = "waiting"]
      /\ registry' = [registry EXCEPT ![p] = l]
      /\ interest' = [interest EXCEPT ![l] = @ + 1]
      /\ entry' = [entry EXCEPT ![c] = l]
      /\ UNCHANGED <<holder, proc>>
  BY DEF Register, Goto, TypeOK, RenderingInv, CallInv, InLock, Interested, Locked
<1>2. registry[p] = NoCall => interest[l] = 0 /\ proc[l] = p /\ \A q \in Proc : registry[q] # l
  BY <1>1 DEF LockInv, FreshLock
<1>3. registry[p] # NoCall => proc[l] = p /\ interest[l] = Cardinality(Sharers(l))
  BY <1>1 DEF LockInv, CountedLock
<1>4. interest[l] = Cardinality(Sharers(l))
  <2>1. CASE registry[p] = NoCall
    <3>1. Sharers(l) = {}
      BY <1>2, <2>1 DEF Sharers, LockInv, SharedLock, RenderingInv, CallInv, InLock, Interested, Locked
    <3>2. QED
      BY <1>2, <2>1, <3>1, FS_EmptySet
  <2>2. QED
    BY <1>3, <2>1
<1>5. InLock(c)' /\ \A d \in Call : d # c => (InLock(d)' <=> InLock(d)) /\ entry'[d] = entry[d] /\ pc'[d] = pc[d]
  BY <1>1 DEF InLock, Interested, TypeOK
<1>6. Later(l) = Sharers(l) \cup {c} /\ c \notin Sharers(l)
  BY <1>1, <1>5 DEF Sharers, TypeOK
<1>7. \A k : k # l => Later(k) = Sharers(k)
  BY <1>1, <1>5 DEF Sharers, TypeOK
<1>8. \A q \in Proc : q # p /\ registry[q] # NoCall => registry[q] # l
  BY <1>2, <1>3 DEF LockInv, CountedLock
<1>9. SharedLock'
  BY <1>1, <1>5, NullAssumption DEF LockInv, SharedLock, TypeOK, RenderingInv, CallInv, InLock, Interested, Locked
<1>10. HeldLock'
  BY <1>1, <1>5 DEF LockInv, HeldLock, TypeOK
<1>11. CountedLock'
  <2>1. interest'[l] = Cardinality(Later(l))
    <3>1. IsFiniteSet(Sharers(l))
      BY SharersFinite
    <3>2. Cardinality(Later(l)) = Cardinality(Sharers(l)) + 1
      BY <1>6, <3>1, FS_AddElement
    <3>3. QED
      BY <1>1, <1>4, <3>2 DEF TypeOK
  <2>2. ASSUME NEW q \in Proc, registry'[q] # NoCall
        PROVE  proc'[registry'[q]] = q /\ interest'[registry'[q]] = Cardinality(Later(registry'[q]))
    <3>1. CASE q = p
      BY <1>1, <1>2, <1>3, <2>1, <3>1 DEF TypeOK
    <3>2. CASE q # p
      <4>1. registry'[q] = registry[q] /\ registry[q] \in Call /\ registry[q] # l
        BY <1>1, <1>8, <2>2, <3>2 DEF TypeOK
      <4>2. Later(registry'[q]) = Sharers(registry[q])
        BY <1>7, <4>1
      <4>3. proc[registry[q]] = q /\ interest[registry[q]] = Cardinality(Sharers(registry[q]))
        BY <4>1, NullAssumption DEF LockInv, CountedLock
      <4>4. interest'[registry[q]] = interest[registry[q]] /\ proc' = proc
        BY <1>1, <4>1 DEF TypeOK
      <4>5. QED
        BY <4>1, <4>2, <4>3, <4>4
    <3>3. QED
      BY <3>1, <3>2
  <2>3. QED
    BY <2>2 DEF CountedLock, Sharers
<1>12. FreshLock'
  <2>1. ASSUME NEW d \in Call, pc'[d] \in {"idle", "called", "entering"}
        PROVE  interest'[d] = 0 /\ entry'[d] = NoCall /\ \A q \in Proc : registry'[q] # d
    <3>1. d # c /\ pc[d] \in {"idle", "called", "entering"}
      BY <1>1, <2>1 DEF TypeOK
    <3>2. d # l
      BY <1>1, <3>1 DEF LockInv, FreshLock
    <3>3. QED
      BY <1>1, <3>1, <3>2 DEF LockInv, FreshLock, TypeOK
  <2>2. QED
    BY <2>1 DEF FreshLock
<1>13. QED
  BY <1>9, <1>10, <1>11, <1>12 DEF LockInv

(* A call leaves; the entry goes with the last one that shares it.         *)
LEMMA UnregisterKeepsLockInv ==
  ASSUME TypeOK, LockInv, RenderingInv, NEW c \in Call, Unregister(c)
  PROVE  LockInv'
<1> DEFINE p == proc[c]
           l == entry[c]
           n == interest[l]
           Later(k) == {d \in Call : InLock(d)' /\ entry'[d] = k}
<1>1. /\ l \in Call /\ l = registry[p] /\ p \in Proc /\ proc[l] = p /\ c \in Sharers(l)
      /\ n = Cardinality(Sharers(l)) /\ n >= 1 /\ n \in Nat
  BY LeaverIsCounted DEF Unregister, TypeOK
<1>2. /\ pc[c] = "leaving"
      /\ pc' = [pc EXCEPT ![c] = IF kind[c] = "hook" THEN "stamping" ELSE "ended"]
      /\ interest' = [interest EXCEPT ![l] = n - 1]
      /\ registry' = [registry EXCEPT ![p] = IF n <= 1 THEN NoCall ELSE @]
      /\ UNCHANGED <<holder, proc, entry>>
  BY <1>1 DEF Unregister, Goto, TypeOK
<1>3. ~InLock(c)' /\ \A d \in Call : d # c => (InLock(d)' <=> InLock(d)) /\ pc'[d] = pc[d]
  BY <1>2 DEF InLock, Interested, Locked, TypeOK
<1>4. Later(l) = Sharers(l) \ {c}
  BY <1>2, <1>3 DEF Sharers
<1>5. \A k : k # l => Later(k) = Sharers(k)
  BY <1>2, <1>3 DEF Sharers
<1>6. n <= 1 => Sharers(l) = {c}
  <2>1. SUFFICES ASSUME n <= 1, NEW d \in Sharers(l), d # c
                 PROVE  FALSE
    BY <1>1
  <2> HIDE DEF n, l
  <2>2. n = 1
    BY <1>1, <2>1
  <2>3. IsFiniteSet(Sharers(l))
    BY SharersFinite
  <2>4. IsFiniteSet(Sharers(l) \ {c}) /\ Cardinality(Sharers(l) \ {c}) = Cardinality(Sharers(l)) - 1
    BY <1>1, <2>3, FS_RemoveElement
  <2>5. Cardinality(Sharers(l) \ {c}) = 0
    BY <1>1, <2>2, <2>4
  <2>6. QED
    BY <2>1, <2>4, <2>5, FS_EmptySet
<1>7. \A q \in Proc : q # p => registry'[q] = registry[q] /\ (registry[q] # NoCall => registry[q] # l)
  BY <1>1, <1>2 DEF LockInv, CountedLock, TypeOK
<1>8. SharedLock'
  <2>1. ASSUME NEW d \in Call, InLock(d)'
        PROVE  entry'[d] \in Call /\ entry'[d] = registry'[proc'[d]]
    <3>1. d # c /\ InLock(d)
      BY <1>3, <2>1
    <3>2. entry[d] \in Call /\ entry[d] = registry[proc[d]] /\ proc[d] \in Proc
      BY <3>1 DEF LockInv, SharedLock, RenderingInv, CallInv, InLock, Interested, Locked
    <3>3. CASE proc[d] = p
      <4>1. d \in Sharers(l)
        BY <1>1, <3>1, <3>2, <3>3 DEF Sharers
      <4>2. ~(n <= 1)
        BY <1>6, <3>1, <4>1
      <4>3. QED
        BY <1>2, <3>2, <3>3, <4>2 DEF TypeOK
    <3>4. CASE proc[d] # p
      BY <1>2, <1>7, <3>2, <3>4
    <3>5. QED
      BY <3>3, <3>4
  <2>2. QED
    BY <2>1 DEF SharedLock
<1>9. HeldLock'
  BY <1>2, <1>3 DEF LockInv, HeldLock
<1>10. CountedLock'
  <2>1. ASSUME NEW q \in Proc, registry'[q] # NoCall
        PROVE  proc'[registry'[q]] = q /\ interest'[registry'[q]] = Cardinality(Later(registry'[q]))
    <3>1. CASE q = p
      <4>1. registry'[q] = l
        BY <1>1, <1>2, <2>1, <3>1 DEF TypeOK
      <4>2. Cardinality(Later(l)) = n - 1
        <5>1. IsFiniteSet(Sharers(l))
          BY SharersFinite
        <5>2. Cardinality(Sharers(l) \ {c}) = Cardinality(Sharers(l)) - 1
          BY <1>1, <5>1, FS_RemoveElement
        <5>3. QED
          BY <1>1, <1>4, <5>2
      <4>3. interest'[l] = n - 1
        BY <1>1, <1>2 DEF TypeOK
      <4>4. QED
        BY <1>1, <1>2, <3>1, <4>1, <4>2, <4>3
    <3>2. CASE q # p
      <4>1. registry'[q] = registry[q] /\ registry[q] \in Call /\ registry[q] # l
        BY <1>7, <2>1, <3>2 DEF TypeOK
      <4>2. Later(registry'[q]) = Sharers(registry[q])
        BY <1>5, <4>1
      <4>3. proc[registry[q]] = q /\ interest[registry[q]] = Cardinality(Sharers(registry[q]))
        BY <4>1, NullAssumption DEF LockInv, CountedLock
      <4>4. interest'[registry[q]] = interest[registry[q]] /\ proc' = proc
        BY <1>2, <4>1 DEF TypeOK
      <4>5. QED
        BY <4>1, <4>2, <4>3, <4>4
    <3>3. QED
      BY <3>1, <3>2
  <2>2. QED
    BY <2>1 DEF CountedLock, Sharers
<1>11. FreshLock'
  <2>1. ASSUME NEW d \in Call, pc'[d] \in {"idle", "called", "entering"}
        PROVE  interest'[d] = 0 /\ entry'[d] = NoCall /\ \A q \in Proc : registry'[q] # d
    <3>1. d # c /\ pc[d] \in {"idle", "called", "entering"}
      BY <1>2, <2>1 DEF TypeOK
    <3>2. d # l
      BY <1>1, <3>1 DEF LockInv, FreshLock
    <3>3. QED
      BY <1>2, <3>1, <3>2, NullAssumption DEF LockInv, FreshLock, TypeOK
  <2>2. QED
    BY <2>1 DEF FreshLock
<1>12. QED
  BY <1>8, <1>9, <1>10, <1>11 DEF LockInv

(* A crash takes every call of the process along, so its registry can go.  *)
LEMMA CrashKeepsLockInv ==
  ASSUME TypeOK, LockInv, RenderingInv, NEW p \in Proc, Crash(p)
  PROVE  LockInv'
<1> DEFINE Later(k) == {d \in Call : InLock(d)' /\ entry'[d] = k}
<1>1. /\ pc' = [c \in Call |-> IF proc[c] = p /\ pc[c] \in Running THEN "lost" ELSE pc[c]]
      /\ registry' = [registry EXCEPT ![p] = NoCall]
      /\ UNCHANGED <<interest, holder, entry, proc>>
  BY DEF Crash, lockVars
<1>2. \A c \in Call : InLock(c)' <=> InLock(c) /\ proc[c] # p
  BY <1>1 DEF InLock, Interested, Running, Locked
<1>3. \A c \in Call : InLock(c) => proc[c] \in Proc /\ entry[c] \in Call
                                /\ entry[c] = registry[proc[c]] /\ proc[entry[c]] = proc[c]
  BY NullAssumption DEF LockInv, SharedLock, CountedLock, RenderingInv, CallInv, InLock, Interested, Locked
<1>4. SharedLock'
  BY <1>1, <1>2, <1>3 DEF SharedLock, TypeOK
<1>5. HeldLock'
  BY <1>1, <1>2 DEF LockInv, HeldLock
<1>6. CountedLock'
  <2>1. ASSUME NEW q \in Proc, registry'[q] # NoCall
        PROVE  proc'[registry'[q]] = q /\ interest'[registry'[q]] = Cardinality(Later(registry'[q]))
    <3>1. q # p /\ registry'[q] = registry[q]
      BY <1>1, <2>1 DEF TypeOK
    <3>2. proc[registry[q]] = q /\ interest[registry[q]] = Cardinality(Sharers(registry[q]))
      BY <2>1, <3>1 DEF LockInv, CountedLock
    <3>3. Later(registry[q]) = Sharers(registry[q])
      BY <1>1, <1>2, <1>3, <3>1, <3>2 DEF Sharers
    <3>4. QED
      BY <1>1, <3>1, <3>2, <3>3
  <2>2. QED
    BY <2>1 DEF CountedLock, Sharers
<1>7. FreshLock'
  BY <1>1, NullAssumption DEF LockInv, FreshLock, TypeOK
<1>8. QED
  BY <1>4, <1>5, <1>6, <1>7 DEF LockInv

(* Every step keeps the count of a lock's sharers, and its owner.          *)
LEMMA StepLockInv ==
  ASSUME TypeOK, LockInv, RenderingInv, [Next]_vars
  PROVE  LockInv'
<1> USE DEF TypeOK, Goto, dbVars, said, disk, lockVars, deleteVars
<1>1. ASSUME NEW c \in Call, NEW p \in Proc, BeginHook(c, p) \/ BeginPost(c, p) PROVE LockInv'
  <2>1. /\ pc[c] = "idle" /\ proc[c] = NoProc /\ proc' = [proc EXCEPT ![c] = p]
        /\ UNCHANGED <<registry, interest, holder, entry>>
        /\ \E l \in {"called", "ended"} : pc' = [pc EXCEPT ![c] = l]
    BY <1>1 DEF BeginHook, BeginPost, RenderingInv, CallInv
  <2>2. \A d \in Call : InLock(d)' <=> InLock(d)
    BY <2>1 DEF InLock, Interested, Locked
  <2>3. \A d \in Call : InLock(d) => d # c
    BY <2>1 DEF InLock, Interested, Locked
  <2>4. SharedLock'
    BY <2>1, <2>2, <2>3 DEF LockInv, SharedLock
  <2>5. HeldLock'
    BY <2>1, <2>2, <2>3 DEF LockInv, HeldLock
  <2>6. CountedLock'
    <3>1. \A q \in Proc : Sharers(registry[q])' = Sharers(registry[q])
      BY <2>1, <2>2 DEF Sharers
    <3>2. \A q \in Proc : registry[q] # c
      BY <2>1 DEF LockInv, FreshLock
    <3>3. QED
      BY <2>1, <3>1, <3>2 DEF LockInv, CountedLock
  <2>7. FreshLock'
    BY <2>1 DEF LockInv, FreshLock
  <2>8. QED
    BY <2>4, <2>5, <2>6, <2>7 DEF LockInv
<1>2. ASSUME NEW c \in Call, CheckExisting(c) PROVE LockInv'
  <2>1. entry[c] = NoCall
    BY <1>2 DEF CheckExisting, LockInv, FreshLock
  <2>2. QED
    BY <1>2, <2>1, LockKept DEF CheckExisting, InLock, Interested, Locked
<1>2a. ASSUME NEW c \in Call, CheckRaises(c) PROVE LockInv'
  BY <1>2a, LockKept DEF CheckRaises, InLock, Interested, Locked
<1>3. ASSUME NEW c \in Call, Adopt(c) PROVE LockInv'
  BY <1>3, LockKept DEF Adopt, InLock, Interested, Locked
<1>4. ASSUME NEW c \in Call, Register(c) PROVE LockInv'
  BY <1>4, RegisterKeepsLockInv
<1>5. ASSUME NEW c \in Call, Acquire(c) PROVE LockInv'
  <2>1. \A d \in Call : InLock(d)' <=> InLock(d)
    BY <1>5 DEF Acquire, InLock, Interested, Locked
  <2>2. SharedLock'
    BY <1>5, <2>1 DEF Acquire, LockInv, SharedLock
  <2>3. HeldLock'
    <3>1. InLock(c) /\ entry[c] \in Call
      BY <1>5 DEF Acquire, InLock, Interested, LockInv, SharedLock
    <3>2. ASSUME NEW d \in Call, InLock(d)', pc'[d] \notin {"waiting", "leaving"}, d # c
          PROVE  holder'[entry'[d]] = d
      <4>1. holder[entry[d]] = d /\ entry[d] \in Call
        BY <1>5, <2>1, <3>2 DEF Acquire, LockInv, HeldLock, SharedLock
      <4>2. QED
        BY <1>5, <3>1, <4>1, NullAssumption DEF Acquire
    <3>3. holder'[entry'[c]] = c
      BY <1>5, <3>1 DEF Acquire
    <3>4. QED
      BY <3>2, <3>3 DEF HeldLock
  <2>4. CountedLock'
    <3>1. \A q \in Proc : Sharers(registry[q])' = Sharers(registry[q])
      BY <1>5, <2>1 DEF Acquire, Sharers
    <3>2. QED
      BY <1>5, <3>1 DEF Acquire, LockInv, CountedLock
  <2>5. FreshLock'
    BY <1>5 DEF Acquire, LockInv, FreshLock
  <2>6. QED
    BY <2>2, <2>3, <2>4, <2>5 DEF LockInv
<1>6. ASSUME NEW c \in Call, Release(c) PROVE LockInv'
  <2>1. \A d \in Call : InLock(d)' <=> InLock(d)
    BY <1>6 DEF Release, InLock, Interested, Locked
  <2>2. SharedLock'
    BY <1>6, <2>1 DEF Release, LockInv, SharedLock
  <2>3. HeldLock'
    <3>1. InLock(c) /\ entry[c] \in Call /\ holder[entry[c]] = c
      BY <1>6 DEF Release, InLock, Interested, Locked, LockInv, SharedLock, HeldLock
    <3>2. ASSUME NEW d \in Call, InLock(d)', pc'[d] \notin {"waiting", "leaving"}
          PROVE  holder'[entry'[d]] = d
      <4>1. d # c
        BY <1>6, <3>2 DEF Release
      <4>2. holder[entry[d]] = d /\ entry[d] \in Call
        BY <1>6, <2>1, <3>2, <4>1 DEF Release, LockInv, HeldLock, SharedLock
      <4>3. QED
        BY <1>6, <3>1, <4>1, <4>2 DEF Release
    <3>3. QED
      BY <3>2 DEF HeldLock
  <2>4. CountedLock'
    <3>1. \A q \in Proc : Sharers(registry[q])' = Sharers(registry[q])
      BY <1>6, <2>1 DEF Release, Sharers
    <3>2. QED
      BY <1>6, <3>1 DEF Release, LockInv, CountedLock
  <2>5. FreshLock'
    BY <1>6 DEF Release, LockInv, FreshLock
  <2>6. QED
    BY <2>2, <2>3, <2>4, <2>5 DEF LockInv
<1>7. ASSUME NEW c \in Call, Unregister(c) PROVE LockInv'
  BY <1>7, UnregisterKeepsLockInv
<1>8. ASSUME NEW c \in Call, Recheck(c) PROVE LockInv'
  <2>1. InLock(c) /\ entry[c] # NoCall
    BY <1>8, NullAssumption DEF Recheck, InLock, Interested, Locked, LockInv, SharedLock
  <2>2. QED
    BY <1>8, <2>1, LockKept DEF Recheck, InLock, Interested, Locked
<1>8a. ASSUME NEW c \in Call, RecheckRaises(c) PROVE LockInv'
  BY <1>8a, LockKept DEF RecheckRaises, InLock, Interested, Locked
<1>9. ASSUME NEW c \in Call, Announce(c) PROVE LockInv'
  BY <1>9, LockKept DEF Announce, InLock, Interested, Locked
<1>10. ASSUME NEW c \in Call, Render(c) PROVE LockInv'
  BY <1>10, LockKept DEF Render, InLock, Interested, Locked
<1>11. ASSUME NEW c \in Call, Save(c) PROVE LockInv'
  <2>1. InLock(c) /\ entry[c] # NoCall
    BY <1>11, NullAssumption DEF Save, InLock, Interested, Locked, LockInv, SharedLock
  <2>2. QED
    BY <1>11, <2>1, LockKept DEF Save, InLock, Interested, Locked
<1>11a. ASSUME NEW c \in Call, SaveRaises(c) PROVE LockInv'
  BY <1>11a, LockKept DEF SaveRaises, InLock, Interested, Locked
<1>12. ASSUME NEW c \in Call, SaveRefused(c) PROVE LockInv'
  BY <1>12, LockKept DEF SaveRefused, InLock, Interested, Locked
<1>13. ASSUME NEW c \in Call, StatFails(c) PROVE LockInv'
  BY <1>13, LockKept DEF StatFails, InLock, Interested, Locked
<1>14. ASSUME NEW c \in Call, Yield(c) PROVE LockInv'
  <2>1. InLock(c) /\ entry[c] # NoCall
    BY <1>14, NullAssumption DEF Yield, InLock, Interested, Locked, LockInv, SharedLock
  <2>2. QED
    BY <1>14, <2>1, LockKept DEF Yield, InLock, Interested, Locked
<1>15. ASSUME NEW c \in Call, Fail(c) PROVE LockInv'
  BY <1>15, LockKept DEF Fail, InLock, Interested, Locked
<1>16. ASSUME NEW c \in Call, HookStamps(c) PROVE LockInv'
  BY <1>16, LockKept DEF HookStamps, InLock, Interested, Locked
<1>17. ASSUME UNCHANGED <<lockVars, pc, proc, entry>> PROVE LockInv'
  BY <1>17 DEF LockInv, SharedLock, HeldLock, CountedLock, FreshLock, Sharers, InLock
<1>18. ASSUME NEW p \in Proc, Crash(p) PROVE LockInv'
  BY <1>18, CrashKeepsLockInv
<1>19. ASSUME DeleteStep \/ UNCHANGED vars PROVE UNCHANGED <<lockVars, pc, proc, entry>>
  BY <1>19 DEF DeleteStep, ResolvePaths, DropRows, Reclaim, vars
<1>20. QED
  BY <1>1, <1>2, <1>2a, <1>3, <1>4, <1>5, <1>6, <1>7, <1>8, <1>8a, <1>9, <1>10, <1>11, <1>11a,
     <1>12, <1>13, <1>14, <1>15, <1>16, <1>17, <1>18, <1>19
     DEF Next, CallStep, LockStep, RenderStep

-----------------------------------------------------------------------------
(* Rows, files and the column: a step of one call.                         *)
LEMMA CallStepRenderingInv ==
  ASSUME TypeOK, LockInv, RenderingInv, NEW c \in Call, CallStep(c)
  PROVE  RenderingInv'
<1> USE DEF TypeOK, Goto, dbVars, said, disk, lockVars, deleteVars, SetColumn, ReportId, Report,
            RenderingInv, CallInv, Promised, Settler, RowHasItsFile, ReadyMeansAReport,
            Running, Locked
<1>1. CASE CheckExisting(c) BY <1>1 DEF CheckExisting, Adopts
<1>1a. CASE CheckRaises(c)  BY <1>1a DEF CheckRaises
<1>2. CASE Adopt(c)         BY <1>2 DEF Adopt
<1>3. CASE Register(c)      BY <1>3 DEF Register
<1>4. CASE Acquire(c)       BY <1>4 DEF Acquire
<1>5. CASE Release(c)       BY <1>5 DEF Release
<1>6. CASE Unregister(c)    BY <1>6 DEF Unregister
<1>7. CASE Recheck(c)       BY <1>7 DEF Recheck, Adopts
<1>7a. CASE RecheckRaises(c) BY <1>7a DEF RecheckRaises
<1>8. CASE Announce(c)      BY <1>8 DEF Announce
<1>9. CASE Render(c)        BY <1>9, NullAssumption DEF Render
<1>10. CASE Save(c)         BY <1>10, NullAssumption DEF Save
<1>10a. CASE SaveRaises(c)  BY <1>10a DEF SaveRaises
<1>11. CASE SaveRefused(c)  BY <1>11 DEF SaveRefused
<1>12. CASE StatFails(c)    BY <1>12 DEF StatFails
<1>13. CASE Yield(c)        BY <1>13 DEF Yield, Remove
<1>14. CASE Fail(c)         BY <1>14 DEF Fail
<1>15. CASE HookStamps(c)   BY <1>15 DEF HookStamps
<1>16. QED
  BY <1>1, <1>1a, <1>2, <1>3, <1>4, <1>5, <1>6, <1>7, <1>7a, <1>8, <1>9, <1>10, <1>10a, <1>11,
     <1>12, <1>13, <1>14, <1>15 DEF CallStep, LockStep, RenderStep

(* ... and every other step.                                               *)
LEMMA StepRenderingInv ==
  ASSUME TypeOK, LockInv, RenderingInv, [Next]_vars
  PROVE  RenderingInv'
<1> USE DEF TypeOK, Goto, dbVars, said, disk, lockVars, deleteVars, SetColumn, ReportId, Report,
            RenderingInv, CallInv, Promised, Settler, RowHasItsFile, ReadyMeansAReport,
            Running, Locked
<1>1. ASSUME NEW c \in Call, NEW p \in Proc, BeginHook(c, p) PROVE RenderingInv'
  BY <1>1 DEF BeginHook
<1>2. ASSUME NEW c \in Call, NEW p \in Proc, BeginPost(c, p) PROVE RenderingInv'
  BY <1>2 DEF BeginPost
<1>3. CASE ResolvePaths     BY <1>3 DEF ResolvePaths
<1>4. CASE DropRows         BY <1>4 DEF DropRows
<1>5. CASE Reclaim          BY <1>5 DEF Reclaim, Remove
<1>6. ASSUME NEW p \in Proc, Crash(p) PROVE RenderingInv'
  BY <1>6 DEF Crash
<1>7. CASE UNCHANGED vars   BY <1>7 DEF vars
<1>8. QED
  BY <1>1, <1>2, <1>3, <1>4, <1>5, <1>6, <1>7, CallStepRenderingInv DEF Next, DeleteStep

-----------------------------------------------------------------------------
(* Under the lock of its process, a render is the only one.                *)
LEMMA LockMakesSole ==
  ASSUME LockInv
  PROVE  OneRenderPerProcess
<1> SUFFICES ASSUME NEW c \in Call, NEW d \in Call,
                    pc[c] \in Locked \ {"releasing"}, pc[d] \in Locked \ {"releasing"},
                    proc[c] = proc[d]
             PROVE  c = d
  BY DEF OneRenderPerProcess
<1>1. InLock(c) /\ InLock(d)
  BY DEF InLock, Interested
<1>2. entry[c] = entry[d]
  BY <1>1 DEF LockInv, SharedLock
<1>3. holder[entry[c]] = c /\ holder[entry[d]] = d
  BY <1>1 DEF LockInv, HeldLock, Locked
<1>4. QED
  BY <1>2, <1>3

(* In one process, calls that render are one call.                         *)
LEMMA SoleRenderer ==
  ASSUME LockInv, RenderingInv, OneProcess, NEW c \in Call, NEW d \in Call,
         pc[c] \in Locked \ {"releasing"}, pc[d] \in Locked \ {"releasing"}
  PROVE  c = d
<1>1. proc[c] \in Proc /\ proc[d] \in Proc
  BY DEF RenderingInv, CallInv, Locked
<1>2. QED
  BY <1>1, LockMakesSole DEF OneProcess, OneRenderPerProcess

(* Every file has a row, an owner, or a delete that leaves it.             *)
LEMMA CallStepStray ==
  ASSUME TypeOK, LockInv, RenderingInv, StrayInv, NEW c \in Call, CallStep(c)
  PROVE  StrayInv'
<1> USE DEF TypeOK, Goto, dbVars, said, disk, lockVars, deleteVars, SetColumn, ReportId, Report,
            StrayInv, TargetInv, Unowned, FailingRender, RenderingInv, CallInv
<1>1. CASE CheckExisting(c)
  BY <1>1 DEF CheckExisting, Adopts
<1>1a. CASE CheckRaises(c)
  BY <1>1a DEF CheckRaises
<1>2. CASE Adopt(c)
  BY <1>2 DEF Adopt
<1>3. CASE Register(c)
  BY <1>3 DEF Register
<1>4. CASE Acquire(c)
  BY <1>4 DEF Acquire
<1>5. CASE Release(c)
  BY <1>5 DEF Release
<1>6. CASE Unregister(c)
  BY <1>6 DEF Unregister
<1>7. CASE Recheck(c)
  BY <1>7 DEF Recheck, Adopts
<1>7a. CASE RecheckRaises(c)
  BY <1>7a DEF RecheckRaises
<1>8. CASE Announce(c)
  BY <1>8 DEF Announce
<1>9. CASE Render(c)
  <2>1. /\ pc[c] = "rendering" /\ target[c] \in Call
        /\ UNCHANGED <<analysis, row, target, raised, stuck, deleting, leftovers>>
        /\ \/ /\ file' = [file EXCEPT ![target[c]] = c]
              /\ pc' = [pc EXCEPT ![c] = "rendered"]
           \/ file' = file /\ pc' = [pc EXCEPT ![c] = "failing"]
    BY <1>9 DEF Render
  <2>2. TargetInv'
    BY <2>1
  <2>3. ASSUME NEW k \in Call, file'[k] # NoCall, analysis = "done", ReportId # k
        PROVE  Unowned(k)'
    <3>1. CASE k = c /\ target[c] = c
      BY <2>1, <2>3, <3>1
    <3>2. CASE ~(k = c /\ target[c] = c)
      <4>1. file'[k] = file[k] /\ Unowned(k)
        BY <2>1, <2>3, <3>2
      <4>2. QED
        BY <2>1, <4>1
    <3>3. QED
      BY <3>1, <3>2
  <2>4. ASSUME NEW k \in Call, file'[k] # NoCall, deleting = "over", k \in leftovers
        PROVE  FailingRender(file[k])' \/ k \in stuck
    BY <2>1, <2>4
  <2>5. QED
    BY <2>1, <2>2, <2>3, <2>4
<1>10. CASE Save(c)
  <2>1. /\ pc[c] = "rendered" /\ analysis = "done" /\ ReportId \in {NoCall, target[c]}
        /\ row' = [id |-> target[c], bytes |-> c] /\ pc' = [pc EXCEPT ![c] = "adopting"]
        /\ UNCHANGED <<analysis, file, stuck, target, raised, deleting, leftovers>>
    BY <1>10 DEF Save
  <2>2. deleting # "over" /\ target[c] \in Call
    BY <2>1
  <2>3. ReportId' = target[c] /\ target[c] \in {c, ReportId} /\ c # NoCall
    BY <2>1, <2>2, NullAssumption
  <2>4. TargetInv'
    <3>1. ASSUME NEW d \in Call, pc'[d] \in {"announcing", "rendering", "rendered", "yielding"}
          PROVE  target'[d] \in {d, ReportId'}
      <4>1. pc'[d] = pc[d] /\ target'[d] = target[d] /\ target[d] \in Call
        BY <2>1, <3>1
      <4>2. target[d] \in {d, ReportId}
        BY <2>1, <3>1, <4>1
      <4>3. ReportId \in {NoCall, target[c]}
        BY <2>1
      <4>4. QED
        BY <2>3, <4>1, <4>2, <4>3, NullAssumption
    <3>2. QED
      BY <3>1
  <2>5. ASSUME NEW k \in Call, file[k] # NoCall, ReportId' # k
        PROVE  Unowned(k)'
    <3>1. ReportId # k /\ Unowned(k)
      BY <2>1, <2>3, <2>5, NullAssumption
    <3>2. CASE k = c
      <4>1. raised[k] \/ k \in stuck
        BY <2>1, <2>3, <2>5, <3>1, <3>2
      <4>2. QED
        BY <2>1, <3>1, <4>1
    <3>3. CASE k # c
      <4>1. pc'[k] = pc[k]
        BY <2>1, <3>3
      <4>2. QED
        BY <2>1, <3>1, <4>1
    <3>4. QED
      BY <3>2, <3>3
  <2>6. QED
    BY <2>1, <2>2, <2>4, <2>5
<1>10a. CASE SaveRaises(c)
  BY <1>10a DEF SaveRaises
<1>11. CASE SaveRefused(c)
  BY <1>11 DEF SaveRefused
<1>12. CASE StatFails(c)
  BY <1>12 DEF StatFails
<1>13. CASE Yield(c)
  BY <1>13 DEF Yield, Remove
<1>14. CASE Fail(c)
  BY <1>14 DEF Fail
<1>15. CASE HookStamps(c)
  BY <1>15 DEF HookStamps
<1>16. QED
  BY <1>1, <1>1a, <1>2, <1>3, <1>4, <1>5, <1>6, <1>7, <1>7a, <1>8, <1>9, <1>10, <1>10a, <1>11,
     <1>12, <1>13, <1>14, <1>15 DEF CallStep, LockStep, RenderStep

(* A failed column tells the latest outcome, or is about to be healed.     *)
LEMMA CallStepFailed ==
  ASSUME TypeOK, LockInv, RenderingInv, FailedInv, NEW c \in Call, CallStep(c)
  PROVE  FailedInv'
<1> USE DEF TypeOK, Goto, dbVars, said, disk, lockVars, deleteVars, SetColumn, ReportId, Report,
            FailedInv, RenderingInv, CallInv
<1>1. CASE CheckExisting(c)
  BY <1>1 DEF CheckExisting, Adopts
<1>1a. CASE CheckRaises(c)
  BY <1>1a DEF CheckRaises
<1>2. CASE Adopt(c)
  BY <1>2 DEF Adopt
<1>3. CASE Register(c)
  BY <1>3 DEF Register
<1>4. CASE Acquire(c)
  BY <1>4 DEF Acquire
<1>5. CASE Release(c)
  BY <1>5 DEF Release
<1>6. CASE Unregister(c)
  BY <1>6 DEF Unregister
<1>7. CASE Recheck(c)
  BY <1>7 DEF Recheck, Adopts
<1>7a. CASE RecheckRaises(c)
  BY <1>7a DEF RecheckRaises
<1>8. CASE Announce(c)
  BY <1>8 DEF Announce
<1>9. CASE Render(c)
  BY <1>9 DEF Render
<1>10. CASE Save(c)
  BY <1>10 DEF Save
<1>10a. CASE SaveRaises(c)
  BY <1>10a DEF SaveRaises
<1>11. CASE SaveRefused(c)
  BY <1>11 DEF SaveRefused
<1>12. CASE StatFails(c)
  BY <1>12 DEF StatFails
<1>13. CASE Yield(c)
  BY <1>13 DEF Yield, Remove
<1>14. CASE Fail(c)
  BY <1>14 DEF Fail
<1>15. CASE HookStamps(c)
  BY <1>15 DEF HookStamps
<1>16. QED
  BY <1>1, <1>1a, <1>2, <1>3, <1>4, <1>5, <1>6, <1>7, <1>7a, <1>8, <1>9, <1>10, <1>10a, <1>11,
     <1>12, <1>13, <1>14, <1>15 DEF CallStep, LockStep, RenderStep

(* In one process, the row describes its file, or is about to.             *)
LEMMA CallStepDescribed ==
  ASSUME TypeOK, LockInv, RenderingInv, DescribedInv, OneProcess,
         NEW c \in Call, CallStep(c)
  PROVE  DescribedInv'
<1> USE DEF TypeOK, Goto, dbVars, said, disk, lockVars, deleteVars, SetColumn, ReportId, Report,
            DescribedInv, SoleRender, Rewritten, RenderingInv, CallInv, RowHasItsFile,
            Locked
<1>0. \A d \in Call : pc[c] \in Locked \ {"releasing"} /\ pc[d] \in Locked \ {"releasing"} => d = c
  BY SoleRenderer
<1>1. CASE CheckExisting(c)
  BY <1>0, <1>1 DEF CheckExisting, Adopts
<1>1a. CASE CheckRaises(c)
  BY <1>0, <1>1a DEF CheckRaises
<1>2. CASE Adopt(c)
  BY <1>0, <1>2 DEF Adopt
<1>3. CASE Register(c)
  BY <1>0, <1>3 DEF Register
<1>4. CASE Acquire(c)
  BY <1>0, <1>4 DEF Acquire
<1>5. CASE Release(c)
  BY <1>0, <1>5 DEF Release
<1>6. CASE Unregister(c)
  BY <1>0, <1>6 DEF Unregister
<1>7. CASE Recheck(c)
  BY <1>0, <1>7 DEF Recheck, Adopts
<1>7a. CASE RecheckRaises(c)
  BY <1>0, <1>7a DEF RecheckRaises
<1>8. CASE Announce(c)
  BY <1>0, <1>8 DEF Announce
<1>9. CASE Render(c)
  BY <1>0, <1>9 DEF Render
<1>10. CASE Save(c)
  BY <1>0, <1>10 DEF Save
<1>10a. CASE SaveRaises(c)
  BY <1>0, <1>10a DEF SaveRaises
<1>11. CASE SaveRefused(c)
  BY <1>0, <1>11 DEF SaveRefused
<1>12. CASE StatFails(c)
  BY <1>0, <1>12 DEF StatFails
<1>13. CASE Yield(c)
  BY <1>0, <1>13 DEF Yield, Remove
<1>14. CASE Fail(c)
  BY <1>0, <1>14 DEF Fail
<1>15. CASE HookStamps(c)
  BY <1>0, <1>15 DEF HookStamps
<1>16. QED
  BY <1>1, <1>1a, <1>2, <1>3, <1>4, <1>5, <1>6, <1>7, <1>7a, <1>8, <1>9, <1>10, <1>10a, <1>11,
     <1>12, <1>13, <1>14, <1>15 DEF CallStep, LockStep, RenderStep

(* A process that has had a call keeps it: one process was one before.     *)
LEMMA OneProcessBackwards ==
  ASSUME TypeOK, RenderingInv, [Next]_vars, OneProcess'
  PROVE  OneProcess
<1>1. \A c \in Call : proc[c] \in Proc => proc'[c] = proc[c]
  <2>1. ASSUME NEW c \in Call, NEW p \in Proc, BeginHook(c, p) \/ BeginPost(c, p)
        PROVE  proc[c] = NoProc /\ proc' = [proc EXCEPT ![c] = p]
    BY <2>1 DEF BeginHook, BeginPost, RenderingInv, CallInv
  <2>2. ASSUME NEW c \in Call, CallStep(c)
        PROVE  proc' = proc
    BY <2>2 DEF CallStep, LockStep, RenderStep, CheckExisting, CheckRaises, Adopt, Register, Acquire,
       Release, Unregister, Recheck, RecheckRaises, Announce, Render, Save, SaveRaises, SaveRefused,
       StatFails, Yield, Fail, HookStamps
  <2>3. ASSUME DeleteStep \/ (\E p \in Proc : Crash(p)) \/ UNCHANGED vars
        PROVE  proc' = proc
    BY <2>3 DEF DeleteStep, ResolvePaths, DropRows, Reclaim, Crash, vars
  <2>4. QED
    BY <2>1, <2>2, <2>3, NullAssumption DEF TypeOK, Next
<1>2. QED
  BY <1>1 DEF OneProcess

(* ... and every other step.                                               *)
LEMMA StepSettledInv ==
  ASSUME TypeOK, LockInv, RenderingInv, SettledInv, [Next]_vars
  PROVE  SettledInv'
<1>0. DescribedInv /\ StrayInv /\ FailedInv
  BY DEF SettledInv
<1> USE DEF TypeOK, Goto, dbVars, said, disk, lockVars, deleteVars, SetColumn, ReportId, Report,
            RenderingInv, CallInv, DescribedInv, SoleRender, Rewritten, StrayInv, TargetInv,
            Unowned, FailingRender, FailedInv, RowHasItsFile
<1> HIDE DEF OneProcess
<1>1. ASSUME NEW c \in Call, NEW p \in Proc, BeginHook(c, p)
      PROVE  (OneProcess' => OneProcess) => SettledInv'
  <2>1. (OneProcess' => OneProcess) => DescribedInv'
    BY <1>0, <1>1 DEF BeginHook
  <2>2. StrayInv'
    BY <1>0, <1>1 DEF BeginHook
  <2>3. FailedInv'
    BY <1>0, <1>1 DEF BeginHook
  <2>4. QED
    BY <2>1, <2>2, <2>3 DEF SettledInv
<1>2. ASSUME NEW c \in Call, NEW p \in Proc, BeginPost(c, p)
      PROVE  (OneProcess' => OneProcess) => SettledInv'
  <2>1. (OneProcess' => OneProcess) => DescribedInv'
    BY <1>0, <1>2 DEF BeginPost
  <2>2. StrayInv'
    BY <1>0, <1>2 DEF BeginPost
  <2>3. FailedInv'
    BY <1>0, <1>2 DEF BeginPost
  <2>4. QED
    BY <2>1, <2>2, <2>3 DEF SettledInv
<1>3. ASSUME NEW c \in Call, CallStep(c)
      PROVE  (OneProcess' => OneProcess) => SettledInv'
  BY <1>0, <1>3, CallStepDescribed, CallStepStray, CallStepFailed DEF SettledInv
<1>4. CASE ResolvePaths
  <2>1. (OneProcess' => OneProcess) => DescribedInv'
    BY <1>0, <1>4 DEF ResolvePaths
  <2>2. StrayInv' /\ FailedInv'
    BY <1>0, <1>4 DEF ResolvePaths
  <2>3. QED
    BY <2>1, <2>2, OneProcessBackwards DEF SettledInv
<1>5. CASE DropRows
  <2>1. (OneProcess' => OneProcess) => DescribedInv'
    BY <1>0, <1>5 DEF DropRows
  <2>2. StrayInv' /\ FailedInv'
    BY <1>0, <1>5 DEF DropRows
  <2>3. QED
    BY <2>1, <2>2, OneProcessBackwards DEF SettledInv
<1>6. CASE Reclaim
  <2>1. (OneProcess' => OneProcess) => DescribedInv'
    BY <1>0, <1>6 DEF Reclaim, Remove
  <2>2. StrayInv' /\ FailedInv'
    BY <1>0, <1>6 DEF Reclaim, Remove
  <2>3. QED
    BY <2>1, <2>2, OneProcessBackwards DEF SettledInv
<1>7. ASSUME NEW p \in Proc, Crash(p)
      PROVE  (OneProcess' => OneProcess) => SettledInv'
  <2>1. (OneProcess' => OneProcess) => DescribedInv'
    BY <1>0, <1>7 DEF Crash
  <2>2. StrayInv'
    BY <1>0, <1>7 DEF Crash
  <2>3. FailedInv'
    BY <1>0, <1>7 DEF Crash, Running
  <2>4. QED
    BY <2>1, <2>2, <2>3 DEF SettledInv
<1>8. CASE UNCHANGED vars
  <2>1. (OneProcess' => OneProcess) => DescribedInv'
    BY <1>0, <1>8 DEF vars
  <2>2. StrayInv' /\ FailedInv'
    BY <1>0, <1>8 DEF vars
  <2>3. QED
    BY <2>1, <2>2, OneProcessBackwards DEF SettledInv
<1>9. OneProcess' => OneProcess
  BY OneProcessBackwards
<1>10. QED
  BY <1>1, <1>2, <1>3, <1>4, <1>5, <1>6, <1>7, <1>8, <1>9 DEF Next, DeleteStep

-----------------------------------------------------------------------------
(* The invariants the theorems follow from.                                *)
LEMMA InvariantsHold == Spec => [](TypeOK /\ LockInv /\ RenderingInv /\ SettledInv)
<1>1. Init => TypeOK /\ LockInv /\ RenderingInv /\ SettledInv
  <2> SUFFICES ASSUME Init PROVE TypeOK /\ LockInv /\ RenderingInv /\ SettledInv
    OBVIOUS
  <2>1. TypeOK
    BY DEF Init, TypeOK
  <2>2. LockInv
    BY NullAssumption DEF Init, LockInv, SharedLock, HeldLock, CountedLock, FreshLock, InLock,
       Interested, Locked
  <2>3. RenderingInv
    BY DEF Init, RenderingInv, CallInv, Promised, RowHasItsFile, ReadyMeansAReport
  <2>4. SettledInv
    BY DEF Init, SettledInv, DescribedInv, SoleRender, StrayInv, TargetInv, FailedInv
  <2>5. QED
    BY <2>1, <2>2, <2>3, <2>4
<1>2. TypeOK /\ LockInv /\ RenderingInv /\ SettledInv /\ [Next]_vars
        => (TypeOK /\ LockInv /\ RenderingInv /\ SettledInv)'
  BY StepTypeOK, StepLockInv, StepRenderingInv, StepSettledInv
<1>3. QED
  BY <1>1, <1>2, PTL DEF Spec

(* Calls, locks, rows and files are what their types say, and a lock's     *)
(* count of interested threads never goes below zero.                      *)
THEOREM RenderingWellTyped == Spec => []TypeOK
BY InvariantsHold, PTL

(* _analysis_report_lock serialises the renders of a process, for any      *)
(* number of calls, although its lock objects come and go.                 *)
THEOREM LockExcludes == Spec => []OneRenderPerProcess
BY LockMakesSole, InvariantsHold, PTL

(* A listed report's file is on disk, whatever renders, the loser's        *)
(* clean-up, a delete and crashes do.                                      *)
THEOREM RowsHaveFiles == Spec => []RowHasItsFile
<1>1. RenderingInv => RowHasItsFile
  BY DEF RenderingInv
<1>2. QED
  BY <1>1, InvariantsHold, PTL

(* The column promises no report that is not there.                        *)
THEOREM ReadyIsTrue == Spec => []ReadyMeansAReport
<1>1. RenderingInv => ReadyMeansAReport
  BY DEF RenderingInv
<1>2. QED
  BY <1>1, InvariantsHold, PTL

(* No way out of a call, by return or by exception, leaves the column at   *)
(* generating.                                                             *)
THEOREM GeneratingIsSettled == Spec => []GeneratingIsNotAbandoned
<1>1. TypeOK /\ RenderingInv => GeneratingIsNotAbandoned
  BY DEF TypeOK, RenderingInv, GeneratingIsNotAbandoned, Quiet, Settler, Running, Locked
<1>2. QED
  BY <1>1, InvariantsHold, PTL

(***************************************************************************)
(* When every call has ended: the row of calls that ran in one process     *)
(* describes the bytes on disk, no PDF is without a row (but for crashes   *)
(* and a delete that looked too early), and a failed column is the truth.  *)
(***************************************************************************)
THEOREM SettledReportsAreTrue == Spec => []SettledReportIsTrue
<1>1. TypeOK /\ RenderingInv /\ SettledInv => SettledReportIsTrue
  <2> SUFFICES ASSUME TypeOK, RenderingInv, SettledInv PROVE SettledReportIsTrue
    OBVIOUS
  <2> USE DEF Quiet, SettledInv
  <2>1. RowDescribesItsFile
    BY DEF RowDescribesItsFile, DescribedInv, OneProcess, Rewritten
  <2>2. NoStrayPdf
    <3> SUFFICES ASSUME Quiet, deleting # "dropped", NEW k \in Call, file[k] # NoCall,
                        ReportId # k
                 PROVE  \/ raised[file[k]] \/ k \in stuck
                        \/ deleting = "over" /\ k \notin leftovers
      BY DEF NoStrayPdf
    <3>1. file[k] \in Call /\ pc[file[k]] \in {"idle", "ended"} /\ pc[k] \in {"idle", "ended"}
      BY DEF TypeOK
    <3>2. CASE analysis = "done"
      BY <3>1, <3>2 DEF StrayInv, Unowned, FailingRender
    <3>3. CASE deleting = "over" /\ k \in leftovers
      BY <3>1, <3>3 DEF StrayInv, FailingRender
    <3>4. QED
      BY <3>2, <3>3 DEF RenderingInv, TypeOK
  <2>3. FailedMeansLatestFailed
    BY DEF FailedMeansLatestFailed, FailedInv
  <2>4. QED
    BY <2>1, <2>2, <2>3 DEF SettledReportIsTrue
<1>2. QED
  BY <1>1, InvariantsHold, PTL
=============================================================================
