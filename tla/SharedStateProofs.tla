-------------------------- MODULE SharedStateProofs --------------------------
(***************************************************************************)
(* What threads that share a lock, a pool of permits or a ring of events   *)
(* can rely on: the group commit (GroupCommit), the permits and the drain  *)
(* of the server (Serving) and the change feed (EventFeed).  The three     *)
(* share no state: each has constants, variables and an invariant of its   *)
(* own.                                                                    *)
(***************************************************************************)
EXTENDS GroupCommit, Integers, Sequences, FiniteSets, FiniteSetTheorems,
        SequenceTheorems, TLAPS

-----------------------------------------------------------------------------
(* The inductive invariant.                                                *)

InLock == {"appended", "locked", "renamed", "unlock"}
Flushing == {"fetch", "flush", "flushed", "failed"}

\* StorageEngine::writer is held exactly in the sections that take it, and the
\* handle is behind the name exactly between rotate's rename and reset_handle.
LockInv ==
  /\ \A w \in Writers : pc[w] \in InLock <=> lock = w
  /\ \A w \in Writers : pc[w] = "renamed" => renamed
  /\ renamed => lock \in Writers /\ pc[lock] = "renamed"
  /\ handle = IF renamed THEN named - 1 ELSE named
  /\ renamed => named > 0

\* A file is superseded by one that has all its content on stable storage, and
\* nothing is counted that the file with the open handle lacks.
FileInv ==
  /\ \A f \in Files : stable[f] <= content[f]
  /\ \A f, g \in Files : f < g /\ g <= named => content[f] <= stable[g]
  /\ renamed => content[named] = content[handle]
  /\ appended <= content[handle]
  /\ durable <= stable[handle]

\* What each call of sync_pending carries: its target covers its own record, a
\* flusher's coverage its target, and the file it flushes what it will publish.
Call(w) ==
  /\ mine[w] <= content[handle] /\ target[w] <= appended /\ covered[w] <= appended
  /\ file[w] <= handle
  /\ pc[w] \in {"locked", "renamed", "unlock"} => mine[w] <= appended
  /\ pc[w] \in Flushing \cup {"loop", "asleep"} => mine[w] <= target[w]
  /\ pc[w] \in Flushing => target[w] <= covered[w]
  /\ pc[w] = "flush" => covered[w] <= content[file[w]]
  /\ pc[w] = "flushed" => covered[w] <= stable[file[w]]
  /\ pc[w] = "idle" /\ result[w] = "ok" => mine[w] <= stable[handle]

CallInv == \A w \in Writers : Call(w)

\* Whoever set the syncing flag, or lets others sleep, is at work.
WakeInv ==
  /\ syncing => \E s \in Writers : pc[s] \in Flushing
  /\ NoLostWakeup

IInv == TypeOK /\ LockInv /\ FileInv /\ CallInv /\ WakeInv

-----------------------------------------------------------------------------
(* Initial states and steps.                                               *)

\* Opening the log, no thread has called it and nothing is counted.
LEMMA InitIInv == Init => IInv
<1> SUFFICES ASSUME Init PROVE IInv  OBVIOUS
<1> USE WritersAssumption
<1>0. 0 \in Files  BY DEF Files
<1>1. TypeOK  BY <1>0, Zenon DEF Init, TypeOK
<1>2. LockInv  BY DEF Init, LockInv, InLock
<1>3. FileInv  BY <1>0 DEF Init, FileInv, Files
<1>4. CallInv
  <2> SUFFICES ASSUME NEW w \in Writers PROVE Call(w)  BY Zenon DEF CallInv
  <2> QED  BY <1>0 DEF Init, Call, Flushing
<1>5. WakeInv  BY DEF Init, WakeInv, NoLostWakeup
<1> QED  BY <1>1, <1>2, <1>3, <1>4, <1>5 DEF IInv

\* What an older file has is in the file with the open handle, and on stable
\* storage there.
LEMMA OlderIsStable ==
  ASSUME TypeOK, LockInv, FileInv
  PROVE  /\ handle \in Files /\ handle <= named /\ named \in Nat /\ handle \in Nat
         /\ \A f \in Files : f < handle => content[f] <= stable[handle]
         /\ \A f \in Files : f <= handle => stable[f] <= stable[handle]
         /\ stable[handle] <= stable[named]
<1> USE WritersAssumption DEF Files
<1>1. named \in 0 .. MaxRotations /\ handle \in 0 .. MaxRotations  BY DEF TypeOK
<1>2. handle <= named  BY <1>1 DEF LockInv
<1>3. \A f \in Files : stable[f] \in Nat /\ content[f] \in Nat  BY DEF TypeOK
<1>4. \A f \in Files : f < handle => content[f] <= stable[handle]  BY <1>1, <1>2 DEF FileInv
<1>5. \A f \in Files : f <= handle => stable[f] <= stable[handle]
  BY <1>1, <1>3, <1>4 DEF FileInv
<1>6. stable[handle] <= stable[named]  BY <1>1, <1>2, <1>3 DEF FileInv
<1> QED  BY <1>1, <1>2, <1>4, <1>5, <1>6

\* Writing a line under the writer lock counts nothing yet.
LEMMA WriteLineStep == ASSUME NEW w \in Writers, IInv, WriteLine(w) PROVE IInv'
<1> USE WritersAssumption DEF WriteLine, Goto, syncVars, fileVars, callVars
<1>1. TypeOK /\ LockInv /\ FileInv /\ CallInv /\ WakeInv  BY DEF IInv
<1>a. ~renamed /\ handle = named /\ handle \in Files  BY <1>1 DEF LockInv, TypeOK
<1>b. content \in [Files -> Nat] /\ stable \in [Files -> Nat]  BY <1>1 DEF TypeOK
<1>c. \A f \in Files : content'[f] = IF f = handle THEN content[f] + 1 ELSE content[f]
  BY <1>a, <1>b
<1>d. content' \in [Files -> Nat]  BY <1>a, <1>b
<1>e. mine' \in [Writers -> Nat]  BY <1>1, <1>a, <1>b DEF TypeOK
<1>2. TypeOK'  BY <1>1, <1>d, <1>e DEF TypeOK
<1>3. LockInv'  BY <1>1 DEF TypeOK, LockInv, InLock
<1>4. FileInv'
  <2>1. \A f \in Files : stable'[f] <= content'[f]  BY <1>1, <1>b, <1>c DEF FileInv
  <2>2. \A f, g \in Files : f < g /\ g <= named => content'[f] <= stable'[g]
    BY <1>1, <1>a, <1>c DEF FileInv, Files
  <2>3. appended <= content'[handle]  BY <1>1, <1>a, <1>b, <1>c DEF FileInv, TypeOK
  <2> QED  BY <1>1, <1>a, <2>1, <2>2, <2>3 DEF FileInv
<1>5. CallInv'
  <2> SUFFICES ASSUME NEW x \in Writers PROVE Call(x)'  BY DEF CallInv
  <2>1. Call(x)  BY <1>1 DEF CallInv
  <2>2. CASE x = w  BY <1>1, <1>a, <1>c, <2>1, <2>2 DEF TypeOK, Call, Flushing
  <2>3. CASE x # w
    <3>1. pc'[x] = pc[x] /\ mine'[x] = mine[x]  BY <1>1, <2>3 DEF TypeOK
    <3>2. file[x] \in Files /\ covered[x] \in Nat /\ mine[x] \in Nat  BY <1>1 DEF TypeOK
    <3>3. content[file[x]] <= content'[file[x]] /\ content[handle] <= content'[handle]
      BY <1>a, <1>b, <1>c, <3>2
    <3>4. /\ content[handle] \in Nat /\ content'[handle] \in Nat
          /\ content[file[x]] \in Nat /\ content'[file[x]] \in Nat
      BY <1>a, <1>b, <1>d, <3>2
    <3> QED  BY <2>1, <3>1, <3>2, <3>3, <3>4 DEF Call
  <2> QED  BY <2>2, <2>3
<1>6. WakeInv'  BY <1>1 DEF TypeOK, WakeInv, NoLostWakeup, Flushing
<1> QED  BY <1>2, <1>3, <1>4, <1>5, <1>6 DEF IInv

\* Counting the line in appended raises what later targets must cover.
LEMMA appendStep == ASSUME NEW w \in Writers, IInv, append(w) PROVE IInv'
<1> USE WritersAssumption DEF append, Goto, Larger, syncVars, fileVars, callVars
<1>1. TypeOK /\ LockInv /\ FileInv /\ CallInv /\ WakeInv  BY DEF IInv
<1>2. TypeOK'  BY <1>1 DEF TypeOK
<1>3. LockInv'  BY <1>1 DEF TypeOK, LockInv, InLock
<1>4. FileInv'  BY <1>1 DEF TypeOK, FileInv, CallInv, Call
<1>5. CallInv'
  <2> SUFFICES ASSUME NEW x \in Writers PROVE Call(x)'  BY DEF CallInv
  <2>1. Call(x)  BY <1>1 DEF CallInv
  <2>2. appended <= appended' /\ mine[w] <= appended' /\ appended \in Nat /\ appended' \in Nat
    BY <1>1 DEF TypeOK
  <2>3. /\ mine[x] \in Nat /\ target[x] \in Nat /\ covered[x] \in Nat
        /\ pc'[x] = IF x = w THEN "locked" ELSE pc[x]
    BY <1>1 DEF TypeOK
  <2> QED  BY <2>1, <2>2, <2>3 DEF Call, Flushing
<1>6. WakeInv'  BY <1>1 DEF TypeOK, WakeInv, NoLostWakeup, Flushing
<1> QED  BY <1>2, <1>3, <1>4, <1>5, <1>6 DEF IInv

\* The rename of rotate puts a file with all the content, synced, under the name.
LEMMA rotateStep == ASSUME NEW w \in Writers, IInv, rotate(w) PROVE IInv'
<1> USE WritersAssumption DEF rotate, Goto, syncVars, fileVars, callVars
<1>1. TypeOK /\ LockInv /\ FileInv /\ CallInv /\ WakeInv  BY DEF IInv
<1>a. ~renamed /\ lock = w /\ handle = named
  BY <1>1 DEF LockInv, InLock, TypeOK
<1>b. named \in Files /\ named + 1 \in Files /\ named \in Nat  BY <1>1 DEF TypeOK, Files
<1>c. content \in [Files -> Nat] /\ stable \in [Files -> Nat]  BY <1>1 DEF TypeOK
<1>d. content' \in [Files -> Nat] /\ stable' \in [Files -> Nat]  BY <1>b, <1>c
<1>e. \A f \in Files : /\ content'[f] = IF f = named + 1 THEN content[named] ELSE content[f]
                      /\ stable'[f] = IF f = named + 1 THEN content[named] ELSE stable[f]
  BY <1>b, <1>c
<1>f. content'[named] = content[named] /\ stable'[named] = stable[named]  BY <1>b, <1>e
<1>2. TypeOK'  BY <1>1, <1>b, <1>d DEF TypeOK
<1>3. LockInv'
  <2>1. \A x \in Writers : pc'[x] = IF x = w THEN "renamed" ELSE pc[x]  BY <1>1 DEF TypeOK
  <2>2. handle' = named' - 1 /\ named' > 0  BY <1>a, <1>b
  <2> QED  BY <1>1, <1>a, <2>1, <2>2 DEF LockInv, InLock
<1>4. FileInv'
  <2>1. \A f \in Files : stable'[f] <= content'[f]  BY <1>1, <1>b, <1>c, <1>e DEF FileInv
  <2>2. ASSUME NEW f \in Files, NEW g \in Files, f < g, g <= named + 1
        PROVE  content'[f] <= stable'[g]
    <3>1. f \in Nat /\ g \in Nat /\ f <= named  BY <1>b, <2>2 DEF Files
    <3>2. content'[f] = content[f]  BY <1>b, <1>e, <3>1
    <3>3. CASE g <= named
      BY <1>1, <1>b, <1>e, <2>2, <3>1, <3>2, <3>3 DEF FileInv
    <3>4. CASE g = named + 1
      <4>1. f < named => content[f] <= stable[named]  BY <1>1, <1>b DEF FileInv
      <4>2. stable[named] <= content[named]  BY <1>1, <1>b DEF FileInv
      <4>3. content[f] \in Nat /\ content[named] \in Nat /\ stable[named] \in Nat
        BY <1>b, <1>c
      <4>4. content[f] <= content[named]  BY <1>b, <3>1, <4>1, <4>2, <4>3
      <4> QED  BY <1>e, <3>2, <3>4, <4>4
    <3> QED  BY <1>b, <2>2, <3>1, <3>3, <3>4
  <2>3. content'[named + 1] = content'[named]  BY <1>b, <1>e, <1>f
  <2>4. appended <= content'[named] /\ durable <= stable'[named]
    BY <1>1, <1>a, <1>f DEF FileInv
  <2> QED  BY <1>a, <2>1, <2>2, <2>3, <2>4 DEF FileInv
<1>5. CallInv'
  <2> SUFFICES ASSUME NEW x \in Writers PROVE Call(x)'  BY DEF CallInv
  <2>1. Call(x)  BY <1>1 DEF CallInv
  <2>2. file[x] \in Files /\ file[x] <= named  BY <1>1, <1>a, <2>1 DEF TypeOK, Call
  <2>3. content'[file[x]] = content[file[x]] /\ stable'[file[x]] = stable[file[x]]
    BY <1>b, <1>e, <2>2 DEF Files
  <2>4. pc'[x] = IF x = w THEN "renamed" ELSE pc[x]  BY <1>1 DEF TypeOK
  <2> QED  BY <1>a, <1>f, <2>1, <2>3, <2>4 DEF Call, Flushing
<1>6. WakeInv'  BY <1>1 DEF TypeOK, WakeInv, NoLostWakeup, Flushing
<1> QED  BY <1>2, <1>3, <1>4, <1>5, <1>6 DEF IInv

\* Re-opening the handle on the new file, with everyone woken.
LEMMA reset_handleStep == ASSUME NEW w \in Writers, IInv, reset_handle(w) PROVE IInv'
<1> USE WritersAssumption DEF reset_handle, syncVars, fileVars, callVars
<1>1. TypeOK /\ LockInv /\ FileInv /\ CallInv /\ WakeInv  BY DEF IInv
<1>p. \A x \in Writers : pc'[x] = IF x = w THEN "unlock"
                                ELSE IF pc[x] = "asleep" THEN "loop" ELSE pc[x]
  BY DEF notify_all, Only
<1>a. renamed /\ handle \in Files /\ named \in Files  BY <1>1 DEF LockInv, TypeOK
<1>b. /\ stable[handle] <= stable[named] /\ handle <= named
      /\ named \in Nat /\ handle \in Nat
  BY <1>1, OlderIsStable
<1>c. /\ content[named] = content[handle] /\ content[named] \in Nat
      /\ stable[named] \in Nat /\ stable[handle] \in Nat
  BY <1>1, <1>a DEF FileInv, TypeOK
<1>2. TypeOK'  BY <1>1, Zenon DEF TypeOK, notify_all, Only
<1>3. LockInv'  BY <1>1, <1>p DEF TypeOK, LockInv, InLock
<1>4. FileInv'  BY <1>1, <1>a, <1>b, <1>c DEF FileInv
<1>5. CallInv'
  <2> SUFFICES ASSUME NEW x \in Writers PROVE Call(x)'  BY DEF CallInv
  <2>1. Call(x)  BY <1>1 DEF CallInv
  <2>2. /\ file[x] \in Nat /\ mine[x] \in Nat /\ target[x] \in Nat /\ covered[x] \in Nat
    BY <1>1 DEF TypeOK, Files
  <2> QED  BY <1>b, <1>c, <1>p, <2>1, <2>2 DEF Call, Flushing
<1>6. WakeInv'  BY <1>1, <1>p DEF TypeOK, WakeInv, NoLostWakeup, Flushing
<1> QED  BY <1>2, <1>3, <1>4, <1>5, <1>6 DEF IInv

\* Entering sync_pending: the target is what is appended by now.
LEMMA sync_pendingStep == ASSUME NEW w \in Writers, IInv, sync_pending(w) PROVE IInv'
<1> USE WritersAssumption DEF sync_pending, Goto, syncVars, fileVars, callVars
<1>1. TypeOK /\ LockInv /\ FileInv /\ CallInv /\ WakeInv  BY DEF IInv
<1>2. TypeOK'  BY <1>1 DEF TypeOK
<1>3. LockInv'  BY <1>1 DEF TypeOK, LockInv, InLock
<1>4. FileInv'  BY <1>1 DEF FileInv
<1>5. CallInv'
  <2> SUFFICES ASSUME NEW x \in Writers PROVE Call(x)'  BY DEF CallInv
  <2>1. Call(x)  BY <1>1 DEF CallInv
  <2>2. CASE x = w  BY <1>1, <2>1, <2>2 DEF TypeOK, Call, Flushing
  <2>3. CASE x # w  BY <1>1, <2>1, <2>3 DEF TypeOK, Call, Flushing
  <2> QED  BY <2>2, <2>3
<1>6. WakeInv'  BY <1>1 DEF TypeOK, WakeInv, NoLostWakeup, Flushing
<1> QED  BY <1>2, <1>3, <1>4, <1>5, <1>6 DEF IInv

\* The loop ends with Ok when durable has reached the target.
LEMMA AlreadyDurableStep == ASSUME NEW w \in Writers, IInv, AlreadyDurable(w) PROVE IInv'
<1> USE WritersAssumption DEF AlreadyDurable, Goto, syncVars, fileVars, callVars
<1>1. TypeOK /\ LockInv /\ FileInv /\ CallInv /\ WakeInv  BY DEF IInv
<1>2. TypeOK'  BY <1>1 DEF TypeOK
<1>3. LockInv'  BY <1>1 DEF TypeOK, LockInv, InLock
<1>4. FileInv'  BY <1>1 DEF TypeOK, FileInv
<1>5. CallInv'
  <2> SUFFICES ASSUME NEW x \in Writers PROVE Call(x)'  BY DEF CallInv
  <2>1. Call(x)  BY <1>1 DEF CallInv
  <2>2. CASE x = w
    <3>1. mine[w] <= target[w] /\ target[w] <= durable /\ durable <= stable[handle]
      BY <1>1, <2>1, <2>2 DEF Call, FileInv, TypeOK
    <3>2. /\ mine[w] \in Nat /\ target[w] \in Nat /\ durable \in Nat
          /\ handle \in Files /\ stable[handle] \in Nat
      BY <1>1 DEF TypeOK
    <3>3. mine[w] <= stable[handle]  BY <3>1, <3>2
    <3>4. pc'[w] = "idle"  BY <1>1 DEF TypeOK
    <3> QED  BY <2>1, <2>2, <3>3, <3>4 DEF Call, Flushing
  <2>3. CASE x # w  BY <1>1, <2>1, <2>3 DEF TypeOK, Call
  <2> QED  BY <2>2, <2>3
<1>6. WakeInv'  BY <1>1 DEF TypeOK, WakeInv, NoLostWakeup, Flushing
<1> QED  BY <1>2, <1>3, <1>4, <1>5, <1>6 DEF IInv

\* A thread goes to sleep only while another one is syncing.
LEMMA WaitStep == ASSUME NEW w \in Writers, IInv, Wait(w) PROVE IInv'
<1> USE WritersAssumption DEF Wait, Goto, syncVars, fileVars, callVars
<1>1. TypeOK /\ LockInv /\ FileInv /\ CallInv /\ WakeInv  BY DEF IInv
<1>2. TypeOK'  BY <1>1 DEF TypeOK
<1>3. LockInv'  BY <1>1 DEF TypeOK, LockInv, InLock
<1>4. FileInv'  BY <1>1 DEF FileInv
<1>5. CallInv'
  <2> SUFFICES ASSUME NEW x \in Writers PROVE Call(x)'  BY DEF CallInv
  <2>1. Call(x)  BY <1>1 DEF CallInv
  <2>2. CASE x = w  BY <1>1, <2>1, <2>2 DEF TypeOK, Call, Flushing
  <2>3. CASE x # w  BY <1>1, <2>1, <2>3 DEF TypeOK, Call, Flushing
  <2> QED  BY <2>2, <2>3
<1>6. WakeInv'  BY <1>1 DEF TypeOK, WakeInv, NoLostWakeup, Flushing
<1> QED  BY <1>2, <1>3, <1>4, <1>5, <1>6 DEF IInv

\* A condvar may wake a sleeper for no reason: it goes round the loop.
LEMMA SpuriousWakeupStep == ASSUME NEW w \in Writers, IInv, SpuriousWakeup(w) PROVE IInv'
<1> USE WritersAssumption DEF SpuriousWakeup, Goto, syncVars, fileVars, callVars
<1>1. TypeOK /\ LockInv /\ FileInv /\ CallInv /\ WakeInv  BY DEF IInv
<1>2. TypeOK'  BY <1>1 DEF TypeOK
<1>3. LockInv'  BY <1>1 DEF TypeOK, LockInv, InLock
<1>4. FileInv'  BY <1>1 DEF FileInv
<1>5. CallInv'
  <2> SUFFICES ASSUME NEW x \in Writers PROVE Call(x)'  BY DEF CallInv
  <2>1. Call(x)  BY <1>1 DEF CallInv
  <2>2. CASE x = w  BY <1>1, <2>1, <2>2 DEF TypeOK, Call, Flushing
  <2>3. CASE x # w  BY <1>1, <2>1, <2>3 DEF TypeOK, Call, Flushing
  <2> QED  BY <2>2, <2>3
<1>6. WakeInv'  BY <1>1 DEF TypeOK, WakeInv, NoLostWakeup, Flushing
<1> QED  BY <1>2, <1>3, <1>4, <1>5, <1>6 DEF IInv

\* Nobody syncs: the thread sets the flag and covers what is appended.
LEMMA BecomeSyncerStep == ASSUME NEW w \in Writers, IInv, BecomeSyncer(w) PROVE IInv'
<1> USE WritersAssumption DEF BecomeSyncer, Goto, syncVars, fileVars, callVars
<1>1. TypeOK /\ LockInv /\ FileInv /\ CallInv /\ WakeInv  BY DEF IInv
<1>2. TypeOK'  BY <1>1 DEF TypeOK
<1>3. LockInv'  BY <1>1 DEF TypeOK, LockInv, InLock
<1>4. FileInv'  BY <1>1 DEF FileInv
<1>5. CallInv'
  <2> SUFFICES ASSUME NEW x \in Writers PROVE Call(x)'  BY DEF CallInv
  <2>1. Call(x)  BY <1>1 DEF CallInv
  <2>2. CASE x = w  BY <1>1, <2>1, <2>2 DEF TypeOK, Call, Flushing
  <2>3. CASE x # w  BY <1>1, <2>1, <2>3 DEF TypeOK, Call, Flushing
  <2> QED  BY <2>2, <2>3
<1>6. WakeInv'  BY <1>1 DEF TypeOK, WakeInv, NoLostWakeup, Flushing
<1> QED  BY <1>2, <1>3, <1>4, <1>5, <1>6 DEF IInv

\* The syncer clones the handle after it took its coverage.
LEMMA FetchHandleStep == ASSUME NEW w \in Writers, IInv, FetchHandle(w) PROVE IInv'
<1> USE WritersAssumption DEF FetchHandle, Goto, syncVars, fileVars, callVars
<1>1. TypeOK /\ LockInv /\ FileInv /\ CallInv /\ WakeInv  BY DEF IInv
<1>2. TypeOK'  BY <1>1 DEF TypeOK
<1>3. LockInv'  BY <1>1 DEF TypeOK, LockInv, InLock
<1>4. FileInv'  BY <1>1 DEF TypeOK, FileInv
<1>5. CallInv'
  <2> SUFFICES ASSUME NEW x \in Writers PROVE Call(x)'  BY DEF CallInv
  <2>1. Call(x)  BY <1>1 DEF CallInv
  <2>2. CASE x = w
    <3>1. /\ covered[w] <= appended /\ appended <= content[handle]
          /\ covered[w] \in Nat /\ appended \in Nat
          /\ handle \in Files /\ content[handle] \in Nat /\ handle \in Nat
      BY <1>1, <2>1, <2>2 DEF Call, FileInv, TypeOK, Files
    <3>2. covered[w] <= content[handle]  BY <3>1
    <3>3. pc'[w] = "flush" /\ file'[w] = handle  BY <1>1 DEF TypeOK
    <3> QED  BY <2>1, <2>2, <3>1, <3>2, <3>3 DEF Call, Flushing
  <2>3. CASE x # w  BY <1>1, <2>1, <2>3 DEF TypeOK, Call
  <2> QED  BY <2>2, <2>3
<1>6. WakeInv'  BY <1>1 DEF TypeOK, WakeInv, NoLostWakeup, Flushing
<1> QED  BY <1>2, <1>3, <1>4, <1>5, <1>6 DEF IInv

\* The fsync outside the lock, on a file that may be superseded meanwhile.
LEMMA sync_dataStep == ASSUME NEW w \in Writers, IInv, sync_data(w) PROVE IInv'
<1> USE WritersAssumption DEF sync_data, Goto, syncVars, fileVars, callVars
<1>1. TypeOK /\ LockInv /\ FileInv /\ CallInv /\ WakeInv  BY DEF IInv
<1>a. file[w] \in Files /\ content \in [Files -> Nat] /\ stable \in [Files -> Nat]
  BY <1>1 DEF TypeOK
<1>b. stable' \in [Files -> Nat]  BY <1>a
<1>c. \A f \in Files : stable[f] <= stable'[f] /\ stable'[f] <= content[f]
  BY <1>1, <1>a DEF FileInv
<1>d. handle \in Files  BY <1>1 DEF TypeOK
<1>2. TypeOK'  BY <1>1, <1>b DEF TypeOK
<1>3. LockInv'  BY <1>1 DEF TypeOK, LockInv, InLock
<1>4. FileInv'
  <2>1. ASSUME NEW f \in Files, NEW g \in Files, f < g, g <= named
        PROVE  content[f] <= stable'[g]
    <3>1. content[f] <= stable[g] /\ stable[g] <= stable'[g]  BY <1>1, <1>c, <2>1 DEF FileInv
    <3>2. content[f] \in Nat /\ stable[g] \in Nat /\ stable'[g] \in Nat  BY <1>a, <1>b
    <3> QED  BY <3>1, <3>2
  <2>2. durable <= stable'[handle]
    <3>1. durable <= stable[handle] /\ stable[handle] <= stable'[handle]
      BY <1>1, <1>c, <1>d DEF FileInv
    <3>2. durable \in Nat /\ stable[handle] \in Nat /\ stable'[handle] \in Nat
      BY <1>1, <1>a, <1>b, <1>d DEF TypeOK
    <3> QED  BY <3>1, <3>2
  <2> QED  BY <1>1, <1>c, <2>1, <2>2 DEF FileInv
<1>5. CallInv'
  <2> SUFFICES ASSUME NEW x \in Writers PROVE Call(x)'  BY DEF CallInv
  <2>1. Call(x)  BY <1>1 DEF CallInv
  <2>2. /\ mine[x] \in Nat /\ covered[x] \in Nat /\ file[x] \in Files
        /\ stable[handle] \in Nat /\ stable'[handle] \in Nat
        /\ stable[file[x]] \in Nat /\ stable'[file[x]] \in Nat
    BY <1>1, <1>a, <1>b, <1>d DEF TypeOK
  <2>3. stable[handle] <= stable'[handle] /\ stable[file[x]] <= stable'[file[x]]
    BY <1>c, <1>d, <2>2
  <2>4. CASE x = w
    <3>1. pc'[w] \in {"flushed", "failed"}  BY <1>1 DEF TypeOK
    <3>2. pc'[w] = "flushed" => stable'[file[w]] = content[file[w]]  BY <1>1, <1>a DEF TypeOK
    <3> QED  BY <2>1, <2>4, <3>1, <3>2 DEF Call, Flushing
  <2>5. CASE x # w
    <3>1. pc'[x] = pc[x]  BY <1>1, <2>5 DEF TypeOK
    <3> QED  BY <2>1, <2>2, <2>3, <3>1 DEF Call
  <2> QED  BY <2>4, <2>5
<1>6. WakeInv'  BY <1>1 DEF TypeOK, WakeInv, NoLostWakeup, Flushing
<1> QED  BY <1>2, <1>3, <1>4, <1>5, <1>6 DEF IInv

\* The syncer raises durable to its coverage, clears the flag and wakes everyone.
LEMMA PublishStep == ASSUME NEW w \in Writers, IInv, Publish(w) PROVE IInv'
<1> USE WritersAssumption DEF Publish, Larger, syncVars, fileVars, callVars
<1>1. TypeOK /\ LockInv /\ FileInv /\ CallInv /\ WakeInv  BY DEF IInv
<1>p. \A x \in Writers : pc'[x] = IF x = w THEN "idle"
                                ELSE IF pc[x] = "asleep" THEN "loop" ELSE pc[x]
  BY DEF notify_all, Only
<1>a. /\ durable \in Nat /\ covered[w] \in Nat /\ target[w] \in Nat /\ mine[w] \in Nat
      /\ handle \in Files /\ stable[handle] \in Nat
      /\ file[w] \in Files /\ stable[file[w]] \in Nat
  BY <1>1 DEF TypeOK
<1>b. durable' \in Nat /\ durable <= durable' /\ (durable' = durable \/ durable' = covered[w])
  BY <1>a
<1>c. flushedRecords' \in Nat  BY <1>1, <1>b DEF TypeOK
<1>d. Call(w)  BY <1>1 DEF CallInv
<1>e. covered[w] <= stable[handle]
  <2>1. covered[w] <= stable[file[w]] /\ file[w] <= handle  BY <1>d DEF Call
  <2>2. stable[file[w]] <= stable[handle]  BY <1>1, <1>a, <2>1, OlderIsStable
  <2> QED  BY <1>a, <2>1, <2>2
<1>2. TypeOK'  BY <1>1, <1>b, <1>c, Zenon DEF TypeOK, notify_all, Only
<1>3. LockInv'  BY <1>1, <1>p DEF TypeOK, LockInv, InLock
<1>4. FileInv'  BY <1>1, <1>b, <1>e DEF FileInv
<1>5. CallInv'
  <2> SUFFICES ASSUME NEW x \in Writers PROVE Call(x)'  BY DEF CallInv
  <2>1. Call(x)  BY <1>1 DEF CallInv
  <2>2. CASE x = w
    <3>1. mine[w] <= target[w] /\ target[w] <= covered[w]  BY <1>d DEF Call, Flushing
    <3>2. mine[w] <= stable[handle]  BY <1>a, <1>e, <3>1
    <3> QED  BY <1>p, <2>1, <2>2, <3>2 DEF Call, Flushing
  <2>3. CASE x # w
    <3>1. result'[x] = result[x]  BY <1>1, <2>3 DEF TypeOK
    <3> QED  BY <1>p, <2>1, <2>3, <3>1 DEF Call, Flushing
  <2> QED  BY <2>2, <2>3
<1>6. WakeInv'  BY <1>1, <1>p DEF TypeOK, WakeInv, NoLostWakeup, Flushing
<1> QED  BY <1>2, <1>3, <1>4, <1>5, <1>6 DEF IInv

\* A failed fsync clears the flag and wakes everyone, and durable stays.
LEMMA FlushErrorStep == ASSUME NEW w \in Writers, IInv, FlushError(w) PROVE IInv'
<1> USE WritersAssumption DEF FlushError, notify_all, Only, syncVars, fileVars, callVars
<1>1. TypeOK /\ LockInv /\ FileInv /\ CallInv /\ WakeInv  BY DEF IInv
<1>2. TypeOK'  BY <1>1, Zenon DEF TypeOK
<1>3. LockInv'  BY <1>1 DEF TypeOK, LockInv, InLock
<1>4. FileInv'  BY <1>1 DEF FileInv
<1>5. CallInv'
  <2> SUFFICES ASSUME NEW x \in Writers PROVE Call(x)'  BY DEF CallInv
  <2>1. Call(x)  BY <1>1 DEF CallInv
  <2>2. CASE x = w  BY <1>1, <2>1, <2>2 DEF TypeOK, Call, Flushing
  <2>3. CASE x # w  BY <1>1, <2>1, <2>3 DEF TypeOK, Call, Flushing
  <2> QED  BY <2>2, <2>3
<1>6. WakeInv'  BY <1>1 DEF TypeOK, WakeInv, NoLostWakeup, Flushing
<1> QED  BY <1>2, <1>3, <1>4, <1>5, <1>6 DEF IInv

\* A stuttering step changes nothing.
LEMMA StutterStep == ASSUME IInv, UNCHANGED vars PROVE IInv'
<1> USE DEF vars, syncVars, fileVars, callVars
<1>1. TypeOK' /\ LockInv'  BY DEF IInv, TypeOK, LockInv
<1>2. FileInv' /\ WakeInv'  BY DEF IInv, FileInv, WakeInv, NoLostWakeup
<1>3. CallInv'  BY DEF IInv, CallInv, Call
<1> QED  BY <1>1, <1>2, <1>3 DEF IInv

\* Every step keeps the invariant.
LEMMA NextIInv == IInv /\ [Next]_vars => IInv'
<1> SUFFICES ASSUME IInv, [Next]_vars PROVE IInv'  OBVIOUS
<1>1. CASE UNCHANGED vars  BY <1>1, StutterStep
<1>2. ASSUME NEW w \in Writers, WriteLine(w) \/ Locked(w)  PROVE IInv'
  BY <1>2, WriteLineStep, appendStep, rotateStep, reset_handleStep, sync_pendingStep
  DEF Locked
<1>3. ASSUME NEW w \in Writers, Syncing(w) \/ SpuriousWakeup(w)  PROVE IInv'
  BY <1>3, AlreadyDurableStep, WaitStep, SpuriousWakeupStep, BecomeSyncerStep,
     FetchHandleStep, sync_dataStep, PublishStep, FlushErrorStep
  DEF Syncing
<1> QED  BY <1>1, <1>2, <1>3 DEF Next

\* The invariant holds throughout: of Init, the steps and nothing of fairness.
THEOREM Invariance == Spec => []IInv
<1>1. Init => IInv  BY InitIInv
<1>2. IInv /\ [Next]_vars => IInv'  BY NextIInv
<1> QED  BY <1>1, <1>2, PTL DEF Spec

-----------------------------------------------------------------------------
(* What follows from it.                                                   *)

\* The counters, files and threads of wal.rs keep values of their kind: durable
\* never exceeds what it is subtracted from, and no file is used before its rename.
THEOREM TypeCorrect == Spec => []TypeOK
<1>1. IInv => TypeOK  BY DEF IInv
<1> QED  BY <1>1, Invariance, PTL

\* The invariant gives the promise of an Ok: mine[w] is below what is stable.
LEMMA IInvOkIsDurable == IInv => OkIsDurable
<1> SUFFICES ASSUME IInv, NEW w \in Writers, pc[w] = "idle", result[w] = "ok",
                    NEW f \in Survivors
             PROVE  stable[f] >= mine[w]
  BY DEF OkIsDurable
<1> USE WritersAssumption
<1>1. TypeOK /\ LockInv /\ FileInv /\ Call(w)  BY DEF IInv, CallInv
<1>2. mine[w] <= stable[handle]  BY <1>1 DEF Call
<1>3. stable[handle] <= stable[named] /\ handle \in Files  BY <1>1, OlderIsStable
<1>4. f = named \/ f = handle  BY <1>1 DEF Survivors, LockInv
<1>5. /\ mine[w] \in Nat /\ named \in Files
      /\ stable[handle] \in Nat /\ stable[named] \in Nat
  BY <1>1, <1>3 DEF TypeOK
<1> QED  BY <1>2, <1>3, <1>4, <1>5

\* wal.rs, sync_pending: whichever thread's fsync covered it and whatever rotated
\* meanwhile, a write that was answered Ok is on stable storage in every file that
\* a power loss may leave under the log's name.
THEOREM OkMeansDurable == Spec => []OkIsDurable
<1> QED  BY IInvOkIsDurable, Invariance, PTL

\* wal.rs, the condvar of sync_pending and reset_sync_state: no thread is asleep
\* without another at work that will wake it.
THEOREM NoneSleepsAlone == Spec => []NoLostWakeup
<1>1. IInv => NoLostWakeup  BY DEF IInv, WakeInv
<1> QED  BY <1>1, Invariance, PTL

-----------------------------------------------------------------------------
(* Serving: permits and the drain.                                         *)

CONSTANTS Conns, Tls, MaxConnections, MaxConcurrent, MaxSubscribers, PoolSize, Kinds,
          MaxRequests
VARIABLES phase, conn, held, awaits, jobs, sent, tail, settled, expired, cut, starved

Serve == INSTANCE Serving

\* The connections that own a permit of a pool.
PermitOwners(pool) == {c \in Conns : pool \in held[c]}

\* Who lives long owns the permit for it, and no pool gave out more than it has.
\* Only a handler that is still there is answered when its job ends.
PermitInv ==
  /\ conn \in [Conns -> {"none", "handshake", "open", "waiting", "stream"}]
  /\ held \in [Conns -> SUBSET {"connection", "request", "subscriber"}]
  /\ awaits \in [Conns -> Int]
  /\ sent \in Nat
  /\ \A c \in Conns : awaits[c] # 0 => conn[c] = "waiting"
  /\ \A c \in Conns : conn[c] = "stream" => "subscriber" \in held[c]
  /\ Tls => \A c \in Conns : conn[c] # "none" => "connection" \in held[c]
  /\ Cardinality(PermitOwners("subscriber")) <= MaxSubscribers
  /\ Cardinality(PermitOwners("connection")) <= MaxConnections

\* Past a drain that met its deadline there is no connection left.
DrainInv ==
  /\ phase \in {"settling", "exiting"} /\ ~expired => \A c \in Conns : conn[c] = "none"
  /\ Serve!Running => ~cut
  /\ cut => expired

\* A permit given to one more connection, when some are left.
LEMMA OneMore ==
  ASSUME IsFiniteSet(Conns), NEW S \in SUBSET Conns, NEW T \in SUBSET Conns, NEW d \in Conns,
         NEW m \in Nat, T \subseteq S \cup {d}, Cardinality(S) < m
  PROVE  Cardinality(T) <= m
<1>1. IsFiniteSet(S) /\ IsFiniteSet(S \cup {d})
  BY FS_Subset
<1>2. Cardinality(S \cup {d}) <= Cardinality(S) + 1 /\ Cardinality(S) \in Nat
  <2>1. CASE d \in S
    <3>1. S \cup {d} = S
      BY <2>1
    <3>2. Cardinality(S) \in Nat
      BY <1>1, FS_CardinalityType, Zenon
    <3> QED  BY <3>1, <3>2
  <2>2. CASE d \notin S
    BY <1>1, <2>2, FS_AddElement, FS_CardinalityType
  <2> QED  BY <2>1, <2>2
<1>3. Cardinality(T) <= Cardinality(S \cup {d}) /\ Cardinality(T) \in Nat
      /\ Cardinality(S \cup {d}) \in Nat
  BY <1>1, FS_Subset, FS_CardinalityType
<1> QED  BY <1>2, <1>3

\* No permit given.
LEMMA NoMore ==
  ASSUME IsFiniteSet(Conns), NEW S \in SUBSET Conns, NEW T \in SUBSET Conns,
         NEW m \in Nat, T \subseteq S, Cardinality(S) <= m
  PROVE  Cardinality(T) <= m
<1>1. IsFiniteSet(S) /\ IsFiniteSet(T) /\ Cardinality(T) <= Cardinality(S)
  BY FS_Subset
<1>2. Cardinality(S) \in Nat /\ Cardinality(T) \in Nat
  BY <1>1, FS_CardinalityType
<1> QED  BY <1>1, <1>2

\* What Serving counts as given out is the number of owners.
LEMMA PermitsOut == \A pool : Serve!Out(pool) = Cardinality(PermitOwners(pool))
BY Zenon DEF Serve!Out, PermitOwners, Cardinality, Serve!Cardinality

\* No permit is out when the server starts.
LEMMA PermitInit ==
  ASSUME IsFiniteSet(Conns), Serve!ServingBounds, Serve!Init
  PROVE  PermitInv
<1>1. PermitOwners("subscriber") = {} /\ PermitOwners("connection") = {}
  BY DEF PermitOwners, Serve!Init
<1> QED  BY <1>1, FS_EmptySet DEF PermitInv, Serve!Init, Serve!ServingBounds

\* A step that answers or drops connections and hands out no permit.
LEMMA PermitReleased ==
  ASSUME IsFiniteSet(Conns), Serve!ServingBounds, PermitInv, sent' \in Nat,
         conn' \in [Conns -> {"none", "handshake", "open", "waiting", "stream"}],
         held' \in [Conns -> SUBSET {"connection", "request", "subscriber"}],
         awaits' \in [Conns -> Int],
         \A c \in Conns :
           \/ conn'[c] = conn[c] /\ awaits'[c] = awaits[c] /\ held'[c] \subseteq held[c]
                /\ held[c] \ {"request"} \subseteq held'[c]
           \/ conn'[c] = "none" /\ awaits'[c] = 0 /\ held'[c] \subseteq held[c]
           \/ /\ conn[c] # "none" /\ conn'[c] \in {"open"} /\ awaits'[c] = 0 
              /\ held'[c] \subseteq held[c]
              /\ held[c] \ {"request"} \subseteq held'[c]
           \/ /\ conn[c] # "none" /\ conn'[c] \in {"waiting"} 
              /\ held'[c] \subseteq held[c] \cup {"request"}
              /\ held[c] \ {"request"} \subseteq held'[c]
  PROVE  PermitInv'
<1>1. PermitOwners("subscriber")' \subseteq PermitOwners("subscriber")
  BY DEF PermitOwners
<1>2. PermitOwners("connection")' \subseteq PermitOwners("connection")
  BY DEF PermitOwners
<1>3. MaxSubscribers \in Nat /\ MaxConnections \in Nat
  BY DEF Serve!ServingBounds
<1>4. /\ Cardinality(PermitOwners("subscriber"))' <= MaxSubscribers
      /\ Cardinality(PermitOwners("connection"))' <= MaxConnections
  BY <1>1, <1>2, <1>3, NoMore DEF PermitInv, PermitOwners
<1>5. \A c \in Conns : awaits'[c] # 0 => conn'[c] = "waiting"
  BY DEF PermitInv
<1>6. \A c \in Conns : conn'[c] = "stream" => "subscriber" \in held'[c]
  BY DEF PermitInv
<1>7. Tls => \A c \in Conns : conn'[c] # "none" => "connection" \in held'[c]
  BY DEF PermitInv
<1> QED  BY <1>4, <1>5, <1>6, <1>7 DEF PermitInv

\* Every step keeps the permits: one is given only while some are left, and a
\* connection that ends hands back all it has.
LEMMA PermitStep ==
  ASSUME IsFiniteSet(Conns), Serve!ServingBounds, PermitInv, [Serve!Next]_(Serve!vars)
  PROVE  PermitInv'
<1>0. /\ conn \in [Conns -> {"none", "handshake", "open", "waiting", "stream"}]
      /\ held \in [Conns -> SUBSET {"connection", "request", "subscriber"}]
      /\ awaits \in [Conns -> Int] /\ sent \in Nat
      /\ \A c \in Conns : awaits[c] # 0 => conn[c] = "waiting"
  BY DEF PermitInv
<1>1. ASSUME NEW c \in Conns, Serve!Accept(c) PROVE PermitInv'
  <2>1. /\ conn[c] = "none" /\ awaits' = awaits /\ sent' = sent
    BY <1>1 DEF Serve!Accept
  <2>2. CASE Tls
    <3>1. /\ conn' = [conn EXCEPT ![c] = "handshake"]
          /\ held' = [held EXCEPT ![c] = {"connection"}]
          /\ Cardinality(PermitOwners("connection")) < MaxConnections
      BY <1>1, <2>2, PermitsOut, Zenon DEF Serve!Accept
    <3>2. /\ PermitOwners("connection")' \subseteq PermitOwners("connection") \cup {c}
          /\ PermitOwners("subscriber")' \subseteq PermitOwners("subscriber")
      BY <1>0, <3>1 DEF PermitOwners
    <3>3. MaxSubscribers \in Nat /\ MaxConnections \in Nat
      BY DEF Serve!ServingBounds
    <3>4. /\ Cardinality(PermitOwners("subscriber"))' <= MaxSubscribers
          /\ Cardinality(PermitOwners("connection"))' <= MaxConnections
      BY <3>1, <3>2, <3>3, OneMore, NoMore DEF PermitInv, PermitOwners
    <3> QED  BY <1>0, <2>1, <3>1, <3>4 DEF PermitInv
  <2>3. CASE ~Tls
    <3>1. conn' = [conn EXCEPT ![c] = "open"] /\ held' = held
      BY <1>1, <2>3 DEF Serve!Accept
    <3>2. /\ PermitOwners("subscriber")' = PermitOwners("subscriber")
          /\ PermitOwners("connection")' = PermitOwners("connection")
      BY <3>1 DEF PermitOwners
    <3> QED  BY <1>0, <2>1, <2>3, <3>1, <3>2 DEF PermitInv
  <2> QED  BY <2>2, <2>3
<1>2. ASSUME NEW c \in Conns, Serve!Handshake(c) PROVE PermitInv'
  BY <1>0, <1>2, PermitReleased DEF Serve!Handshake
<1>3. ASSUME NEW c \in Conns, Serve!Disconnect(c) PROVE PermitInv'
  BY <1>0, <1>3, PermitReleased DEF Serve!Disconnect
<1>4. ASSUME NEW c \in Conns, Serve!CloseIdle(c) PROVE PermitInv'
  BY <1>0, <1>4, PermitReleased DEF Serve!CloseIdle
<1>5. ASSUME NEW c \in Conns, NEW kind, Serve!Answered(c, kind) PROVE PermitInv'
  BY <1>0, <1>5, PermitReleased DEF Serve!Answered, Serve!Arrives
<1>6. ASSUME NEW c \in Conns, NEW kind, Serve!Spawn(c, kind) PROVE PermitInv'
  BY <1>0, <1>6, PermitReleased DEF Serve!Spawn, Serve!Arrives
<1>7. ASSUME NEW c \in Conns, Serve!Subscribe(c) PROVE PermitInv'
  <2>1. /\ conn[c] = "open" /\ conn' = [conn EXCEPT ![c] = "stream"]
        /\ held' = [held EXCEPT ![c] = held[c] \cup {"subscriber"}]
        /\ awaits' = awaits /\ sent' = sent + 1
        /\ Cardinality(PermitOwners("subscriber")) < MaxSubscribers
    BY <1>7, PermitsOut, Zenon DEF Serve!Subscribe, Serve!Arrives
  <2>2. /\ PermitOwners("subscriber")' \subseteq PermitOwners("subscriber") \cup {c}
        /\ PermitOwners("connection")' \subseteq PermitOwners("connection")
    BY <1>0, <2>1 DEF PermitOwners
  <2>3. MaxSubscribers \in Nat /\ MaxConnections \in Nat
    BY DEF Serve!ServingBounds
  <2>4. /\ Cardinality(PermitOwners("subscriber"))' <= MaxSubscribers
        /\ Cardinality(PermitOwners("connection"))' <= MaxConnections
    BY <2>1, <2>2, <2>3, OneMore, NoMore DEF PermitInv, PermitOwners
  <2> QED  BY <1>0, <2>1, <2>4 DEF PermitInv
<1>8. ASSUME NEW c \in Conns, Serve!Timeout(c) PROVE PermitInv'
  BY <1>0, <1>8, PermitReleased DEF Serve!Timeout, Serve!Respond
<1>9. ASSUME NEW n \in Serve!Numbers, Serve!Finish(n) PROVE PermitInv'
  <2>1. CASE \E c \in Conns : awaits[c] = n
    <3>1. PICK c \in Conns : awaits[c] = n /\ Serve!Respond(c)
      BY <1>9, <2>1 DEF Serve!Finish
    <3>2. n # 0
      BY DEF Serve!Numbers
    <3>3. conn[c] = "waiting" /\ sent' = sent
      BY <1>0, <1>9, <3>1, <3>2 DEF Serve!Finish
    <3> QED  BY <1>0, <3>1, <3>3, PermitReleased DEF Serve!Respond
  <2>2. CASE ~\E c \in Conns : awaits[c] = n
    BY <1>0, <1>9, <2>2, PermitReleased DEF Serve!Finish
  <2> QED  BY <2>1, <2>2
<1>10. CASE Serve!DropTasks
  BY <1>0, <1>10, PermitReleased DEF Serve!DropTasks
<1>11. CASE UNCHANGED <<conn, held, awaits, sent>>
  BY <1>0, <1>11, PermitReleased
<1>12. ASSUME NEW n, Serve!Start(n) PROVE PermitInv'
  BY <1>11, <1>12 DEF Serve!Start
<1>13. CASE Serve!Stopping
  BY <1>10, <1>11, <1>13 DEF Serve!Stopping, Serve!shutdown_signal, Serve!Drained,
     Serve!drain_deadline, Serve!StopAccepting, Serve!GoOn, Serve!settle, Serve!Exit
<1>14. CASE UNCHANGED Serve!vars
  BY <1>11, <1>14 DEF Serve!vars
<1> QED
  BY <1>1, <1>2, <1>3, <1>4, <1>5, <1>6, <1>7, <1>8, <1>9, <1>12, <1>13, <1>14
     DEF Serve!Next, Serve!Connection, Serve!Request

\* For any number of connections and any number of permits: no more event streams
\* live than subscriber permits, and on the TLS path no more connections than
\* connection permits, however handlers time out, clients go or jobs are left behind
\* (LongLivesAreBounded; routes.rs and tls_server.rs move the permit into the task).
THEOREM PermitsBoundConnections ==
  ASSUME IsFiniteSet(Conns), Serve!ServingBounds
  PROVE  Serve!Spec => []Serve!LongLivesAreBounded
<1>1. Serve!Init => PermitInv
  BY PermitInit
<1>2. PermitInv /\ [Serve!Next]_(Serve!vars) => PermitInv'
  BY PermitStep
<1>3. PermitInv => Serve!LongLivesAreBounded
  <2> SUFFICES ASSUME PermitInv PROVE Serve!LongLivesAreBounded
    OBVIOUS
  <2>1. MaxSubscribers \in Nat /\ MaxConnections \in Nat
    BY DEF Serve!ServingBounds
  <2>2. {c \in Conns : conn[c] = "stream"} \subseteq PermitOwners("subscriber")
    BY DEF PermitInv, PermitOwners
  <2>3. Tls => {c \in Conns : conn[c] # "none"} \subseteq PermitOwners("connection")
    BY DEF PermitInv, PermitOwners
  <2>4. Cardinality({c \in Conns : conn[c] = "stream"}) <= MaxSubscribers
    BY <2>1, <2>2, NoMore DEF PermitInv, PermitOwners
  <2>5. Tls => Cardinality({c \in Conns : conn[c] # "none"}) <= MaxConnections
    BY <2>1, <2>3, NoMore DEF PermitInv, PermitOwners
  <2> QED  BY <2>4, <2>5, Zenon DEF Serve!LongLivesAreBounded, Cardinality, Serve!Cardinality
<1> QED  BY <1>1, <1>2, <1>3, PTL DEF Serve!Spec

\* A drained server cuts no request.
LEMMA DrainStep ==
  ASSUME Tls = FALSE, PermitInv, DrainInv, [Serve!Next]_(Serve!vars)
  PROVE  DrainInv'
<1>0. /\ conn \in [Conns -> {"none", "handshake", "open", "waiting", "stream"}]
      /\ \A c \in Conns : awaits[c] # 0 => conn[c] = "waiting"
  BY DEF PermitInv
<1>1. ASSUME phase' = phase, expired' = expired, cut' = cut,
             phase \in {"settling", "exiting"} /\ (\A c \in Conns : conn[c] = "none")
               => \A c \in Conns : conn'[c] = "none"
      PROVE  DrainInv'
  BY <1>1 DEF DrainInv, Serve!Running
<1>2. ASSUME NEW c \in Conns, Serve!Connection(c) PROVE DrainInv'
  BY <1>0, <1>1, <1>2 DEF Serve!Connection, Serve!Accept, Serve!Handshake, Serve!Disconnect,
     Serve!CloseIdle
<1>3. ASSUME NEW c \in Conns, Serve!Request(c) PROVE DrainInv'
  BY <1>0, <1>1, <1>3 DEF Serve!Request, Serve!Answered, Serve!Spawn, Serve!Subscribe,
     Serve!Timeout, Serve!Arrives, Serve!TakesRequests
<1>4. ASSUME NEW n \in Serve!Numbers, Serve!Finish(n) PROVE DrainInv'
  <2>1. n # 0
    BY DEF Serve!Numbers
  <2>2. phase' = phase /\ expired' = expired /\ cut' = cut
    BY <1>4 DEF Serve!Finish
  <2>3. (\A c \in Conns : conn[c] = "none") => conn' = conn
    BY <1>0, <1>4, <2>1 DEF Serve!Finish
  <2> QED  BY <1>1, <2>2, <2>3
<1>5. ASSUME NEW n, Serve!Start(n) PROVE DrainInv'
  BY <1>1, <1>5 DEF Serve!Start
<1>6. CASE Serve!shutdown_signal
  BY <1>6 DEF Serve!shutdown_signal, DrainInv, Serve!Running
<1>7. CASE Serve!Drained \/ Serve!drain_deadline \/ Serve!StopAccepting
  BY <1>7 DEF Serve!Drained, Serve!drain_deadline, Serve!StopAccepting, Serve!GoOn, DrainInv,
     Serve!Running
<1>8. CASE Serve!settle
  BY <1>8 DEF Serve!settle, DrainInv, Serve!Running
<1>9. CASE Serve!DropTasks
  BY <1>9 DEF Serve!DropTasks, DrainInv, Serve!Running
<1>10. CASE Serve!Exit
  BY <1>10 DEF Serve!Exit, DrainInv, Serve!Running
<1>11. CASE UNCHANGED Serve!vars
  BY <1>1, <1>11 DEF Serve!vars
<1> QED
  BY <1>2, <1>3, <1>4, <1>5, <1>6, <1>7, <1>8, <1>9, <1>10, <1>11 DEF Serve!Next, Serve!Stopping

\* For any number of connections, on the accept loop without TLS: a request in flight
\* is cut off by the end of the process only if the drain ran into its deadline
\* (InFlightFinish; main.rs, with_graceful_shutdown).
THEOREM DrainCutsNothing ==
  ASSUME IsFiniteSet(Conns), Serve!ServingBounds, Tls = FALSE
  PROVE  Serve!Spec => []Serve!InFlightFinish
<1>1. Serve!Init => PermitInv /\ DrainInv
  BY PermitInit, Zenon DEF Serve!Init, DrainInv
<1>2. PermitInv /\ DrainInv /\ [Serve!Next]_(Serve!vars) => PermitInv' /\ DrainInv'
  BY PermitStep, DrainStep, Zenon
<1>3. PermitInv /\ DrainInv => Serve!InFlightFinish
  BY DEF DrainInv, Serve!InFlightFinish
<1> QED  BY <1>1, <1>2, <1>3, PTL DEF Serve!Spec

-----------------------------------------------------------------------------
(* EventFeed: the ring of retained events and a subscriber.                *)

CONSTANTS Capacity, MaxOp
VARIABLES nextOp, retained, earliest, stream, issued

Ring == INSTANCE EventFeed

\* An event, with its position in the feed.
Event == [seq : Nat, what : {"change", "notice"}]

\* The ring is the end of what was issued, and a position at or past earliest is no
\* older than what has left it.
RingInv ==
  /\ nextOp \in Nat \ {0} /\ earliest \in Nat
  /\ issued \in Seq(Event) /\ retained \in Seq(Event)
  /\ \A i \in 1 .. Len(issued) : issued[i].seq \in Nat \ {0} /\ issued[i].seq < nextOp
  /\ \A i, j \in 1 .. Len(issued) : i < j => issued[i].seq < issued[j].seq
  /\ Len(retained) <= Len(issued)
  /\ \A i \in 1 .. Len(retained) : retained[i] = issued[Len(issued) - Len(retained) + i]
  /\ \A i \in 1 .. Len(issued) - Len(retained) : issued[i].seq <= earliest

\* A subscriber of GET /events.
Stream == [open : BOOLEAN, queue : Seq(Event), backlog : Nat, from : Nat,
           got : Seq(Event), lagged : BOOLEAN, token : Nat]

\* got is the run of all after the first from, and token is its last position.
Held(all, from, got, token) ==
  /\ from + Len(got) <= Len(all)
  /\ \A i \in 1 .. Len(got) : got[i] = all[from + i]
  /\ token = IF Len(got) = 0 THEN 0 ELSE got[Len(got)].seq

\* queue is the rest of all after got.
Awaited(all, from, got, queue) ==
  /\ from + Len(got) + Len(queue) = Len(all)
  /\ \A i \in 1 .. Len(queue) : queue[i] = all[from + Len(got) + i]

\* What the subscriber has is a run of what was issued, up to its token; what it has
\* queued is the rest.
StreamInv ==
  /\ stream \in Stream
  /\ stream.lagged => stream.open
  /\ ~stream.lagged => Held(issued, stream.from, stream.got, stream.token)
  /\ stream.open /\ ~stream.lagged => Awaited(issued, stream.from, stream.got, stream.queue)

\* The inductive invariant.
FeedInv == RingInv /\ StreamInv

\* Of events in position order those past a position are the last ones.
LEMMA NewerIsTheEnd ==
  ASSUME NEW s \in Seq(Event), NEW after \in Nat, NEW m \in 0 .. Len(s),
         \A i \in 1 .. Len(s) : s[i].seq > after <=> i > m
  PROVE  /\ Ring!Newer(s, after) \in Seq(Event)
         /\ Len(Ring!Newer(s, after)) = Len(s) - m
         /\ \A n \in 1 .. Len(s) - m : Ring!Newer(s, after)[n] = s[m + n]
<1> DEFINE past == {i \in DOMAIN s : s[i].seq > after}
<1>1. past = m + 1 .. Len(s)
  OBVIOUS
<1>f. \A a, b \in Int : a <= b + 1 => Cardinality(a .. b) = b - a + 1
  BY FS_Interval
<1> HIDE DEF past
<1>2. Cardinality(past) = Len(s) - m
  <2>1. Cardinality(m + 1 .. Len(s)) = Len(s) - (m + 1) + 1
    BY <1>f
  <2> QED  BY <1>1, <2>1
<1>3. ASSUME NEW i \in past PROVE Cardinality({k \in past : k <= i}) = i - m
  <2>1. {k \in past : k <= i} = m + 1 .. i
    BY <1>1
  <2>2. m + 1 \in Int /\ i \in Int /\ m + 1 <= i
    BY <1>1
  <2>3. Cardinality(m + 1 .. i) = i - (m + 1) + 1
    BY <2>2, <1>f
  <2>4. Cardinality({k \in past : k <= i}) = i - (m + 1) + 1
    BY <2>1, <2>3, Zenon
  <2> QED  BY <2>2, <2>4
<1>4. ASSUME NEW n \in 1 .. Len(s) - m
      PROVE  (CHOOSE i \in past : Cardinality({k \in past : k <= i}) = n) = m + n
  <2>1. m + n \in past /\ Cardinality({k \in past : k <= m + n}) = n
    BY <1>1, <1>3
  <2>2. \A i \in past : Cardinality({k \in past : k <= i}) = n => i = m + n
    BY <1>1, <1>3
  <2> QED  BY <2>1, <2>2
<1>5. Ring!Newer(s, after) = [n \in 1 .. Len(s) - m |-> s[m + n]]
  <2>1. Ring!Newer(s, after) =
          [n \in 1 .. Cardinality(past) |->
             s[CHOOSE i \in past : Cardinality({k \in past : k <= i}) = n]]
    BY Zenon DEF Ring!Newer, past, Ring!Cardinality, Cardinality
  <2> QED  BY <1>2, <1>4, <2>1, Zenon
<1>6. Len(s) - m \in Nat /\ \A n \in 1 .. Len(s) - m : s[m + n] \in Event
  <2>1. ASSUME NEW n \in 1 .. Len(s) - m PROVE s[m + n] \in Event
    <3>1. m + n \in 1 .. Len(s)
      OBVIOUS
    <3> QED  BY <3>1
  <2> QED  BY <2>1
<1> DEFINE count == Len(s) - m
           item(n) == s[m + n]
<1>7. count \in Nat /\ \A n \in 1 .. count : item(n) \in Event
  BY <1>6
<1>8. Ring!Newer(s, after) = [n \in 1 .. count |-> item(n)]
  BY <1>5, Zenon
<1> HIDE DEF count, item
<1>9. /\ Ring!Newer(s, after) \in Seq(Event) /\ Len(Ring!Newer(s, after)) = count
      /\ \A n \in 1 .. count : Ring!Newer(s, after)[n] = item(n)
  BY <1>7, <1>8
<1> QED  BY <1>9, Zenon DEF count, item

\* The feed starts empty, without a subscriber.
LEMMA FeedInit == Ring!Init => FeedInv
BY DEF Ring!Init, Ring!NoStream, FeedInv, RingInv, StreamInv, Stream, Held

\* Appending one event to a sequence of events.
LEMMA Appended ==
  ASSUME NEW S, NEW s \in Seq(S), NEW e \in S, NEW t, t = Append(s, e)
  PROVE  /\ t \in Seq(S) /\ Len(t) = Len(s) + 1
         /\ \A i \in 1 .. Len(s) : t[i] = s[i]
         /\ t[Len(s) + 1] = e
OBVIOUS

\* emit_with appends to the ring, and drops its oldest event when it is full.
LEMMA RingEmit ==
  ASSUME Capacity \in Nat \ {0}, FeedInv, NEW what \in {"change", "notice"}, Ring!emit_with(what)
  PROVE  RingInv'
<1> DEFINE e == [seq |-> nextOp, what |-> what]
           n == Len(issued)
           r == Len(retained)
<1>1. /\ nextOp \in Nat \ {0} /\ earliest \in Nat
      /\ issued \in Seq(Event) /\ retained \in Seq(Event)
  BY DEF FeedInv, RingInv
<1>2. e \in Event /\ e.seq = nextOp
  BY <1>1 DEF Event
<1>3. /\ n \in Nat /\ r \in Nat /\ r <= n
      /\ r = 0 <=> retained = <<>>
  BY <1>1 DEF FeedInv, RingInv
<1>i. /\ \A i \in 1 .. n : issued[i].seq \in Nat \ {0} /\ issued[i].seq < nextOp
      /\ \A i, j \in 1 .. n : i < j => issued[i].seq < issued[j].seq
      /\ \A i \in 1 .. r : retained[i] = issued[n - r + i]
      /\ \A i \in 1 .. n - r : issued[i].seq <= earliest
  BY Zenon DEF FeedInv, RingInv
<1> HIDE DEF e
<1>4. nextOp' = nextOp + 1 /\ issued' = issued \o <<e>>
  BY DEF Ring!emit_with, e
<1>a. Append(issued, e) = issued \o <<e>>
  BY <1>1, <1>2, AppendIsConcat, Zenon
<1>b. issued' = Append(issued, e)
  BY <1>4, <1>a, Zenon
<1>5. /\ issued' \in Seq(Event) /\ Len(issued') = n + 1
      /\ \A i \in 1 .. n : issued'[i] = issued[i]
      /\ issued'[n + 1] = e
  BY <1>1, <1>2, <1>b, Appended
<1> HIDE DEF n, r
<1>6. /\ \A i \in 1 .. n + 1 : issued'[i].seq \in Nat \ {0} /\ issued'[i].seq < nextOp'
      /\ \A i, j \in 1 .. n + 1 : i < j => issued'[i].seq < issued'[j].seq
  <2>1. \A i \in 1 .. n + 1 : i = n + 1 \/ i \in 1 .. n
    BY <1>3
  <2>2. issued'[n + 1].seq = nextOp
    BY <1>2, <1>5, Zenon
  <2>3. \A i \in 1 .. n : issued'[i].seq = issued[i].seq
    BY <1>5, Zenon
  <2>4. nextOp' = nextOp + 1
    BY <1>4
  <2>5. \A i \in 1 .. n + 1 : issued'[i].seq \in Nat \ {0} /\ issued'[i].seq < nextOp'
    BY <1>1, <1>i, <2>1, <2>2, <2>3, <2>4
  <2>6. \A i, j \in 1 .. n + 1 : i < j => i \in 1 .. n /\ (j = n + 1 \/ j \in 1 .. n)
    BY <1>3
  <2>7. \A i, j \in 1 .. n + 1 : i < j => issued'[i].seq < issued'[j].seq
    BY <1>i, <2>2, <2>3, <2>6, Zenon
  <2> QED  BY <2>5, <2>7
<1>7. CASE r < Capacity
  <2>1. retained' = Append(retained, e) /\ earliest' = earliest
    BY <1>7 DEF Ring!emit_with, Ring!RetainedAfter, e, r
  <2>2. /\ retained' \in Seq(Event) /\ Len(retained') = r + 1
        /\ \A i \in 1 .. r : retained'[i] = retained[i]
        /\ retained'[r + 1] = e
    BY <1>1, <1>2, <2>1, Appended DEF r
  <2>3. \A i \in 1 .. r + 1 : retained'[i] = issued'[n + 1 - (r + 1) + i]
    <3> SUFFICES ASSUME NEW i \in 1 .. r + 1
                 PROVE  retained'[i] = issued'[n - r + i]
      BY <1>3
    <3>1. CASE i = r + 1
      BY <1>3, <1>5, <2>2, <3>1
    <3>2. CASE i \in 1 .. r
      <4>1. n - r + i \in 1 .. n
        BY <1>3, <3>2
      <4> QED  BY <1>i, <1>5, <2>2, <3>2, <4>1, Zenon
    <3> QED  BY <1>3, <3>1, <3>2
  <2>4. \A i \in 1 .. n + 1 - (r + 1) : issued'[i].seq <= earliest'
    <3> SUFFICES ASSUME NEW i \in 1 .. n - r PROVE issued'[i].seq <= earliest
      BY <1>3, <2>1
    <3>1. i \in 1 .. n
      BY <1>3
    <3> QED  BY <1>i, <1>5, <3>1, Zenon
  <2>5. nextOp' \in Nat \ {0} /\ earliest' \in Nat /\ r + 1 <= n + 1
    BY <1>1, <1>3, <1>4, <2>1
  <2>6. /\ \A i \in 1 .. Len(issued') : issued'[i].seq \in Nat \ {0} /\ issued'[i].seq < nextOp'
        /\ \A i, j \in 1 .. Len(issued') : i < j => issued'[i].seq < issued'[j].seq
    BY <1>5, <1>6, Zenon
  <2>7. Len(issued') = n + 1 /\ Len(retained') = r + 1
    BY <1>5, <2>2, Zenon
  <2>8. Len(retained') <= Len(issued')
    BY <2>5, <2>7, Zenon
  <2>9. \A i \in 1 .. Len(retained') : retained'[i] = issued'[Len(issued') - Len(retained') + i]
    BY <1>3, <2>3, <2>7
  <2>10. \A i \in 1 .. Len(issued') - Len(retained') : issued'[i].seq <= earliest'
    BY <1>3, <2>4, <2>7
  <2> QED  BY <1>5, <2>2, <2>5, <2>6, <2>8, <2>9, <2>10, Zenon DEF RingInv
<1>8. CASE ~(r < Capacity)
  <2>1. retained' = Append(Tail(retained), e) /\ earliest' = retained[1].seq
    BY <1>8 DEF Ring!emit_with, Ring!RetainedAfter, e, r
  <2>2. r >= 1 /\ retained # <<>> /\ r - 1 \in Nat /\ r - 1 + 1 = r
    BY <1>3, <1>8
  <2>3. /\ Tail(retained) \in Seq(Event) /\ Len(Tail(retained)) = r - 1
        /\ \A i \in 1 .. Len(Tail(retained)) : Tail(retained)[i] = retained[i + 1]
    BY <1>1, <2>2, HeadTailProperties, Zenon DEF r
  <2>4. /\ retained' \in Seq(Event) /\ Len(retained') = r - 1 + 1
        /\ \A i \in 1 .. r - 1 : retained'[i] = Tail(retained)[i]
        /\ retained'[r - 1 + 1] = e
    <3>1. /\ retained' \in Seq(Event) /\ Len(retained') = Len(Tail(retained)) + 1
          /\ \A i \in 1 .. Len(Tail(retained)) : retained'[i] = Tail(retained)[i]
          /\ retained'[Len(Tail(retained)) + 1] = e
      BY <1>2, <2>1, <2>3, Appended
    <3> QED  BY <2>3, <3>1, Zenon
  <2>5. /\ Len(retained') = r /\ retained'[r] = e
        /\ \A i \in 1 .. r - 1 : retained'[i] = retained[i + 1]
    BY <2>2, <2>3, <2>4, Zenon
  <2>6. \A i \in 1 .. r : retained'[i] = issued'[n + 1 - r + i]
    <3> SUFFICES ASSUME NEW i \in 1 .. r PROVE retained'[i] = issued'[n + 1 - r + i]
      OBVIOUS
    <3>1. CASE i = r
      <4>1. n + 1 - r + i = n + 1
        BY <1>3, <3>1
      <4> QED  BY <1>5, <2>5, <3>1, <4>1, Zenon
    <3>2. CASE i \in 1 .. r - 1
      <4>1. /\ n - r + (i + 1) = n + 1 - r + i /\ n + 1 - r + i \in 1 .. n
            /\ i + 1 \in 1 .. r
        BY <1>3, <3>2
      <4>2. retained'[i] = retained[i + 1]
        BY <2>5, <3>2, Zenon
      <4>3. retained[i + 1] = issued[n + 1 - r + i]
        BY <1>i, <4>1, Zenon
      <4>4. issued'[n + 1 - r + i] = issued[n + 1 - r + i]
        BY <1>5, <4>1, Zenon
      <4> QED  BY <4>2, <4>3, <4>4, Zenon
    <3> QED  BY <1>3, <3>1, <3>2
  <2>7. /\ n - r + 1 \in 1 .. n
        /\ earliest' = issued[n - r + 1].seq /\ earliest' \in Nat
    <3>1. n - r + 1 \in 1 .. n /\ 1 \in 1 .. r
      BY <1>3, <2>2
    <3> QED  BY <1>i, <2>1, <3>1
  <2>8. \A i \in 1 .. n + 1 - r : issued'[i].seq <= earliest'
    <3> SUFFICES ASSUME NEW i \in 1 .. n + 1 - r PROVE issued'[i].seq <= earliest'
      OBVIOUS
    <3>1. i \in 1 .. n /\ (i < n - r + 1 \/ i = n - r + 1)
      BY <1>3, <2>2
    <3>2. issued'[i].seq = issued[i].seq /\ issued[i].seq \in Nat
      BY <1>i, <1>5, <3>1, Zenon
    <3>3. i < n - r + 1 => issued[i].seq < issued[n - r + 1].seq
      BY <1>i, <2>7, <3>1, Zenon
    <3> QED  BY <2>7, <3>1, <3>2, <3>3
  <2>9. nextOp' \in Nat \ {0} /\ r <= n + 1
    BY <1>1, <1>3, <1>4
  <2>10. /\ \A i \in 1 .. Len(issued') : issued'[i].seq \in Nat \ {0} /\ issued'[i].seq < nextOp'
         /\ \A i, j \in 1 .. Len(issued') : i < j => issued'[i].seq < issued'[j].seq
    BY <1>5, <1>6, Zenon
  <2>11. Len(issued') = n + 1 /\ Len(retained') = r
    BY <1>5, <2>5, Zenon
  <2>12. Len(retained') <= Len(issued')
    BY <2>9, <2>11, Zenon
  <2>13. \A i \in 1 .. Len(retained') : retained'[i] = issued'[Len(issued') - Len(retained') + i]
    BY <1>3, <2>6, <2>11
  <2>14. \A i \in 1 .. Len(issued') - Len(retained') : issued'[i].seq <= earliest'
    BY <1>3, <2>8, <2>11
  <2> QED  BY <1>5, <2>4, <2>7, <2>9, <2>10, <2>12, <2>13, <2>14, Zenon DEF RingInv
<1> QED  BY <1>7, <1>8

\* The last position, or one before it.
LEMMA LastOrBefore == \A k \in Nat : \A i \in 1 .. k + 1 : i = k + 1 \/ i \in 1 .. k
OBVIOUS

\* What SubSeq leaves of a sequence after its first elements.
LEMMA Rest ==
  ASSUME NEW S, NEW s \in Seq(S), NEW k \in Nat, k <= Len(s)
  PROVE  /\ SubSeq(s, k + 1, Len(s)) \in Seq(S)
         /\ Len(SubSeq(s, k + 1, Len(s))) = Len(s) - k
         /\ \A i \in 1 .. Len(s) - k : SubSeq(s, k + 1, Len(s))[i] = s[k + i]
OBVIOUS

\* An event issued leaves what a subscriber has as it is.
LEMMA HeldGrows ==
  ASSUME NEW all \in Seq(Event), NEW e \in Event, NEW more, more = Append(all, e),
         NEW from \in Nat, NEW got \in Seq(Event), NEW token,
         Held(all, from, got, token)
  PROVE  Held(more, from, got, token)
<1>1. /\ Len(more) = Len(all) + 1 /\ \A i \in 1 .. Len(all) : more[i] = all[i]
      /\ Len(all) \in Nat /\ Len(got) \in Nat
  BY Appended
<1>2. /\ from + Len(got) <= Len(all)
      /\ \A i \in 1 .. Len(got) : got[i] = all[from + i]
      /\ token = IF Len(got) = 0 THEN 0 ELSE got[Len(got)].seq
  BY DEF Held
<1> DEFINE n == Len(all)
           g == Len(got)
<1> HIDE DEF n, g
<1>3. /\ n \in Nat /\ g \in Nat /\ from + g <= n
      /\ \A i \in 1 .. n : more[i] = all[i]
      /\ \A i \in 1 .. g : got[i] = all[from + i]
  BY <1>1, <1>2, Zenon DEF n, g
<1>4. from + g <= n + 1 /\ \A i \in 1 .. g : from + i \in 1 .. n
  BY <1>3
<1>5. \A i \in 1 .. g : got[i] = more[from + i]
  BY <1>3, <1>4, Zenon
<1> QED  BY <1>1, <1>2, <1>4, <1>5, Zenon DEF Held, n, g

\* An event issued and queued is the last one a subscriber awaits.
LEMMA AwaitedGrows ==
  ASSUME NEW all \in Seq(Event), NEW e \in Event,
         NEW from \in Nat, NEW got \in Seq(Event), NEW queue \in Seq(Event),
         Awaited(all, from, got, queue)
  PROVE  Awaited(Append(all, e), from, got, Append(queue, e))
<1> DEFINE more == Append(all, e)
           longer == Append(queue, e)
           n == Len(all)
           g == Len(got)
           q == Len(queue)
<1>1. /\ Len(more) = n + 1 /\ \A i \in 1 .. n : more[i] = all[i]
      /\ more[n + 1] = e
  BY Appended
<1>2. /\ Len(longer) = q + 1 /\ \A i \in 1 .. q : longer[i] = queue[i]
      /\ longer[q + 1] = e
  BY Appended
<1>3. n \in Nat /\ g \in Nat /\ q \in Nat
  OBVIOUS
<1>4. from + g + q = n /\ \A i \in 1 .. q : queue[i] = all[from + g + i]
  BY DEF Awaited
<1> HIDE DEF n, g, q, more, longer
<1>5. from + g + (q + 1) = n + 1
  BY <1>3, <1>4
<1>6. \A i \in 1 .. q + 1 : longer[i] = more[from + g + i]
  <2> SUFFICES ASSUME NEW i \in 1 .. q + 1 PROVE longer[i] = more[from + g + i]
    BY Zenon
  <2>1. CASE i = q + 1
    BY <1>1, <1>2, <1>5, <2>1, Zenon
  <2>2. CASE i \in 1 .. q
    <3>1. from + g + i \in 1 .. n
      BY <1>3, <1>4, <2>2
    <3> QED  BY <1>1, <1>2, <1>4, <2>2, <3>1, Zenon
  <2> QED  BY <1>3, <2>1, <2>2, LastOrBefore, Zenon
<1> QED  BY <1>1, <1>2, <1>5, <1>6, Zenon DEF Awaited, g, more, longer

\* The first event of the queue moves to what the subscriber has.
LEMMA Received ==
  ASSUME NEW all \in Seq(Event), NEW from \in Nat, NEW got \in Seq(Event),
         NEW queue \in Seq(Event), queue # <<>>,
         Awaited(all, from, got, queue), NEW token, Held(all, from, got, token)
  PROVE  /\ Held(all, from, Append(got, queue[1]), queue[1].seq)
         /\ Awaited(all, from, Append(got, queue[1]), Tail(queue))
<1> DEFINE longer == Append(got, queue[1])
           n == Len(all)
           g == Len(got)
           q == Len(queue)
<1>1. n \in Nat /\ g \in Nat /\ q \in Nat \ {0} /\ queue[1] \in Event
  OBVIOUS
<1>2. /\ Len(longer) = g + 1 /\ \A i \in 1 .. g : longer[i] = got[i]
      /\ longer[g + 1] = queue[1]
  BY <1>1, Appended
<1>3. Len(Tail(queue)) = q - 1 /\ \A i \in 1 .. q - 1 : Tail(queue)[i] = queue[i + 1]
  BY HeadTailProperties
<1>4. /\ from + g + q = n /\ \A i \in 1 .. q : queue[i] = all[from + g + i]
      /\ \A i \in 1 .. g : got[i] = all[from + i]
  BY DEF Awaited, Held
<1> HIDE DEF n, g, q, longer
<1>5. /\ from + (g + 1) <= n /\ from + (g + 1) + (q - 1) = n /\ g + 1 # 0
      /\ 1 \in 1 .. q /\ from + g + 1 = from + (g + 1)
  BY <1>1, <1>4
<1>6. \A i \in 1 .. g + 1 : longer[i] = all[from + i]
  <2> SUFFICES ASSUME NEW i \in 1 .. g + 1 PROVE longer[i] = all[from + i]
    BY Zenon
  <2>1. CASE i = g + 1
    BY <1>2, <1>4, <1>5, <2>1, Zenon
  <2>2. CASE i \in 1 .. g
    BY <1>2, <1>4, <2>2, Zenon
  <2> QED  BY <1>1, <2>1, <2>2, LastOrBefore, Zenon
<1>7. \A i \in 1 .. q - 1 : Tail(queue)[i] = all[from + (g + 1) + i]
  <2> SUFFICES ASSUME NEW i \in 1 .. q - 1 PROVE Tail(queue)[i] = all[from + (g + 1) + i]
    BY Zenon
  <2>1. i + 1 \in 1 .. q /\ from + g + (i + 1) = from + (g + 1) + i
    BY <1>1
  <2> QED  BY <1>3, <1>4, <2>1, Zenon
<1>8. Held(all, from, longer, queue[1].seq)
  BY <1>2, <1>5, <1>6, Zenon DEF Held, n
<1>9. Awaited(all, from, longer, Tail(queue))
  BY <1>2, <1>3, <1>5, <1>7, Zenon DEF Awaited, n
<1> QED  BY <1>8, <1>9 DEF longer

\* What a subscriber has and what it awaits are the rest of the feed.
LEMMA Joined ==
  ASSUME NEW all \in Seq(Event), NEW from \in Nat, NEW got \in Seq(Event),
         NEW queue \in Seq(Event), NEW token,
         Held(all, from, got, token), Awaited(all, from, got, queue)
  PROVE  got \o queue = SubSeq(all, from + 1, Len(all))
<1> DEFINE l == got \o queue
           r == SubSeq(all, from + 1, Len(all))
           n == Len(all)
           g == Len(got)
           q == Len(queue)
<1>1. n \in Nat /\ g \in Nat /\ q \in Nat
  OBVIOUS
<1>2. /\ from + g + q = n /\ \A i \in 1 .. q : queue[i] = all[from + g + i]
      /\ \A i \in 1 .. g : got[i] = all[from + i]
  BY DEF Awaited, Held
<1>3. /\ l \in Seq(Event) /\ Len(l) = g + q
      /\ \A i \in 1 .. g + q : l[i] = IF i <= g THEN got[i] ELSE queue[i - g]
  BY ConcatProperties, Zenon
<1>4. /\ r \in Seq(Event) /\ Len(r) = n - from
      /\ \A i \in 1 .. n - from : r[i] = all[from + i]
  <2>1. from <= n
    BY <1>1, <1>2
  <2> QED  BY <2>1, Rest, Zenon
<1> HIDE DEF l, r, n, g, q
<1>5. Len(l) = Len(r)
  BY <1>1, <1>2, <1>3, <1>4
<1>6. ASSUME NEW i \in 1 .. Len(l) PROVE l[i] = r[i]
  <2>1. i \in 1 .. n - from /\ i \in 1 .. g + q
    BY <1>1, <1>2, <1>3
  <2>2. r[i] = all[from + i]
    BY <1>4, <2>1, Zenon
  <2>3. CASE i <= g
    <3>1. i \in 1 .. g
      BY <2>1, <2>3, <1>1
    <3> QED  BY <1>2, <1>3, <2>1, <2>2, <2>3, <3>1, Zenon
  <2>4. CASE ~(i <= g)
    <3>1. i - g \in 1 .. q /\ from + g + (i - g) = from + i
      BY <2>1, <2>4, <1>1
    <3> QED  BY <1>2, <1>3, <2>1, <2>2, <2>4, <3>1, Zenon
  <2> QED  BY <2>3, <2>4
<1>7. l = r
  BY <1>3, <1>4, <1>5, <1>6, SeqEqual, Zenon
<1> QED  BY <1>7 DEF l, r, n

\* The fields of a subscriber.
LEMMA Fields == 
  ASSUME NEW s \in Stream
  PROVE  /\ s.open \in BOOLEAN /\ s.queue \in Seq(Event) /\ s.from \in Nat
         /\ s.got \in Seq(Event) /\ s.lagged \in BOOLEAN /\ s.token \in Nat
         /\ s.backlog \in Nat
BY DEF Stream

\* emit_with queues the event for the subscriber, or marks it as lagged.
LEMMA StreamEmit ==
  ASSUME Capacity \in Nat \ {0}, FeedInv, NEW what \in {"change", "notice"},
         Ring!emit_with(what)
  PROVE  StreamInv'
<1> DEFINE e == [seq |-> nextOp, what |-> what]
<1>1. /\ issued \in Seq(Event) /\ stream \in Stream
      /\ stream.lagged => stream.open
      /\ ~stream.lagged => Held(issued, stream.from, stream.got, stream.token)
      /\ stream.open /\ ~stream.lagged => Awaited(issued, stream.from, stream.got, stream.queue)
  BY Zenon DEF FeedInv, RingInv, StreamInv
<1>2. /\ stream.open \in BOOLEAN /\ stream.queue \in Seq(Event) /\ stream.from \in Nat
      /\ stream.got \in Seq(Event) /\ stream.lagged \in BOOLEAN /\ stream.token \in Nat
      /\ stream.backlog \in Nat
  BY <1>1, Fields, Zenon
<1>3. e \in Event
  BY DEF Event, FeedInv, RingInv
<1>4. issued' = issued \o <<e>>
  BY DEF Ring!emit_with
<1>5. stream' = IF ~stream.open THEN stream
                ELSE [stream EXCEPT !.queue = Ring!Deliver(stream.queue, e),
                                    !.lagged = stream.lagged \/ Ring!Full]
  BY DEF Ring!emit_with
<1> HIDE DEF e
<1>6. issued' = Append(issued, e)
  BY <1>1, <1>3, <1>4, AppendIsConcat, Zenon
<1>7. ~stream.lagged => Held(issued', stream.from, stream.got, stream.token)
  BY <1>1, <1>2, <1>3, <1>6, HeldGrows, Zenon
<1>8. CASE ~stream.open
  BY <1>1, <1>5, <1>7, <1>8, Zenon DEF StreamInv
<1>9. CASE stream.open /\ ~Ring!Full
  <2>1. Ring!Deliver(stream.queue, e) = Append(stream.queue, e)
    BY <1>9 DEF Ring!Deliver
  <2>2. stream' = [stream EXCEPT !.queue = Append(stream.queue, e)]
    <3>1. (stream.lagged \/ Ring!Full) = stream.lagged
      BY <1>2, <1>9
    <3> QED  BY <1>1, <1>5, <1>9, <2>1, <3>1, Zenon DEF Stream
  <2>3. Append(stream.queue, e) \in Seq(Event)
    BY <1>2, <1>3, Appended, Zenon
  <2>4. /\ stream' \in Stream
        /\ stream'.queue = Append(stream.queue, e) /\ stream'.lagged = stream.lagged
        /\ stream'.got = stream.got /\ stream'.from = stream.from
        /\ stream'.token = stream.token /\ stream'.open = stream.open
    BY <1>1, <2>2, <2>3, Zenon DEF Stream
  <2>5. ~stream.lagged => Awaited(issued', stream.from, stream.got, Append(stream.queue, e))
    <3>1. ~stream.lagged =>
            Awaited(Append(issued, e), stream.from, stream.got, Append(stream.queue, e))
      BY <1>1, <1>2, <1>3, <1>9, AwaitedGrows, Zenon
    <3> QED  BY <1>6, <3>1, Zenon
  <2> QED  BY <1>1, <1>7, <1>9, <2>4, <2>5, Zenon DEF StreamInv
<1>10. CASE stream.open /\ Ring!Full
  <2> DEFINE b == stream.backlog
             first == SubSeq(stream.queue, 1, b)
             rest == SubSeq(stream.queue, b + 2, Len(stream.queue))
             left == first \o rest
  <2>1. Ring!Deliver(stream.queue, e) = Append(left, e)
    BY <1>10, Zenon DEF Ring!Deliver
  <2>2. Append(left, e) \in Seq(Event)
    <3>1. b < Len(stream.queue)
      BY <1>2, <1>10 DEF Ring!Full
    <3>2. first \in Seq(Event) /\ rest \in Seq(Event)
      BY <1>2, <3>1
    <3> HIDE DEF first, rest
    <3>3. left \in Seq(Event)
      BY <3>2, ConcatProperties, Zenon
    <3> QED  BY <1>3, <3>3, Appended, Zenon
  <2> HIDE DEF left
  <2>3. (stream.lagged \/ Ring!Full) = TRUE
    BY <1>2, <1>10
  <2>4. stream' = [stream EXCEPT !.queue = Append(left, e), !.lagged = TRUE]
    BY <1>5, <1>10, <2>1, <2>3, Zenon
  <2>5. stream' \in Stream /\ stream'.lagged = TRUE /\ stream'.open = stream.open
    BY <1>1, <2>2, <2>4, Zenon DEF Stream
  <2> QED  BY <1>10, <2>5, Zenon DEF StreamInv
<1> QED  BY <1>8, <1>9, <1>10, Zenon

\* A client that has nothing.
LEMMA FreshStream ==
  ASSUME FeedInv, stream' = Ring!NoStream, issued' = issued
  PROVE  StreamInv'
<1>1. stream' \in Stream
  BY DEF Stream, Ring!NoStream
<1>2. ~stream'.lagged /\ ~stream'.open /\ stream'.from = 0 /\ stream'.got = <<>>
  BY DEF Ring!NoStream
<1>3. stream'.token = 0
  BY DEF Ring!NoStream
<1>4. Len(issued') \in Nat /\ Len(<<>>) = 0
  BY DEF FeedInv, RingInv
<1>5. Held(issued', stream'.from, stream'.got, stream'.token)
  BY <1>2, <1>3, <1>4 DEF Held
<1> QED  BY <1>1, <1>2, <1>5, Zenon DEF StreamInv

\* The subscriber takes an event, or learns that it lagged.
LEMMA StreamReceive ==
  ASSUME FeedInv, Ring!Receive
  PROVE  StreamInv'
<1>1. /\ issued \in Seq(Event) /\ stream \in Stream /\ issued' = issued
      /\ ~stream.lagged => /\ Held(issued, stream.from, stream.got, stream.token)
                           /\ Awaited(issued, stream.from, stream.got, stream.queue)
      /\ stream.open /\ stream.queue # <<>>
  BY Zenon DEF FeedInv, RingInv, StreamInv, Ring!Receive
<1>2. /\ stream.open \in BOOLEAN /\ stream.queue \in Seq(Event) /\ stream.from \in Nat
      /\ stream.got \in Seq(Event) /\ stream.lagged \in BOOLEAN /\ stream.token \in Nat
      /\ stream.backlog \in Nat
  BY <1>1, Fields, Zenon
<1> DEFINE longer == Append(stream.got, stream.queue[1])
<1>3. stream' = [stream EXCEPT !.queue = Tail(stream.queue), !.got = longer,
                               !.token = stream.queue[1].seq,
                               !.backlog = IF stream.backlog = 0 THEN 0 ELSE stream.backlog - 1]
  BY DEF Ring!Receive
<1>4. Tail(stream.queue) \in Seq(Event) /\ stream.queue[1] \in Event
  <2>1. Tail(stream.queue) \in Seq(Event) /\ Head(stream.queue) \in Event
    BY <1>1, <1>2, HeadTailProperties, Zenon
  <2>2. Head(stream.queue) = stream.queue[1]
    BY <1>1, <1>2
  <2> QED  BY <2>1, <2>2, Zenon
<1>5. /\ longer \in Seq(Event) /\ stream.queue[1].seq \in Nat
      /\ (IF stream.backlog = 0 THEN 0 ELSE stream.backlog - 1) \in Nat
  BY <1>2, <1>4, Appended DEF Event
<1> HIDE DEF longer
<1>6. /\ stream' \in Stream
      /\ stream'.queue = Tail(stream.queue) /\ stream'.lagged = stream.lagged
      /\ stream'.got = longer /\ stream'.from = stream.from
      /\ stream'.token = stream.queue[1].seq /\ stream'.open = stream.open
  BY <1>1, <1>3, <1>4, <1>5, Zenon DEF Stream
<1>7. ~stream.lagged => /\ Held(issued, stream.from, longer, stream.queue[1].seq)
                        /\ Awaited(issued, stream.from, longer, Tail(stream.queue))
  BY <1>1, <1>2, Received DEF longer
<1> QED  BY <1>1, <1>6, <1>7, Zenon DEF StreamInv

\* The subscriber goes and keeps its token.
LEMMA StreamHangup ==
  ASSUME FeedInv, stream' = Ring!Hangup, issued' = issued
  PROVE  StreamInv'
<1>1. CASE stream.lagged \/ stream.token = 0
  BY <1>1, FreshStream, Zenon DEF Ring!Hangup
<1>2. CASE ~(stream.lagged \/ stream.token = 0)
  <2>1. /\ stream \in Stream /\ Held(issued, stream.from, stream.got, stream.token)
    BY <1>2, Zenon DEF FeedInv, StreamInv
  <2>2. stream' = [stream EXCEPT !.open = FALSE, !.queue = <<>>, !.backlog = 0]
    BY <1>2, Zenon DEF Ring!Hangup
  <2>3. <<>> \in Seq(Event) /\ 0 \in Nat
    OBVIOUS
  <2>4. /\ stream' \in Stream /\ stream'.open = FALSE /\ stream'.lagged = stream.lagged
        /\ stream'.got = stream.got /\ stream'.from = stream.from
        /\ stream'.token = stream.token
    BY <2>1, <2>2, <2>3, Zenon DEF Stream
  <2> QED  BY <1>2, <2>1, <2>4, Zenon DEF StreamInv
<1> QED  BY <1>1, <1>2

\* A token no older than what the ring has dropped is answered with exactly the events
\* after it.
LEMMA Resumed ==
  ASSUME RingInv, NEW from \in Nat, NEW got \in Seq(Event), NEW token \in Nat,
         Held(issued, from, got, token), token > 0, token >= earliest
  PROVE  /\ Ring!Newer(retained, token) \in Seq(Event)
         /\ Awaited(issued, from, got, Ring!Newer(retained, token))
<1> DEFINE n == Len(issued)
           r == Len(retained)
           g == Len(got)
           p == from + g
           m == p - (n - r)
           q == Ring!Newer(retained, token)
<1>1. n \in Nat /\ r \in Nat /\ g \in Nat /\ r <= n /\ earliest \in Nat
  BY DEF RingInv
<1>2. /\ issued \in Seq(Event) /\ retained \in Seq(Event)
      /\ \A i \in 1 .. n : issued[i].seq \in Nat \ {0}
      /\ \A i, j \in 1 .. n : i < j => issued[i].seq < issued[j].seq
      /\ \A i \in 1 .. r : retained[i] = issued[n - r + i]
      /\ \A i \in 1 .. n - r : issued[i].seq <= earliest
  BY Zenon DEF RingInv
<1>3. /\ p <= n /\ \A i \in 1 .. g : got[i] = issued[from + i]
      /\ token = IF g = 0 THEN 0 ELSE got[g].seq
  BY Zenon DEF Held
<1> HIDE DEF n, r, g
<1>4. p \in 1 .. n /\ token = issued[p].seq
  <2>1. g # 0
    BY <1>3
  <2>2. g \in 1 .. g /\ p \in 1 .. n
    BY <1>1, <1>3, <2>1
  <2> QED  BY <1>3, <2>1, <2>2, Zenon
<1> HIDE DEF p
<1>5. p >= n - r
  <2> SUFFICES ASSUME p < n - r PROVE FALSE
    BY <1>1, <1>4
  <2>1. n - r \in 1 .. n - r /\ n - r \in 1 .. n
    BY <1>1, <1>4
  <2>2. issued[n - r].seq <= earliest /\ issued[p].seq < issued[n - r].seq
    BY <1>2, <1>4, <2>1, Zenon
  <2>3. issued[n - r].seq \in Nat
    BY <1>2, <2>1, Zenon
  <2> QED  BY <1>1, <1>4, <2>2, <2>3
<1>6. m \in 0 .. r /\ r - m = n - p
  BY <1>1, <1>4, <1>5
<1>7. \A i \in 1 .. r : retained[i].seq > token <=> i > m
  <2> SUFFICES ASSUME NEW i \in 1 .. r PROVE retained[i].seq > token <=> i > m
    OBVIOUS
  <2> DEFINE k == n - r + i
  <2>1. k \in 1 .. n /\ (k > p <=> i > m) /\ (k = p \/ k < p \/ p < k)
    BY <1>1, <1>4
  <2> HIDE DEF k
  <2>2. /\ k < p => issued[k].seq < issued[p].seq
        /\ p < k => issued[p].seq < issued[k].seq
        /\ issued[k].seq \in Nat /\ issued[p].seq \in Nat
    BY <1>2, <1>4, <2>1, Zenon
  <2>3. k > p <=> issued[k].seq > issued[p].seq
    BY <1>4, <2>1, <2>2
  <2>4. retained[i] = issued[k]
    BY <1>2, Zenon DEF k
  <2> QED  BY <1>4, <2>1, <2>3, <2>4, Zenon
<1> HIDE DEF m, q
<1>8. /\ q \in Seq(Event) /\ Len(q) = r - m
      /\ \A i \in 1 .. r - m : q[i] = retained[m + i]
  BY <1>2, <1>6, <1>7, NewerIsTheEnd, Zenon DEF q, r
<1>9. \A i \in 1 .. r - m : q[i] = issued[p + i]
  <2> SUFFICES ASSUME NEW i \in 1 .. r - m PROVE q[i] = issued[p + i]
    OBVIOUS
  <2>1. m + i \in 1 .. r /\ n - r + (m + i) = p + i
    BY <1>1, <1>4, <1>6 DEF m
  <2> QED  BY <1>2, <1>8, <2>1, Zenon
<1>10. p + (r - m) = n
  BY <1>1, <1>4, <1>6
<1>11. Awaited(issued, from, got, q)
  BY <1>8, <1>9, <1>10, Zenon DEF Awaited, p, g, n
<1> QED  BY <1>8, <1>11 DEF q

\* subscribe joins the feed: anew, or where the token says.
LEMMA StreamSubscribe ==
  ASSUME FeedInv, Ring!subscribe
  PROVE  StreamInv'
<1>1. /\ issued \in Seq(Event) /\ stream \in Stream /\ earliest \in Nat /\ issued' = issued
      /\ ~stream.open /\ ~stream.lagged /\ Held(issued, stream.from, stream.got, stream.token)
  BY Zenon DEF FeedInv, RingInv, StreamInv, Ring!subscribe
<1>2. stream.from \in Nat /\ stream.got \in Seq(Event) /\ stream.token \in Nat
  BY <1>1, Fields, Zenon
<1>3. CASE stream' = Ring!NoStream
  BY <1>1, <1>3, FreshStream, Zenon
<1>4. CASE /\ stream.token > 0 /\ stream.token >= earliest
           /\ stream' = [stream EXCEPT !.open = TRUE, !.lagged = FALSE,
                                       !.queue = Ring!Newer(retained, stream.token),
                                       !.backlog = Len(Ring!Newer(retained, stream.token))]
  <2> DEFINE q == Ring!Newer(retained, stream.token)
  <2>1. q \in Seq(Event) /\ Awaited(issued, stream.from, stream.got, q)
    BY <1>1, <1>2, <1>4, Resumed, Zenon DEF FeedInv
  <2> HIDE DEF q
  <2>2. stream' = [stream EXCEPT !.open = TRUE, !.lagged = FALSE, !.queue = q,
                                 !.backlog = Len(q)]
    BY <1>4, Zenon DEF q
  <2>l. Len(q) \in Nat
    BY <2>1
  <2>3. /\ stream' \in Stream
        /\ stream'.queue = q /\ stream'.lagged = FALSE /\ stream'.open = TRUE
        /\ stream'.got = stream.got /\ stream'.from = stream.from
        /\ stream'.token = stream.token
    BY <1>1, <2>1, <2>2, <2>l, Zenon DEF Stream
  <2> QED  BY <1>1, <2>1, <2>3, Zenon DEF StreamInv
<1>5. CASE stream' = [Ring!NoStream EXCEPT !.open = TRUE, !.from = Len(issued)]
  <2>1. Len(issued) \in Nat /\ <<>> \in Seq(Event) /\ Len(<<>>) = 0
    BY <1>1
  <2>2. /\ stream' \in Stream
        /\ stream'.queue = <<>> /\ stream'.lagged = FALSE /\ stream'.open = TRUE
        /\ stream'.got = <<>> /\ stream'.from = Len(issued) /\ stream'.token = 0
    BY <1>5, <2>1, Zenon DEF Stream, Ring!NoStream
  <2>3. /\ Held(issued, Len(issued), <<>>, 0)
        /\ Awaited(issued, Len(issued), <<>>, <<>>)
    BY <2>1 DEF Held, Awaited
  <2> QED  BY <1>1, <2>2, <2>3, Zenon DEF StreamInv
<1> QED  BY <1>3, <1>4, <1>5, Zenon DEF Ring!subscribe

\* Steps that leave the ring alone.
LEMMA RingKept ==
  ASSUME RingInv, UNCHANGED <<nextOp, retained, earliest, issued>>
  PROVE  RingInv'
BY DEF RingInv

\* Positions are drawn for writes that the feed does not show.
LEMMA PositionsDrawn ==
  ASSUME FeedInv, Ring!DrawPositions
  PROVE  FeedInv'
<1>1. UNCHANGED <<retained, earliest, stream, issued>>
  BY DEF Ring!DrawPositions
<1>2. nextOp \in Nat \ {0} /\ nextOp' \in Nat \ {0} /\ nextOp < nextOp'
  BY DEF Ring!DrawPositions, FeedInv, RingInv
<1>3. \A x \in Nat : x < nextOp => x < nextOp'
  BY <1>2
<1>4. \A i \in 1 .. Len(issued) : issued[i].seq \in Nat \ {0} /\ issued[i].seq < nextOp'
  BY <1>3, Zenon DEF FeedInv, RingInv
<1>5. RingInv'
  BY <1>1, <1>2, <1>4, Zenon DEF FeedInv, RingInv
<1>6. StreamInv'
  BY <1>1, Zenon DEF FeedInv, StreamInv
<1> QED  BY <1>5, <1>6 DEF FeedInv

\* Every step of EventFeed keeps the invariant.
LEMMA FeedStep ==
  ASSUME Capacity \in Nat \ {0}, FeedInv, [Ring!Next]_(Ring!vars)
  PROVE  FeedInv'
<1>1. ASSUME NEW what \in {"change", "notice"}, Ring!emit_with(what) PROVE FeedInv'
  BY <1>1, RingEmit, StreamEmit, Zenon DEF FeedInv
<1>2. CASE Ring!subscribe
  BY <1>2, RingKept, StreamSubscribe, Zenon DEF FeedInv, Ring!subscribe
<1>3. CASE Ring!Receive
  BY <1>3, RingKept, StreamReceive, Zenon DEF FeedInv, Ring!Receive
<1>4. CASE Ring!Disconnect
  BY <1>4, RingKept, StreamHangup, Zenon DEF FeedInv, Ring!Disconnect
<1>5. CASE Ring!DrawPositions
  BY <1>5, PositionsDrawn
<1>6. CASE UNCHANGED Ring!vars
  <2>1. UNCHANGED <<nextOp, retained, earliest, issued>> /\ stream' = stream /\ issued' = issued
    BY <1>6 DEF Ring!vars
  <2>2. StreamInv'
    BY <2>1, Zenon DEF FeedInv, StreamInv
  <2> QED  BY <2>1, <2>2, RingKept, Zenon DEF FeedInv
<1> QED  BY <1>1, <1>2, <1>3, <1>4, <1>5, <1>6 DEF Ring!Next

\* The invariant gives StreamIsTheFeed.
LEMMA FeedExact == FeedInv => Ring!StreamIsTheFeed
<1> SUFFICES ASSUME FeedInv, stream.open, ~stream.lagged
             PROVE  stream.got \o stream.queue = SubSeq(issued, stream.from + 1, Len(issued))
  BY Zenon DEF Ring!StreamIsTheFeed
<1>1. /\ issued \in Seq(Event) /\ stream \in Stream
      /\ Held(issued, stream.from, stream.got, stream.token)
      /\ Awaited(issued, stream.from, stream.got, stream.queue)
  BY Zenon DEF FeedInv, RingInv, StreamInv
<1> QED  BY <1>1, Fields, Joined, Zenon

\* For any capacity of the ring and any number of events: a subscriber that was not
\* told it lagged has, with what is queued for it, exactly the events issued since it
\* joined, over any number of reconnects with a token (StreamIsTheFeed): subscribe reads
\* the ring and joins the channel under the lock that emit_with appends under.
THEOREM FeedIsExact ==
  ASSUME Capacity \in Nat \ {0}
  PROVE  Ring!Spec => []Ring!StreamIsTheFeed
<1> QED  BY FeedInit, FeedStep, FeedExact, PTL DEF Ring!Spec
=============================================================================
