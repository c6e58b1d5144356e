--------------------------- MODULE SettingsProofs ---------------------------
(***************************************************************************)
(* Proofs about StateFile, for any number of saves and flushes on a disk   *)
(* that may refuse anything, and about SettingsHistory, for any sessions,  *)
(* files, values and bounds.                                               *)
(***************************************************************************)
EXTENDS StateFile, SettingsHistory, TLAPS

\* What relates the file, the staged file and the write under way to the store.
Ordered ==
    /\ disk <= mem
    /\ pending # None => pending = mem
    /\ Writing => write.snapshot <= mem /\ write.gen <= generation
    /\ ~up => ~Writing /\ pending = None /\ mem = disk

\* A write no flush superseded holds a state the file has not passed, and leaves
\* something pending until it has landed.
Unsuperseded ==
    Writing /\ Current =>
        /\ write.phase \in {"stage", "sync", "rename", "landed"}
              => pending # None /\ disk <= write.snapshot
        /\ write.phase = "landed" => disk = write.snapshot
        /\ write.phase # "remove"

\* What is staged when the rename reads it is the write's own state, and gone if a
\* flush superseded the write.
Staged ==
    /\ write.phase = "sync" => tmp \in {None, write.snapshot}
    /\ write.phase = "rename" /\ tmp # None => tmp = write.snapshot /\ Current

\* A superseded write's state is older than what is pending, and one that is over
\* without landing was refused.
Retried ==
    /\ Writing /\ ~Current /\ pending # None => write.snapshot < mem
    /\ write.phase \in {"missing", "over"} /\ Current
          /\ pending = write.snapshot => refused
    /\ write.phase \in {"sync", "rename"} /\ tmp = None /\ Current
          /\ pending = write.snapshot => refused

IInv == /\ TypeOK /\ Ordered /\ Unsuperseded /\ Staged /\ Retried
        /\ NothingForgotten /\ WaitsOnlyIfRefused

\* No write is a value of write, and none is under way then.
LEMMA NoWriteFacts == NoWrite \in Writes /\ NoWrite.phase = "none"
BY DEF NoWrite, Writes

\* A write under way names a state and a generation; with none, nothing.
LEMMA WriteFacts ==
    ASSUME write \in Writes
    PROVE  /\ Writing => /\ write.phase \in Phases
                         /\ write.snapshot \in States
                         /\ write.gen \in 0..MaxFlushes
           /\ ~Writing => write = NoWrite
           /\ Writing <=> write.phase \in Phases
BY DEF Writes, NoWrite, Writing, Phases

\* Moving a write to another of its phases changes nothing else of it.
LEMMA GoesFacts ==
    ASSUME write \in Writes, Writing, NEW ph \in Phases, Goes(ph)
    PROVE  /\ write' \in Writes /\ write'.phase = ph /\ Writing'
           /\ write'.snapshot = write.snapshot /\ write'.gen = write.gen
<1>1. write \in [phase : Phases, snapshot : States, gen : 0..MaxFlushes]
  BY DEF Writes, NoWrite, Writing
<1> QED
  BY <1>1 DEF Goes, Writes, Writing, Phases

\* The write that begins names the state that was pending, if one was.
LEMMA FireFacts ==
    ASSUME TypeOK, Fire, pending # None
    PROVE  /\ write' \in Writes /\ write'.phase = "stage" /\ Writing'
           /\ write'.snapshot = pending /\ write'.gen = generation
BY DEF TypeOK, Fire, Writes, Writing, Phases

\* A store built over its file satisfies the invariant.
LEMMA InitIInv == Init => IInv
<1> SUFFICES ASSUME Init PROVE IInv
  OBVIOUS
<1> USE FileAssumption DEF Init, States
<1>1. up \in BOOLEAN /\ open \in BOOLEAN /\ timer \in BOOLEAN /\ refused \in BOOLEAN
  OBVIOUS
<1>2. mem \in States /\ disk \in States /\ generation \in 0..MaxFlushes
  OBVIOUS
<1>3. pending \in States \cup {None} /\ tmp \in States \cup {None}
  OBVIOUS
<1>4. write \in Writes
  BY NoWriteFacts
<1>5. TypeOK
  BY <1>1, <1>2, <1>3, <1>4, Zenon DEF TypeOK
<1> QED
  BY <1>5, NoWriteFacts DEF IInv, Ordered, Unsuperseded, Staged, Retried,
     NothingForgotten, WaitsOnlyIfRefused, Writing

\* Every step keeps the invariant.
LEMMA StepIInv == IInv /\ [Next]_vars => IInv'
<1> SUFFICES ASSUME IInv, [Next]_vars PROVE IInv'
  OBVIOUS
<1> USE FileAssumption DEF IInv, States, Current
<1>a. write \in Writes
  BY DEF TypeOK
<1>1. CASE Save
  <2> USE <1>1 DEF Save
  <2>1. TypeOK'
    <3>1. timer' \in BOOLEAN /\ up' \in BOOLEAN /\ open' \in BOOLEAN /\ refused' \in BOOLEAN
      BY Zenon DEF TypeOK
    <3>2. /\ mem' \in States /\ disk' \in States /\ generation' \in 0..MaxFlushes
      BY DEF TypeOK
    <3>3. /\ pending' \in States \cup {None} /\ tmp' \in States \cup {None}
          /\ write' \in Writes
      BY <1>a, WriteFacts DEF TypeOK, Phases
    <3> QED
      BY <3>1, <3>2, <3>3, Zenon DEF TypeOK
  <2>2. Ordered' /\ NothingForgotten'
    BY <1>a, WriteFacts, <2>1 DEF TypeOK, Ordered, Unsuperseded, Staged, NothingForgotten, Phases,
       Writing
  <2>3. Unsuperseded' /\ Staged'
    BY <1>a, WriteFacts, <2>1 DEF TypeOK, Ordered, Unsuperseded, Staged, Phases, Writing
  <2>4. Retried'
    BY <1>a, WriteFacts, <2>1 DEF TypeOK, Ordered, Unsuperseded, Staged, Retried, Phases, Writing
  <2>5. WaitsOnlyIfRefused'
    BY <1>a, WriteFacts, <2>1 DEF TypeOK, Ordered, Unsuperseded, Retried, Phases, WaitsOnlyIfRefused,
       Writing
  <2> QED
    BY <2>1, <2>2, <2>3, <2>4, <2>5
<1>2. CASE Fire
  <2> USE <1>2 DEF Fire
  <2>1. TypeOK'
    <3>1. timer' \in BOOLEAN /\ up' \in BOOLEAN /\ open' \in BOOLEAN /\ refused' \in BOOLEAN
      BY Zenon DEF TypeOK
    <3>2. /\ mem' \in States /\ disk' \in States /\ generation' \in 0..MaxFlushes
      BY DEF TypeOK
    <3>3. /\ pending' \in States \cup {None} /\ tmp' \in States \cup {None}
          /\ write' \in Writes
      BY <1>a, WriteFacts, FireFacts DEF TypeOK, Phases
    <3> QED
      BY <3>1, <3>2, <3>3, Zenon DEF TypeOK
  <2>2. Ordered' /\ NothingForgotten'
    BY <1>a, WriteFacts, FireFacts, <2>1 DEF TypeOK, Ordered, Unsuperseded, Staged, NothingForgotten, Phases,
       Writing
  <2>3. Unsuperseded' /\ Staged'
    BY <1>a, WriteFacts, FireFacts, <2>1 DEF TypeOK, Ordered, Unsuperseded, Staged, Phases, Writing
  <2>4. Retried'
    BY <1>a, WriteFacts, FireFacts, <2>1 DEF TypeOK, Ordered, Unsuperseded, Staged, Retried, Phases, Writing
  <2>5. WaitsOnlyIfRefused'
    BY <1>a, WriteFacts, FireFacts, <2>1 DEF TypeOK, Ordered, Unsuperseded, Retried, Phases, WaitsOnlyIfRefused,
       Writing
  <2> QED
    BY <2>1, <2>2, <2>3, <2>4, <2>5
<1>3. CASE Stage
  <2> USE <1>3 DEF Stage
  <2>1. TypeOK'
    <3>1. timer' \in BOOLEAN /\ up' \in BOOLEAN /\ open' \in BOOLEAN /\ refused' \in BOOLEAN
      BY Zenon DEF TypeOK, loop
    <3>2. /\ mem' \in States /\ disk' \in States /\ generation' \in 0..MaxFlushes
      BY DEF TypeOK, loop
    <3>3. /\ pending' \in States \cup {None} /\ tmp' \in States \cup {None}
          /\ write' \in Writes
      BY <1>a, WriteFacts, GoesFacts DEF TypeOK, Phases, loop
    <3> QED
      BY <3>1, <3>2, <3>3, Zenon DEF TypeOK
  <2>2. Ordered' /\ NothingForgotten'
    BY <1>a, WriteFacts, GoesFacts, <2>1 DEF TypeOK, Ordered, Unsuperseded, Staged, NothingForgotten, Phases,
       Writing, loop
  <2>3. Unsuperseded' /\ Staged'
    BY <1>a, WriteFacts, GoesFacts, <2>1 DEF TypeOK, Ordered, Unsuperseded, Staged, Phases, Writing, loop
  <2>4. Retried'
    BY <1>a, WriteFacts, GoesFacts, <2>1 DEF TypeOK, Ordered, Unsuperseded, Staged, Retried, Phases, Writing, loop
  <2>5. WaitsOnlyIfRefused'
    BY <1>a, WriteFacts, GoesFacts, <2>1 DEF TypeOK, Ordered, Unsuperseded, Retried, Phases, WaitsOnlyIfRefused,
       Writing, loop
  <2> QED
    BY <2>1, <2>2, <2>3, <2>4, <2>5
<1>4. CASE Synced
  <2> USE <1>4 DEF Synced
  <2>1. TypeOK'
    <3>1. timer' \in BOOLEAN /\ up' \in BOOLEAN /\ open' \in BOOLEAN /\ refused' \in BOOLEAN
      BY Zenon DEF TypeOK, loop
    <3>2. /\ mem' \in States /\ disk' \in States /\ generation' \in 0..MaxFlushes
      BY DEF TypeOK, loop
    <3>3. /\ pending' \in States \cup {None} /\ tmp' \in States \cup {None}
          /\ write' \in Writes
      BY <1>a, WriteFacts, GoesFacts DEF TypeOK, Phases, loop
    <3> QED
      BY <3>1, <3>2, <3>3, Zenon DEF TypeOK
  <2>2. Ordered' /\ NothingForgotten'
    BY <1>a, WriteFacts, GoesFacts, <2>1 DEF TypeOK, Ordered, Unsuperseded, Staged, NothingForgotten, Phases,
       Writing, loop
  <2>3. Unsuperseded' /\ Staged'
    BY <1>a, WriteFacts, GoesFacts, <2>1 DEF TypeOK, Ordered, Unsuperseded, Staged, Phases, Writing, loop
  <2>4. Retried'
    BY <1>a, WriteFacts, GoesFacts, <2>1 DEF TypeOK, Ordered, Unsuperseded, Staged, Retried, Phases, Writing, loop
  <2>5. WaitsOnlyIfRefused'
    BY <1>a, WriteFacts, GoesFacts, <2>1 DEF TypeOK, Ordered, Unsuperseded, Retried, Phases, WaitsOnlyIfRefused,
       Writing, loop
  <2> QED
    BY <2>1, <2>2, <2>3, <2>4, <2>5
<1>5. CASE Rename
  <2> USE <1>5 DEF Rename
  <2>1. TypeOK'
    <3>1. timer' \in BOOLEAN /\ up' \in BOOLEAN /\ open' \in BOOLEAN /\ refused' \in BOOLEAN
      BY Zenon DEF TypeOK, loop
    <3>2. /\ mem' \in States /\ disk' \in States /\ generation' \in 0..MaxFlushes
      BY DEF TypeOK, loop
    <3>3. /\ pending' \in States \cup {None} /\ tmp' \in States \cup {None}
          /\ write' \in Writes
      BY <1>a, WriteFacts, GoesFacts DEF TypeOK, Phases, loop
    <3> QED
      BY <3>1, <3>2, <3>3, Zenon DEF TypeOK
  <2>2. Ordered' /\ NothingForgotten'
    BY <1>a, WriteFacts, GoesFacts, <2>1 DEF TypeOK, Ordered, Unsuperseded, Staged, NothingForgotten, Phases,
       Writing, loop
  <2>3. Unsuperseded' /\ Staged'
    BY <1>a, WriteFacts, GoesFacts, <2>1 DEF TypeOK, Ordered, Unsuperseded, Staged, Phases, Writing, loop
  <2>4. Retried'
    BY <1>a, WriteFacts, GoesFacts, <2>1 DEF TypeOK, Ordered, Unsuperseded, Staged, Retried, Phases, Writing, loop
  <2>5. WaitsOnlyIfRefused'
    BY <1>a, WriteFacts, GoesFacts, <2>1 DEF TypeOK, Ordered, Unsuperseded, Retried, Phases, WaitsOnlyIfRefused,
       Writing, loop
  <2> QED
    BY <2>1, <2>2, <2>3, <2>4, <2>5
<1>6. CASE Landed
  BY <1>6, <1>a, WriteFacts, GoesFacts DEF Landed, TypeOK, Ordered, Unsuperseded, Staged,
     Retried, NothingForgotten, WaitsOnlyIfRefused, Writing, Phases
<1>7. CASE Missing
  BY <1>7, <1>a, WriteFacts, GoesFacts DEF Missing, TypeOK, Ordered, Unsuperseded, Staged,
     Retried, NothingForgotten, WaitsOnlyIfRefused, Writing, Phases, loop
<1>8. CASE RemoveStaged
  BY <1>8, <1>a, WriteFacts, GoesFacts DEF RemoveStaged, TypeOK, Ordered, Unsuperseded, Staged,
     Retried, NothingForgotten, WaitsOnlyIfRefused, Writing, Phases, loop
<1>9. CASE Over
  <2> USE <1>9 DEF Over
  <2>1. TypeOK'
    <3>1. timer' \in BOOLEAN /\ up' \in BOOLEAN /\ open' \in BOOLEAN /\ refused' \in BOOLEAN
      BY Zenon DEF TypeOK
    <3>2. /\ mem' \in States /\ disk' \in States /\ generation' \in 0..MaxFlushes
      BY DEF TypeOK
    <3>3. /\ pending' \in States \cup {None} /\ tmp' \in States \cup {None}
          /\ write' \in Writes
      BY <1>a, WriteFacts, NoWriteFacts DEF TypeOK, Phases
    <3> QED
      BY <3>1, <3>2, <3>3, Zenon DEF TypeOK
  <2>2. Ordered' /\ NothingForgotten'
    BY <1>a, WriteFacts, NoWriteFacts, <2>1 DEF TypeOK, Ordered, Unsuperseded, Staged, NothingForgotten, Phases,
       Writing
  <2>3. Unsuperseded' /\ Staged'
    BY <1>a, WriteFacts, NoWriteFacts, <2>1 DEF TypeOK, Ordered, Unsuperseded, Staged, Phases, Writing
  <2>4. Retried'
    BY <1>a, WriteFacts, NoWriteFacts, <2>1 DEF TypeOK, Ordered, Unsuperseded, Staged, Retried, Phases, Writing
  <2>5. WaitsOnlyIfRefused'
    <3>1. pending # None => refused \/ pending \notin {None, write.snapshot}
      BY <1>a, WriteFacts DEF TypeOK, Ordered, Retried, Phases, Writing
    <3>2. (pending' # None => pending # None) /\ (refused => refused')
      OBVIOUS
    <3>3. pending \notin {None, write.snapshot} => timer'
      BY Zenon
    <3> QED
      BY <3>1, <3>2, <3>3, Zenon DEF WaitsOnlyIfRefused
  <2> QED
    BY <2>1, <2>2, <2>3, <2>4, <2>5
<1>10. CASE Flush
  <2> USE <1>10 DEF Flush
  <2>1. TypeOK'
    <3>1. timer' \in BOOLEAN /\ up' \in BOOLEAN /\ open' \in BOOLEAN /\ refused' \in BOOLEAN
      BY Zenon DEF TypeOK
    <3>2. /\ mem' \in States /\ disk' \in States /\ generation' \in 0..MaxFlushes
      BY DEF TypeOK
    <3>3. /\ pending' \in States \cup {None} /\ tmp' \in States \cup {None}
          /\ write' \in Writes
      BY <1>a, WriteFacts DEF TypeOK, Phases
    <3> QED
      BY <3>1, <3>2, <3>3, Zenon DEF TypeOK
  <2>2. Ordered' /\ NothingForgotten'
    BY <1>a, WriteFacts, <2>1 DEF TypeOK, Ordered, Unsuperseded, Staged, NothingForgotten, Phases,
       Writing
  <2>3. Unsuperseded' /\ Staged'
    BY <1>a, WriteFacts, <2>1 DEF TypeOK, Ordered, Unsuperseded, Staged, Phases, Writing
  <2>4. Retried'
    BY <1>a, WriteFacts, <2>1 DEF TypeOK, Ordered, Unsuperseded, Staged, Retried, Phases, Writing
  <2>5. WaitsOnlyIfRefused'
    BY <1>a, WriteFacts, <2>1 DEF TypeOK, Ordered, Unsuperseded, Retried, Phases, WaitsOnlyIfRefused,
       Writing
  <2> QED
    BY <2>1, <2>2, <2>3, <2>4, <2>5
<1>11. CASE Crash
  <2> USE <1>11 DEF Crash
  <2>1. TypeOK'
    <3>1. timer' \in BOOLEAN /\ up' \in BOOLEAN /\ open' \in BOOLEAN /\ refused' \in BOOLEAN
      BY Zenon DEF TypeOK
    <3>2. /\ mem' \in States /\ disk' \in States /\ generation' \in 0..MaxFlushes
      BY DEF TypeOK
    <3>3. /\ pending' \in States \cup {None} /\ tmp' \in States \cup {None}
          /\ write' \in Writes
      BY <1>a, WriteFacts, NoWriteFacts DEF TypeOK, Phases
    <3> QED
      BY <3>1, <3>2, <3>3, Zenon DEF TypeOK
  <2>2. Ordered' /\ NothingForgotten'
    BY <1>a, WriteFacts, NoWriteFacts, <2>1 DEF TypeOK, Ordered, Unsuperseded, Staged, NothingForgotten, Phases,
       Writing
  <2>3. Unsuperseded' /\ Staged'
    BY <1>a, WriteFacts, NoWriteFacts, <2>1 DEF TypeOK, Ordered, Unsuperseded, Staged, Phases, Writing
  <2>4. Retried'
    BY <1>a, WriteFacts, NoWriteFacts, <2>1 DEF TypeOK, Ordered, Unsuperseded, Staged, Retried, Phases, Writing
  <2>5. WaitsOnlyIfRefused'
    BY <1>a, WriteFacts, NoWriteFacts, <2>1 DEF TypeOK, Ordered, Unsuperseded, Retried, Phases, WaitsOnlyIfRefused,
       Writing
  <2> QED
    BY <2>1, <2>2, <2>3, <2>4, <2>5
<1>12. CASE Restart
  BY <1>12, <1>a, WriteFacts DEF Restart, TypeOK, Ordered, Unsuperseded, Staged,
     Retried, NothingForgotten, WaitsOnlyIfRefused, Writing, Phases
<1>13. CASE UNCHANGED vars
  BY <1>13 DEF vars, TypeOK, Ordered, Unsuperseded, Staged, Retried,
     NothingForgotten, WaitsOnlyIfRefused, Writing
<1> QED
  BY <1>1, <1>2, <1>3, <1>4, <1>5, <1>6, <1>7, <1>8, <1>9, <1>10, <1>11, <1>12,
     <1>13 DEF Next, Pool, Loop

\* The invariant holds for any number of saves and flushes.
LEMMA Invariant == Spec => []IInv
BY InitIInv, StepIInv, PTL DEF Spec

\* The file, the staged file, the write and the store's state keep their types.
THEOREM FileTypes == Spec => []TypeOK
BY Invariant, PTL DEF IInv

\* With nothing pending the file is the store, whatever older write is still
\* under way (write and flush clear pending only for what is durable).
THEOREM NothingIsForgotten == Spec => []NothingForgotten
BY Invariant, PTL DEF IInv

\* A pending state has a timer or a write under way, or the disk refused
\* something since the last save (write's finally, flush's dropped timer).
THEOREM OnlyRefusalsWait == Spec => []WaitsOnlyIfRefused
BY Invariant, PTL DEF IInv

\* Each step of the file is one step of what it promises, or none: a save saves,
\* the rename and the flush land a state the store was in and the file has not
\* passed, and a process that ends leaves the next one what the disk holds.
LEMMA StepKeepsPromise == IInv /\ [Next]_vars => [Store!Next]_<<mem, disk>>
<1> SUFFICES ASSUME IInv, [Next]_vars
             PROVE  Store!Next \/ UNCHANGED <<mem, disk>>
  OBVIOUS
<1> USE FileAssumption DEF IInv, States
<1>a. write \in Writes
  BY DEF TypeOK
<1>1. CASE Save
  BY <1>1 DEF Save, Store!Next, Store!Save
<1>2. CASE Stage \/ Loop
  BY <1>2 DEF Stage, Loop, Fire, Synced, Landed, Missing, RemoveStaged, Over, loop
<1>3. CASE Rename
  <2>1. CASE tmp = None \/ disk' = disk
    BY <1>3, <2>1 DEF Rename, loop
  <2>2. CASE tmp # None /\ disk' # disk
    <3>1. disk' = write.snapshot /\ mem' = mem /\ Writing /\ Current
      BY <1>3, <2>2 DEF Rename, loop, Staged, Writing
    <3>2. disk <= write.snapshot /\ write.snapshot <= mem
      BY <1>3, <3>1 DEF Rename, Unsuperseded, Ordered
    <3>3. disk' \in (disk + 1)..mem
      BY <1>a, WriteFacts, <2>2, <3>1, <3>2 DEF TypeOK
    <3> QED
      BY <3>1, <3>3 DEF Store!Next, Store!Land
  <2> QED
    BY <2>1, <2>2
<1>4. CASE Flush
  <2>1. CASE disk' = disk
    BY <1>4, <2>1 DEF Flush
  <2>2. CASE disk' # disk
    <3>1. disk' = mem /\ mem' = mem
      BY <1>4, <2>2 DEF Flush, Ordered
    <3>2. disk' \in (disk + 1)..mem
      BY <2>2, <3>1 DEF TypeOK, Ordered
    <3> QED
      BY <3>1, <3>2 DEF Store!Next, Store!Land
  <2> QED
    BY <2>1, <2>2
<1>5. CASE Crash
  BY <1>5 DEF Crash, Store!Next, Store!Restart
<1>6. CASE Restart
  BY <1>6 DEF Restart
<1>7. CASE UNCHANGED vars
  BY <1>7 DEF vars
<1> QED
  BY <1>1, <1>2, <1>3, <1>4, <1>5, <1>6, <1>7 DEF Next, Pool

\* The session store's file implements what is promised of it: it only moves on,
\* to states the store was in, and a restart takes up what it holds.
THEOREM FileImplementsStore == Spec => KeepsItsPromise
<1>1. Init => Store!Init
  BY DEF Init, Store!Init
<1> QED
  BY <1>1, Invariant, StepKeepsPromise, PTL DEF Spec, KeepsItsPromise, Store!Spec

-----------------------------------------------------------------------------
(* SettingsHistory.                                                        *)

\* A history is its two stacks and its savepoint.
Shaped(h) == h = [past |-> h.past, future |-> h.future, sp |-> h.sp]

\* The net change, on the targets in T, of what was there and is there now.
Tells(net, was, now, T) ==
    \A t \in T :
       IF now[t] = was[t] THEN t \notin DOMAIN net
       ELSE t \in DOMAIN net /\ net[t] = [before |-> was[t], after |-> now[t]]

\* The bounds take a savepoint whole, or leave it its net change.
Trimmed(g, h) ==
    /\ Shaped(g)
    /\ g.sp.here => h.sp.here /\ g.sp.net \in {h.sp.net, WithNet(h.sp.net, <<>>)}

SessionTold(s) ==
    hist[s].sp.here => /\ Tells(hist[s].sp.net, opened[s].val, val, Reach(s) \ touched[s])
                       /\ DOMAIN opened[s].val = Reach(s)

\* What the turn under way read still stands, but for what a session with an open
\* edit mode counts as touched.
SeenStands(x) == \A f \in Files \ touched[x] : hist[x].sp.here => seen[f] = val[f]

SeenOK == seen # NotRead => \A x \in Sessions : SeenStands(x)

HistoryInv ==
    /\ SeenOK
    /\ edit \in [Sessions -> BOOLEAN]
    /\ hist = [s \in Sessions |-> hist[s]] /\ opened = [s \in Sessions |-> opened[s]]
    /\ \A s \in Sessions : Shaped(hist[s]) /\ SessionTold(s)

-----------------------------------------------------------------------------
(* The net change.                                                         *)

\* A step that leads from what is there to what is there later joins it.
LEMMA NetJoins ==
    ASSUME NEW net, NEW was, NEW now, NEW later, NEW T, Tells(net, was, now, T), NEW step,
           \A t \in T \cap DOMAIN step : step[t].before = now[t] /\ step[t].after = later[t],
           \A t \in T \ DOMAIN step : later[t] = now[t]
    PROVE  Tells(WithNet(net, step), was, later, T)
<1> SUFFICES ASSUME NEW t \in T
             PROVE  IF later[t] = was[t] THEN t \notin DOMAIN WithNet(net, step)
                    ELSE /\ t \in DOMAIN WithNet(net, step)
                         /\ WithNet(net, step)[t] = [before |-> was[t], after |-> later[t]]
  BY DEF Tells
<1> DEFINE join(u) == [before |-> IF u \in DOMAIN net THEN net[u].before ELSE step[u].before,
                       after  |-> IF u \in DOMAIN step THEN step[u].after ELSE net[u].after]
           merged == [u \in DOMAIN net \cup DOMAIN step |-> join(u)]
           D == {u \in DOMAIN merged : merged[u].before # merged[u].after}
<1>1. WithNet(net, step) = [u \in D |-> merged[u]]
  BY DEF WithNet, Restrict
<1>2. CASE t \in DOMAIN net \cup DOMAIN step
  <2>1. was[t] # now[t] => t \in DOMAIN net /\ net[t].before = was[t] /\ net[t].after = now[t]
    <3> SUFFICES ASSUME was[t] # now[t]
                 PROVE  t \in DOMAIN net /\ net[t].before = was[t] /\ net[t].after = now[t]
      OBVIOUS
    <3>1. t \in DOMAIN net /\ net[t] = [before |-> was[t], after |-> now[t]]
      BY DEF Tells
    <3> QED
      BY <3>1
  <2>2. was[t] = now[t] => t \notin DOMAIN net
    BY DEF Tells
  <2>3. join(t).before = was[t]
    BY <1>2, <2>1, <2>2
  <2>4. join(t).after = later[t]
    BY <1>2, <2>1, <2>2
  <2>5. join(t) = [before |-> was[t], after |-> later[t]]
    BY <2>3, <2>4
  <2> HIDE DEF join
  <2>6. merged[t] = [before |-> was[t], after |-> later[t]] /\ t \in DOMAIN merged
    BY <1>2, <2>5
  <2> HIDE DEF merged
  <2> QED
    BY <1>1, <2>6
<1>3. CASE t \notin DOMAIN net \cup DOMAIN step
  <2>1. later[t] = was[t]
    BY <1>3 DEF Tells
  <2>2. t \notin D
    BY <1>3
  <2> QED
    BY <1>1, <2>1, <2>2
<1> QED
  BY <1>2, <1>3

LEMMA NothingJoins ==
    ASSUME NEW net, NEW was, NEW now, NEW T, Tells(net, was, now, T)
    PROVE  Tells(WithNet(net, <<>>), was, now, T)
<1>1. DOMAIN <<>> = {}
  OBVIOUS
<1> QED
  BY <1>1, NetJoins

LEMMA SparedTells ==
    ASSUME NEW net, NEW was, NEW now, NEW T, NEW gone, NEW then,
           Tells(net, was, now, T \ gone),
           \A t \in T \cap gone : then[t] = now[t],
           \A t \in T \ gone : then[t] = was[t]
    PROVE  Tells(Spared(net, gone), then, now, T)
<1> SUFFICES ASSUME NEW t \in T
             PROVE  IF now[t] = then[t] THEN t \notin DOMAIN Spared(net, gone)
                    ELSE /\ t \in DOMAIN Spared(net, gone)
                         /\ Spared(net, gone)[t] = [before |-> then[t], after |-> now[t]]
  BY DEF Tells
<1>1. Spared(net, gone) = [u \in DOMAIN net \ gone |-> net[u]]
  BY DEF Spared, Restrict
<1> QED
  BY <1>1 DEF Tells

-----------------------------------------------------------------------------
(* The bounds.                                                             *)

LEMMA SavepointsKeep ==
    ASSUME NEW sp, NEW n, NEW step
    PROVE  LET after == SavepointAfter(sp, n, step) IN
           after.here => sp.here /\ after.net = WithNet(sp.net, step)
BY DEF SavepointAfter, Savepoint, NoSavepoint

LEMMA OldestGo ==
    ASSUME NEW h, NEW n
    PROVE  LET g == WithoutOldest(h, n) IN
           Shaped(g) /\ (g.sp.here => h.sp.here /\ g.sp.net = WithNet(h.sp.net, <<>>))
<1> DEFINE p == IF n < Len(h.past) THEN n ELSE Len(h.past)
           a == DropFirst(h.past, p)
           b == DropFirst(h.future, n - p)
           sp == SavepointAfter(h.sp, p, <<>>)
<1>1. WithoutOldest(h, n) = [past |-> a, future |-> b, sp |-> sp]
  BY DEF WithoutOldest
<1>2. sp.here => h.sp.here /\ sp.net = WithNet(h.sp.net, <<>>)
  BY SavepointsKeep
<1> HIDE DEF a, b, sp, p
<1> QED
  BY <1>1, <1>2 DEF Shaped

LEMMA PutTrims ==
    ASSUME NEW hs, hs = [x \in Sessions |-> hs[x]], NEW ord, NEW s \in Sessions, NEW h,
           Shaped(h), \A x \in Sessions : Shaped(hs[x])
    PROVE  LET put == Put(hs, ord, s, h).hist IN
           /\ put = [x \in Sessions |-> put[x]]
           /\ \A x \in Sessions : Trimmed(put[x], IF x = s THEN h ELSE hs[x])
<1> DEFINE others == SelectSeq(ord, LAMBDA x : x # s)
           next == IF h = NoHistory THEN others ELSE Append(others, s)
           now == [hs EXCEPT ![s] = h]
           weight(o) == Cardinality(UNION {{x} \X Held(now[x]) : x \in ToSet(o)})
           kept == DropFirst(next, Min({n \in 0..Len(next) :
                       /\ Len(next) - n <= MaxSessions
                       /\ Len(next) - n <= 1 \/ weight(DropFirst(next, n)) <= MaxChanges}))
           last == now[kept[1]]
           cuts == {n \in 0..(Len(last.past) + Len(last.future)) :
                       Weight(WithoutOldest(last, n)) <= MaxChanges}
           all == [x \in Sessions |-> IF Contains(kept, x) THEN now[x] ELSE NoHistory]
           put == Put(hs, ord, s, h).hist
           fewer == Min(cuts)
           cut == WithoutOldest(last, fewer)
           one == kept[1]
<1>1. \/ put = all \/ put = [x \in Sessions |-> NoHistory]
      \/ put = [all EXCEPT ![one] = cut]
  BY DEF Put
<1> HIDE DEF put, fewer, one
<1>2. Shaped(NoHistory) /\ ~NoHistory.sp.here
  BY DEF Shaped, NoHistory, NoSavepoint
<1>3. now = [x \in Sessions |-> IF x = s THEN h ELSE hs[x]]
  OBVIOUS
<1>4. Shaped(cut)
      /\ (cut.sp.here => last.sp.here /\ cut.sp.net = WithNet(last.sp.net, <<>>))
  BY OldestGo
<1> HIDE DEF kept, cut, cuts, now
<1>5. ASSUME NEW x \in Sessions
      PROVE  /\ Shaped(now[x]) /\ now[x] = IF x = s THEN h ELSE hs[x]
             /\ all[x] \in {now[x], NoHistory}
  BY <1>3
<1>6. all = [x \in Sessions |-> all[x]]
  OBVIOUS
<1> HIDE DEF all
<1>7. ASSUME NEW x \in Sessions
      PROVE  put[x] \in {now[x], NoHistory} \/ (put[x] = cut /\ x = one)
  BY <1>1, <1>5, <1>6
<1>8. put = [x \in Sessions |-> put[x]]
  BY <1>1, <1>6
<1>9. ASSUME NEW x \in Sessions PROVE Trimmed(put[x], now[x])
  <2>1. CASE put[x] = now[x]
    BY <1>5, <2>1 DEF Trimmed
  <2>2. CASE put[x] = NoHistory
    BY <1>2, <2>2 DEF Trimmed
  <2>3. CASE put[x] = cut /\ x = one
    BY <1>4, <2>3 DEF Trimmed, one
  <2> QED
    BY <1>7, <2>1, <2>2, <2>3
<1> QED
  BY <1>5, <1>8, <1>9 DEF put

-----------------------------------------------------------------------------
(* The turns.                                                              *)

LEMMA FewerTold ==
    ASSUME NEW net, NEW was, NEW now, NEW T, Tells(net, was, now, T),
           NEW S, S \subseteq T, NEW later, \A t \in S : later[t] = now[t]
    PROVE  Tells(net, was, later, S)
BY DEF Tells

\* A history put says of its session what it has to; the others see what moved.
LEMMA PutsHold ==
    ASSUME HistoryInv, NEW s \in Sessions, NEW h, Shaped(h), NEW gone, NEW mark,
           Puts(s, h, gone), Marks(mark), edit' \in [Sessions -> BOOLEAN],
           seen' = NotRead,
           \A x \in Sessions \ {s} : mark[x] = opened[x],
           h.sp.here => /\ Tells(h.sp.net, mark[s].val, val', Reach(s) \ (touched[s] \ gone))
                        /\ DOMAIN mark[s].val = Reach(s)
    PROVE  HistoryInv'
<1> DEFINE put == Put(hist, order, s, h)
           cut == Len(h.future) - Len(put.hist[s].future)
           lost == UNION {DOMAIN h.future[i] : i \in 1..cut}
           moved == {t \in Targets : val'[t] # val[t]}
<1>1. hist' = put.hist /\ Observed(s, gone, lost)
  BY DEF Puts
<1>2. hist = [x \in Sessions |-> hist[x]] /\ \A x \in Sessions : Shaped(hist[x])
  BY DEF HistoryInv
<1>3. /\ hist' = [x \in Sessions |-> hist'[x]]
      /\ \A x \in Sessions : Trimmed(hist'[x], IF x = s THEN h ELSE hist[x])
  <2>1. /\ put.hist = [x \in Sessions |-> put.hist[x]]
        /\ \A x \in Sessions : Trimmed(put.hist[x], IF x = s THEN h ELSE hist[x])
    BY <1>2, PutTrims
  <2> HIDE DEF put
  <2> QED
    BY <1>1, <2>1
<1> HIDE DEF put, lost
<1>4. \A x \in Sessions : touched'[x] = IF hist'[x] = NoHistory THEN {}
                                        ELSE IF x = s THEN (touched[x] \ gone) \cup lost
                                        ELSE touched[x] \cup (moved \cap Reach(x))
  BY <1>1 DEF Observed
<1>5. opened' = [x \in Sessions |-> IF hist'[x].sp.here THEN mark[x] ELSE NoMark]
  BY DEF Marks
<1>6. ASSUME NEW x \in Sessions, hist'[x].sp.here PROVE SessionTold(x)'
  <2>1. hist'[x] # NoHistory /\ opened'[x] = mark[x]
    BY <1>5, <1>6 DEF NoHistory, NoSavepoint
  <2> DEFINE g == IF x = s THEN h ELSE hist[x]
             T == Reach(x) \ touched'[x]
  <2>2. g.sp.here /\ hist'[x].sp.net \in {g.sp.net, WithNet(g.sp.net, <<>>)}
    BY <1>3, <1>6 DEF Trimmed
  <2>3. Tells(g.sp.net, mark[x].val, val', T) /\ DOMAIN mark[x].val = Reach(x)
    <3>1. CASE x = s
      <4>1. T \subseteq Reach(s) \ (touched[s] \ gone)
        BY <1>4, <2>1, <3>1
      <4> QED
        BY <2>2, <3>1, <4>1, FewerTold
    <3>2. CASE x # s
      <4>1. T \subseteq Reach(x) \ touched[x] /\ T \cap moved = {}
        BY <1>4, <2>1, <3>2
      <4>2. \A t \in T : val'[t] = val[t]
        BY <4>1 DEF Reach, Targets
      <4>3. SessionTold(x) /\ g = hist[x] /\ mark[x] = opened[x]
        BY <3>2 DEF HistoryInv
      <4> HIDE DEF g, T
      <4> QED
        BY <2>2, <4>1, <4>2, <4>3, FewerTold DEF SessionTold
    <3> QED
      BY <3>1, <3>2
  <2> HIDE DEF g, T
  <2>4. Tells(hist'[x].sp.net, mark[x].val, val', T)
    BY <2>2, <2>3, NothingJoins
  <2> QED
    BY <2>1, <2>3, <2>4 DEF SessionTold, T, Reach
<1>7. \A x \in Sessions : SessionTold(x)'
  BY <1>6 DEF SessionTold
<1>8. opened' = [x \in Sessions |-> opened'[x]]
  BY <1>5
<1> QED
  BY <1>3, <1>7, <1>8 DEF HistoryInv, Trimmed, SeenOK

\* What nobody records, every session sees move.
LEMMA UnrecordedHolds ==
    ASSUME HistoryInv, Unrecorded, edit' \in [Sessions -> BOOLEAN],
           seen' = NotRead \/ seen' = seen
    PROVE  HistoryInv'
<1> DEFINE moved == {t \in Targets : val'[t] # val[t]}
<1>1. hist' = hist /\ opened' = opened
  BY DEF Unrecorded
<1>2. \A x \in Sessions : touched'[x] = IF hist[x] = NoHistory THEN {}
                                        ELSE touched[x] \cup (moved \cap Reach(x))
  BY <1>1, HistoryAssumption DEF Unrecorded, Observed
<1>3. ASSUME NEW x \in Sessions, hist[x].sp.here PROVE SessionTold(x)'
  <2> DEFINE T == Reach(x) \ touched'[x]
  <2>1. hist[x] # NoHistory
    BY <1>3 DEF NoHistory, NoSavepoint
  <2>2. T \subseteq Reach(x) \ touched[x] /\ T \cap moved = {}
    BY <1>2, <2>1
  <2>3. \A t \in T : val'[t] = val[t]
    BY <2>2 DEF Reach, Targets
  <2>4. SessionTold(x)
    BY DEF HistoryInv
  <2> HIDE DEF T
  <2>5. Tells(hist[x].sp.net, opened[x].val, val', T)
    BY <1>3, <2>2, <2>3, <2>4, FewerTold DEF SessionTold
  <2> QED
    BY <1>1, <1>3, <2>4, <2>5 DEF SessionTold, T, Reach
<1>4. SeenOK'
  <2> SUFFICES ASSUME seen # NotRead, seen' = seen, NEW x \in Sessions, hist[x].sp.here,
                      NEW f \in Files \ touched'[x]
               PROVE  seen[f] = val'[f]
    BY <1>1 DEF SeenOK, SeenStands
  <2>1. hist[x] # NoHistory
    BY DEF NoHistory, NoSavepoint
  <2>2. f \notin touched[x] /\ f \notin moved
    BY <1>2, <2>1 DEF Reach
  <2>3. seen[f] = val[f] /\ val'[f] = val[f]
    BY <2>2 DEF HistoryInv, SeenOK, SeenStands, Targets
  <2> QED
    BY <2>3
<1> QED
  BY <1>1, <1>3, <1>4 DEF HistoryInv, SessionTold

\* A savepoint taken now, over what its session finds.
LEMMA OpenHolds ==
    ASSUME HistoryInv, NEW s \in Sessions, NEW h, Shaped(h), h.sp.net = <<>>, NEW gone,
           Puts(s, h, gone), Marks([opened EXCEPT ![s] = MarkNow(s)]),
           edit' \in [Sessions -> BOOLEAN], seen' = NotRead
    PROVE  HistoryInv'
<1> DEFINE mark == [opened EXCEPT ![s] = MarkNow(s)]
<1>1. mark[s] = MarkNow(s) /\ \A x \in Sessions \ {s} : mark[x] = opened[x]
  BY DEF HistoryInv
<1>2. MarkNow(s).val = [t \in Reach(s) |-> val'[t]]
  BY DEF MarkNow, Restrict
<1>3. DOMAIN <<>> = {}
  OBVIOUS
<1>4. Tells(<<>>, MarkNow(s).val, val', Reach(s) \ (touched[s] \ gone))
  BY <1>2, <1>3 DEF Tells
<1>5. DOMAIN MarkNow(s).val = Reach(s)
  BY <1>2
<1> HIDE DEF mark
<1> QED
  BY <1>1, <1>4, <1>5, PutsHold DEF mark

\* A step recorded by its session joins the net change of its savepoint.
LEMMA StepHolds ==
    ASSUME HistoryInv, NEW s \in Sessions, NEW step, NEW h, Shaped(h),
           h.sp.here => hist[s].sp.here /\ h.sp.net = WithNet(hist[s].sp.net, step),
           seen # NotRead,
           \A t \in DOMAIN step : step[t].before = Seen(t),
           val' = [t \in Targets |-> IF t \in DOMAIN step THEN step[t].after ELSE val[t]],
           Puts(s, h, {}), Marks(opened), edit' \in [Sessions -> BOOLEAN],
           seen' = NotRead
    PROVE  HistoryInv'
<1> DEFINE T == Reach(s) \ (touched[s] \ {})
<1>1. ASSUME h.sp.here
      PROVE  Tells(h.sp.net, opened[s].val, val', T) /\ DOMAIN opened[s].val = Reach(s)
  <2>1. /\ Tells(hist[s].sp.net, opened[s].val, val, Reach(s) \ touched[s])
        /\ DOMAIN opened[s].val = Reach(s)
    BY <1>1 DEF HistoryInv, SessionTold
  <2>2. T = Reach(s) \ touched[s] /\ T \subseteq Targets
    BY DEF Reach, Targets
  <2> HIDE DEF T
  <2>0. \A t \in T : Seen(t) = val[t]
    <3>1. \A f \in Files \ touched[s] : seen[f] = val[f]
      BY <1>1 DEF HistoryInv, SeenOK, SeenStands
    <3> QED
      BY <2>2, <3>1 DEF Seen
  <2>3. \A t \in T \cap DOMAIN step : step[t].before = val[t] /\ step[t].after = val'[t]
    BY <2>0, <2>2
  <2>4. \A t \in T \ DOMAIN step : val'[t] = val[t]
    BY <2>2
  <2>5. Tells(hist[s].sp.net, opened[s].val, val, T)
    BY <2>1, <2>2
  <2>6. Tells(WithNet(hist[s].sp.net, step), opened[s].val, val', T)
    BY <2>3, <2>4, <2>5, NetJoins
  <2> QED
    BY <1>1, <2>1, <2>6
<1> HIDE DEF T
<1> QED
  BY <1>1, PutsHold DEF T

LEMMA ToggleIs ==
    ASSUME NEW h, Shaped(h), NEW was \in BOOLEAN, NEW is \in BOOLEAN
    PROVE  LET g == WithToggle(h, was, is) IN
           /\ Shaped(g)
           /\ was = is => g.sp = h.sp
           /\ was /\ ~is => ~g.sp.here
           /\ ~was /\ is => g.sp.net = <<>>
<1> DEFINE sp == CASE is /\ ~was -> Savepoint(Len(h.past), <<>>, <<>>)
                   [] was /\ ~is -> NoSavepoint
                   [] OTHER -> h.sp
           g == WithToggle(h, was, is)
<1>1. g = [past |-> h.past, future |-> h.future, sp |-> sp]
  BY DEF WithToggle, Shaped
<1>2. ~NoSavepoint.here
  BY DEF NoSavepoint
<1>3. Savepoint(Len(h.past), <<>>, <<>>).net = <<>>
  BY DEF Savepoint
<1>4. was = is => sp = h.sp
  OBVIOUS
<1>5. was /\ ~is => sp = NoSavepoint
  OBVIOUS
<1>6. ~was /\ is => sp = Savepoint(Len(h.past), <<>>, <<>>)
  OBVIOUS
<1> HIDE DEF sp, g
<1>7. Shaped(g) /\ g.sp = sp
  BY <1>1 DEF Shaped
<1>8. was /\ ~is => ~g.sp.here
  BY <1>2, <1>5, <1>7
<1>9. ~was /\ is => g.sp.net = <<>>
  BY <1>3, <1>6, <1>7
<1>10. was = is => g.sp = h.sp
  BY <1>4, <1>7
<1> QED
  BY <1>7, <1>8, <1>9, <1>10 DEF g

LEMMA AppendIs ==
    ASSUME NEW h, NEW step
    PROVE  LET g == AfterAppend(h, step) IN
           Shaped(g) /\ (g.sp.here => h.sp.here /\ g.sp.net = WithNet(h.sp.net, step))
<1> DEFINE all == Append(h.past, step)
           below == IF h.sp.at > Len(h.past) THEN h.sp.at - Len(h.past) ELSE 0
           held == Savepoint(IF h.sp.at < Len(h.past) THEN h.sp.at ELSE Len(h.past),
                             h.sp.net, Redone(h.future, below) \o h.sp.below)
           from == IF h.sp.here THEN held ELSE NoSavepoint
           n == Len(all) - Len(Capped(all))
           past == Capped(all)
           sp == SavepointAfter(from, n, step)
<1>1. AfterAppend(h, step) = [past |-> past, future |-> <<>>, sp |-> sp]
  BY DEF AfterAppend
<1> HIDE DEF from, n
<1>2. sp.here => from.here /\ sp.net = WithNet(from.net, step)
  BY SavepointsKeep
<1>3. held.net = h.sp.net
  BY DEF Savepoint
<1> USE DEF from
<1> HIDE DEF held, past, sp, below
<1>4. from.here => h.sp.here /\ from.net = h.sp.net
  BY <1>3 DEF NoSavepoint
<1> HIDE DEF from
<1> QED
  BY <1>1, <1>2, <1>4 DEF Shaped

LEMMA UndoIs ==
    ASSUME NEW h
    PROVE  LET g == AfterUndo(h)
               step == Reversed(Last(h.past))
           IN  Shaped(g) /\ (g.sp.here => h.sp.here /\ g.sp.net = WithNet(h.sp.net, step))
<1> DEFINE past == Front(h.past)
           future == Capped(Append(h.future, Last(h.past)))
           step == Reversed(Last(h.past))
           sp == SavepointAfter(h.sp, 0, step)
<1>1. AfterUndo(h) = [past |-> past, future |-> future, sp |-> sp]
  BY DEF AfterUndo
<1>2. sp.here => h.sp.here /\ sp.net = WithNet(h.sp.net, step)
  BY SavepointsKeep
<1> HIDE DEF past, future, step, sp
<1> QED
  BY <1>1, <1>2 DEF Shaped, step

LEMMA RedoIs ==
    ASSUME NEW h
    PROVE  LET g == AfterRedo(h)
               step == Last(h.future)
           IN  Shaped(g) /\ (g.sp.here => h.sp.here /\ g.sp.net = WithNet(h.sp.net, step))
<1> DEFINE all == Append(h.past, Last(h.future))
           past == Capped(all)
           future == Front(h.future)
           step == Last(h.future)
           sp == SavepointAfter(h.sp, Len(all) - Len(past), step)
<1>1. AfterRedo(h) = [past |-> past, future |-> future, sp |-> sp]
  BY DEF AfterRedo
<1>2. sp.here => h.sp.here /\ sp.net = WithNet(h.sp.net, step)
  BY SavepointsKeep
<1> HIDE DEF past, future, step, sp
<1> QED
  BY <1>1, <1>2 DEF Shaped, step

-----------------------------------------------------------------------------
(* The actions.                                                            *)

LEMMA ClickHolds == ASSUME HistoryInv, NEW s \in Sessions, Click(s) PROVE HistoryInv'
<1> DEFINE put(g) == Puts(s, WithToggle(g, edit[s], edit'[s]), {})
           step(T, to) == [t \in T |-> [before |-> Seen(t), after |-> to[t]]]
           appended(T, to) == IF T = {} THEN hist[s] ELSE AfterAppend(hist[s], step(T, to))
           lands(T, toggles, to) ==
             /\ TurnEnds
             /\ T # {} \/ toggles
             /\ toggles => s \in Editors
             /\ \A t \in T : to[t] # Seen(t)
             /\ val' = [t \in Targets |-> IF t \in T THEN to[t] ELSE val[t]]
             /\ edit' = [edit EXCEPT ![s] = (@ # toggles)]
             /\ \/ /\ put(appended(T, to))
                   /\ Marks(IF toggles /\ edit'[s] THEN [opened EXCEPT ![s] = MarkNow(s)]
                                                   ELSE opened)
                \/ MayNotSave /\ Unrecorded
<1>0. PICK T \in SUBSET Reach(s), toggles \in BOOLEAN :
        \E to \in [T -> Clicked] : lands(T, toggles, to)
  BY Zenon DEF Click
<1>1. PICK to \in [T -> Clicked] : lands(T, toggles, to)
  BY <1>0
<1> DEFINE st == step(T, to)
           g == appended(T, to)
           h == WithToggle(g, edit[s], edit'[s])
<1>2. edit \in [Sessions -> BOOLEAN] /\ Shaped(hist[s])
  BY DEF HistoryInv
<1>3. /\ edit' \in [Sessions -> BOOLEAN] /\ edit[s] \in BOOLEAN /\ edit'[s] \in BOOLEAN
      /\ toggles => edit'[s] = ~edit[s]
      /\ ~toggles => edit'[s] = edit[s]
  BY <1>1, <1>2
<1>4. T # {} => g = AfterAppend(hist[s], st)
  OBVIOUS
<1>5. T = {} => g = hist[s]
  OBVIOUS
<1>6. /\ DOMAIN st = T
      /\ \A t \in T : st[t].before = Seen(t) /\ st[t].after = to[t]
  OBVIOUS
<1>t. seen # NotRead /\ seen' = NotRead
  BY <1>1 DEF TurnEnds
<1>7. \/ put(g) /\ Marks(IF toggles /\ edit'[s] THEN [opened EXCEPT ![s] = MarkNow(s)]
                                                 ELSE opened)
      \/ Unrecorded
  BY <1>1
<1> HIDE DEF st, g
<1>8. Shaped(g)
      /\ (T # {} => (g.sp.here => hist[s].sp.here /\ g.sp.net = WithNet(hist[s].sp.net, st)))
  BY <1>2, <1>4, <1>5, AppendIs
<1>9. /\ Shaped(h)
      /\ edit[s] = edit'[s] => h.sp = g.sp
      /\ edit[s] /\ ~edit'[s] => ~h.sp.here
      /\ ~edit[s] /\ edit'[s] => h.sp.net = <<>>
  BY <1>3, <1>8, ToggleIs
<1>10. val' = [t \in Targets |-> IF t \in DOMAIN st THEN st[t].after ELSE val[t]]
  BY <1>1, <1>6
<1> DEFINE opens == [opened EXCEPT ![s] = MarkNow(s)]
<1>11. \/ Puts(s, h, {}) /\ Marks(IF toggles /\ edit'[s] THEN opens ELSE opened)
       \/ Unrecorded
  BY <1>7
<1> HIDE DEF h, opens, put
<1>12. CASE Puts(s, h, {}) /\ Marks(IF toggles /\ edit'[s] THEN opens ELSE opened)
  <2>1. CASE toggles /\ edit'[s]
    <3>1. Marks(opens) /\ h.sp.net = <<>>
      BY <1>3, <1>9, <1>12, <2>1
    <3> QED
      BY <1>t, <1>3, <1>9, <1>12, <3>1, OpenHolds DEF opens
  <2>2. CASE toggles /\ ~edit'[s]
    <3>1. Marks(opened) /\ ~h.sp.here
      BY <1>3, <1>9, <1>12, <2>2
    <3> QED
      BY <1>t, <1>3, <1>9, <1>12, <3>1, PutsHold
  <2>3. CASE ~toggles
    <3>1. Marks(opened) /\ h.sp = g.sp /\ T # {}
      BY <1>1, <1>3, <1>9, <1>12, <2>3
    <3>2. h.sp.here => hist[s].sp.here /\ h.sp.net = WithNet(hist[s].sp.net, st)
      BY <1>8, <3>1
    <3> QED
      BY <1>t, <1>3, <1>6, <1>9, <1>10, <1>12, <3>1, <3>2, StepHolds
  <2> QED
    BY <1>3, <2>1, <2>2, <2>3
<1> QED
  BY <1>t, <1>3, <1>11, <1>12, UnrecordedHolds

\* A step that lands, or is found stale, or lands by half, and its session tells.
LEMMA ApplyHolds ==
    ASSUME HistoryInv, NEW s \in Sessions, NEW step, NEW then, Shaped(then),
           then.sp.here => hist[s].sp.here /\ then.sp.net = WithNet(hist[s].sp.net, step),
           Apply(s, step, then), edit' = edit
    PROVE  HistoryInv'
<1> DEFINE stale == {t \in DOMAIN step : Seen(t) # step[t].before}
           again(o) == IF o = NoMark THEN o
                       ELSE [val |-> [t \in Reach(s) |-> IF t \in stale THEN val[t] ELSE o.val[t]],
                             past |-> Without(o.past, stale)]
           mark == [opened EXCEPT ![s] = again(@)]
           h == Dropped(hist[s], stale)
<1>0. edit' \in [Sessions -> BOOLEAN]
  BY DEF HistoryInv
<1>t. seen # NotRead /\ seen' = NotRead
  BY DEF Apply, TurnEnds
<1>1. \/ stale # {} /\ val' = val /\ Puts(s, h, stale) /\ Marks(mark)
      \/ stale = {} /\ Written(step) /\ Puts(s, then, {}) /\ Marks(opened)
      \/ Unrecorded
  BY DEF Apply, Fails
<1>2. CASE stale = {} /\ Written(step) /\ Puts(s, then, {}) /\ Marks(opened)
  <2>1. \A t \in DOMAIN step : step[t].before = Seen(t)
    BY <1>2
  <2> QED
    BY <1>0, <1>t, <1>2, <2>1, StepHolds DEF Written
<1>3. CASE val' = val /\ Puts(s, h, stale) /\ Marks(mark)
  <2>1. opened = [x \in Sessions |-> opened[x]]
    BY DEF HistoryInv
  <2>2. mark[s] = again(opened[s]) /\ \A x \in Sessions \ {s} : mark[x] = opened[x]
    BY <2>1
  <2> DEFINE was == opened[s].val
             found == [t \in Reach(s) |-> IF t \in stale THEN val[t] ELSE was[t]]
             T == Reach(s) \ (touched[s] \ stale)
             stack == hist[s].past \o Reverse(hist[s].future)
             n == IF hist[s].sp.at < Len(stack) THEN hist[s].sp.at ELSE Len(stack)
             at == Len(Without(SubSeq(stack, 1, n), stale))
             net == Spared(hist[s].sp.net, stale)
             below == Without(hist[s].sp.below, stale)
             sp == IF ~hist[s].sp.here THEN NoSavepoint ELSE Savepoint(at, net, below)
             past == Without(hist[s].past, stale)
             future == Without(hist[s].future, stale)
  <2>3. h = [past |-> past, future |-> future, sp |-> sp]
    BY DEF Dropped
  <2>4. sp.here => hist[s].sp.here /\ sp.net = net
    <3> HIDE DEF at, net, below
    <3> QED
      BY DEF Savepoint, NoSavepoint
  <2>5. Shaped(h) /\ h.sp = sp
    <3> HIDE DEF past, future, sp, h
    <3> QED
      BY <2>3 DEF Shaped
  <2> HIDE DEF h, sp
  <2>6. ASSUME hist[s].sp.here
        PROVE  Tells(net, mark[s].val, val', T) /\ DOMAIN mark[s].val = Reach(s)
    <3>1. Tells(hist[s].sp.net, was, val, Reach(s) \ touched[s]) /\ DOMAIN was = Reach(s)
      BY <2>6 DEF HistoryInv, SessionTold
    <3>2. CASE opened[s] = NoMark
      <4>1. was = <<>>
        BY <3>2 DEF NoMark
      <4>2. DOMAIN <<>> = {}
        OBVIOUS
      <4>3. Reach(s) = {}
        BY <3>1, <4>1, <4>2
      <4>4. mark[s] = opened[s]
        BY <2>2, <3>2
      <4> HIDE DEF net, mark, stale
      <4> QED
        BY <3>1, <4>3, <4>4 DEF Tells
    <3>3. CASE opened[s] # NoMark
      <4>1. mark[s].val = found
        <5> DEFINE p == Without(opened[s].past, stale)
        <5> HIDE DEF found, p
        <5>1. again(opened[s]) = [val |-> found, past |-> p]
          BY <3>3 DEF found, p
        <5> HIDE DEF again, mark
        <5> QED
          BY <2>2, <5>1
      <4>2. \A t \in T \cap stale : found[t] = val[t]
        OBVIOUS
      <4>3. \A t \in T \ stale : found[t] = was[t]
        OBVIOUS
      <4>4. T \ stale \subseteq Reach(s) \ touched[s]
        OBVIOUS
      <4>5. DOMAIN found = Reach(s)
        OBVIOUS
      <4> HIDE DEF found, T, stale, mark
      <4>6. Tells(hist[s].sp.net, was, val, T \ stale)
        BY <3>1, <4>4, FewerTold
      <4>7. Tells(net, found, val, T)
        BY <4>2, <4>3, <4>6, SparedTells
      <4> QED
        BY <1>3, <4>1, <4>5, <4>7
    <3> QED
      BY <3>2, <3>3
  <2> HIDE DEF stale, mark, net
  <2>7. h.sp.here => /\ Tells(h.sp.net, mark[s].val, val', T)
                     /\ DOMAIN mark[s].val = Reach(s)
    BY <2>4, <2>5, <2>6
  <2> QED
    BY <1>0, <1>t, <1>3, <2>2, <2>5, <2>7, PutsHold
<1> QED
  BY <1>0, <1>t, <1>1, <1>2, <1>3, UnrecordedHolds

LEMMA UndoHolds == ASSUME HistoryInv, NEW s \in Sessions, Undo(s) PROVE HistoryInv'
BY UndoIs, ApplyHolds DEF Undo

LEMMA RedoHolds == ASSUME HistoryInv, NEW s \in Sessions, Redo(s) PROVE HistoryInv'
BY RedoIs, ApplyHolds DEF Redo

LEMMA RewindHolds == ASSUME HistoryInv, NEW s \in Sessions, Rewind(s) PROVE HistoryInv'
<1> DEFINE g == hist[s]
           stale == {t \in DOMAIN g.sp.net : Seen(t) # g.sp.net[t].after}
           past == Capped(Without(PastAt(g), stale))
           sp == Savepoint(Len(past), <<>>, <<>>)
           h == [past |-> past, future |-> <<>>, sp |-> sp]
<1>1. edit' \in [Sessions -> BOOLEAN]
  BY DEF HistoryInv, Rewind
<1>2. \/ Puts(s, h, stale) /\ Marks([opened EXCEPT ![s] = MarkNow(s)])
      \/ Unrecorded
  BY DEF Rewind, Fails
<1>t. seen' = NotRead
  BY DEF Rewind, TurnEnds
<1>3. sp.net = <<>>
  BY DEF Savepoint
<1>4. Shaped(h) /\ h.sp = sp
  <2> HIDE DEF past, sp
  <2> QED
    BY DEF Shaped
<1> HIDE DEF h, sp, stale
<1> QED
  BY <1>t, <1>1, <1>2, <1>3, <1>4, OpenHolds, UnrecordedHolds

LEMMA HandEditHolds == ASSUME HistoryInv, NEW f \in Files, HandEdit(f) PROVE HistoryInv'
BY UnrecordedHolds DEF HandEdit, HistoryInv

LEMMA TakeUpHolds == ASSUME HistoryInv, TakeUp PROVE HistoryInv'
<1>1. edit' \in [Sessions -> BOOLEAN] /\ Unrecorded
  <2>1. PICK older \in [Picks -> Clicked], was \in [Editors -> BOOLEAN] :
          edit' = [s \in Sessions |-> s \in Editors /\ was[s]]
    BY DEF TakeUp
  <2> QED
    BY <2>1 DEF TakeUp
<1> QED
  BY <1>1, UnrecordedHolds DEF TakeUp

LEMMA ReadsHold == ASSUME HistoryInv, Reads PROVE HistoryInv'
<1>1. UNCHANGED <<val, edit, hist, order, opened, touched, upsets>>
  BY DEF Reads
<1>2. \A f \in Files : seen'[f] = val[f]
  BY DEF Reads, Restrict
<1> QED
  BY <1>1, <1>2 DEF HistoryInv, SessionTold, Tells, Reach, SeenOK, SeenStands

LEMMA HistoryInits == HistoryInit => HistoryInv
<1> SUFFICES ASSUME HistoryInit PROVE HistoryInv
  OBVIOUS
<1>1. edit \in [Sessions -> BOOLEAN]
  BY DEF HistoryInit
<1>2. Shaped(NoHistory) /\ ~NoHistory.sp.here
  BY DEF Shaped, NoHistory, NoSavepoint
<1> QED
  BY <1>1, <1>2 DEF HistoryInit, HistoryInv, SessionTold, SeenOK

LEMMA HistorySteps == HistoryInv /\ [HistoryNext]_historyVars => HistoryInv'
<1> SUFFICES ASSUME HistoryInv, [HistoryNext]_historyVars PROVE HistoryInv'
  OBVIOUS
<1>1. CASE UNCHANGED historyVars
  BY <1>1 DEF historyVars, HistoryInv, SessionTold, Tells, Reach, SeenOK, SeenStands
<1>2. CASE HistoryNext
  BY <1>2, ReadsHold, ClickHolds, UndoHolds, RedoHolds, RewindHolds, HandEditHolds, TakeUpHolds
  DEF HistoryNext
<1> QED
  BY <1>1, <1>2

\* While edit mode is open the net change names exactly the targets that differ
\* from when it opened, whatever every session, hand edit and new daemon did since.
THEOREM NetTellsAlways == HistorySpec => []NetTellsTheDifference
<1>1. HistoryInv => NetTellsTheDifference
  BY DEF HistoryInv, SessionTold, Tells, NetTellsTheDifference
<1> QED
  BY <1>1, HistoryInits, HistorySteps, PTL DEF HistorySpec

\* Cancel gives a session back every value edit mode found, but for what something
\* else changed.
GivesBack(s) == \A t \in Reach(s) \ touched[s] : val'[t] = opened[s].val[t]

LEMMA RewindGivesBack ==
    ASSUME HistoryInv, NEW s \in Sessions, hist' # hist, Rewind(s) PROVE GivesBack(s)
<1> DEFINE net == hist[s].sp.net
           was == opened[s].val
           stale == {t \in DOMAIN net : Seen(t) # net[t].after}
           back == Reversed(Spared(net, stale))
<1>1. /\ hist[s].sp.here
      /\ val' = [t \in Targets |-> IF t \in DOMAIN back THEN back[t].after ELSE val[t]]
  BY DEF Rewind, Fails, Written, Unrecorded
<1>s. \A t \in Reach(s) \ touched[s] : Seen(t) = val[t]
  BY <1>1 DEF HistoryInv, SeenOK, SeenStands, Seen, Rewind, TurnEnds
<1>2. Tells(net, was, val, Reach(s) \ touched[s])
  BY <1>1 DEF HistoryInv, SessionTold
<1>3. /\ DOMAIN back = DOMAIN net \ stale
      /\ \A t \in DOMAIN net \ stale : back[t].after = net[t].before
  BY DEF Reversed, Spared, Restrict
<1>4. ASSUME NEW t \in Reach(s) \ touched[s] PROVE val'[t] = was[t]
  <2>1. t \in Targets
    BY DEF Reach, Targets
  <2>2. CASE val[t] = was[t]
    <3>1. t \notin DOMAIN net
      BY <1>2, <2>2 DEF Tells
    <3> HIDE DEF back
    <3> QED
      BY <1>1, <1>3, <2>1, <2>2, <3>1
  <2>3. CASE val[t] # was[t]
    <3>1. t \in DOMAIN net /\ net[t] = [before |-> was[t], after |-> val[t]]
      BY <1>2, <2>3 DEF Tells
    <3>2. t \in DOMAIN net \ stale /\ net[t].before = was[t]
      BY <1>s, <3>1
    <3> HIDE DEF back, net, stale
    <3> QED
      BY <1>1, <1>3, <2>1, <3>2
  <2> QED
    BY <2>2, <2>3
<1> QED
  BY <1>4 DEF GivesBack

THEOREM CancelGivesBack ==
    HistorySpec => [][\A s \in Sessions : hist' # hist /\ Rewind(s) => GivesBack(s)]_historyVars
<1>1. HistoryInv => [\A s \in Sessions : hist' # hist /\ Rewind(s) => GivesBack(s)]_historyVars
  BY RewindGivesBack
<1> QED
  BY <1>1, HistoryInits, HistorySteps, PTL DEF HistorySpec

=============================================================================
