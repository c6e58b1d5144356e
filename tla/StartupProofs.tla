--------------------------- MODULE StartupProofs ---------------------------
(***************************************************************************)
(* Proofs about how a daemon comes to be: who serves on the socket path,   *)
(* for any daemons, pids and inodes (SocketOwnership), and who spawns one, *)
(* for any clients and thresholds (SpawnKick).                             *)
(*                                                                         *)
(* The socket.  A pid names one live process at a time (Numbered).  A      *)
(* lease is by a daemon that has lived, and while that one lives it has    *)
(* the lease's pid (Signed), and so has the copy a reclaimer read          *)
(* (Remembered).  Then neither `ps` nor kill can tell a reclaimer that a   *)
(* live writer is gone, and two daemons whose checks pass have one pid, so *)
(* are one.                                                                *)
(*                                                                         *)
(* The spawn lock.  A kick that holds it is past its acquisition and not   *)
(* over, and lets go of it only with its file: clients that live never     *)
(* leave it behind.                                                        *)
(***************************************************************************)
EXTENDS SocketOwnership, SpawnKick, TLAPS

\* A live daemon has a pid, no other live daemon's and no stranger's.
Numbered ==
    \A d \in Daemons : Alive(d) =>
        /\ proc[d].pid \in Pids \ strangers
        /\ \A e \in Daemons : Alive(e) /\ proc[e].pid = proc[d].pid => e = d

\* A lease is by a daemon that lives with its pid, or has died.
SignedBy(l) ==
    l.kind = "owned" =>
        /\ proc[l.by].phase # "off"
        /\ Alive(l.by) => proc[l.by].pid = l.pid
        /\ l.start \in {l.by, Unknown}

Signed == SignedBy(lease)

Remembered == \A d \in Daemons : SignedBy(proc[d].seen)

\* Who reads the process table read a lease, one with a start for `ps`.
Asking ==
    \A d \in Daemons :
        /\ proc[d].phase \in {"probing", "signalling"} => proc[d].seen.kind = "owned"
        /\ proc[d].phase = "probing" => proc[d].seen.start # Unknown

\* A live daemon's start is its own, or was not given.
Dated == \A d \in Daemons : proc[d].start \in {d, Unknown}

IInv == TypeOK /\ Numbered /\ Signed /\ Remembered /\ Asking /\ Dated
        /\ ReclaimsOnlyTheDead

-----------------------------------------------------------------------------
\* What a lease is, for the steps that copy one.
LEMMA LeaseFields ==
    ASSUME NEW l \in Leases, l.kind = "owned"
    PROVE  l.by \in Daemons /\ l.pid \in Pids
  BY DEF Leases, NoLease

\* The blank record of a process not running.
LEMMA BlankIsProc ==
    ASSUME NEW ph \in Phases
    PROVE  /\ Blank(ph) \in Procs
           /\ Blank(ph).phase = ph /\ Blank(ph).seen = NoLease
           /\ Blank(ph).start = Unknown
  BY DEF Blank, Procs, Leases, NoLease, Absent

-----------------------------------------------------------------------------
\* What one daemon's move keeps for all: its process goes on with its pid, or
\* has ended for good.
GoesOn(d, r) ==
    /\ r \in Procs /\ r.start \in {d, Unknown}
    /\ \/ r.phase \in {"gone", "killed"}
       \/ Alive(d) /\ r.phase \notin Lifeless /\ r.pid = proc[d].pid

\* Pids stay one live process's, leases stay signed, and the dead stay dead.
LEMMA MoveKeeps ==
    ASSUME IInv, NEW d \in Daemons, NEW r, GoesOn(d, r),
           proc' = [proc EXCEPT ![d] = r], strangers' = strangers
    PROVE  /\ proc' \in [Daemons -> Procs]
           /\ Numbered' /\ Dated'
           /\ \A l \in Leases : SignedBy(l) => SignedBy(l)'
           /\ \A e \in Daemons : ~Alive(e) /\ proc[e].phase # "off"
                                => ~Alive(e)' /\ proc'[e].phase # "off"
  <1>1. proc \in [Daemons -> Procs]
    BY DEF IInv, TypeOK
  <1>2. /\ proc'[d] = r
        /\ \A e \in Daemons \ {d} : proc'[e] = proc[e]
        /\ proc' \in [Daemons -> Procs]
    BY <1>1 DEF GoesOn
  <1>3. \A e \in Daemons : /\ Alive(e)' => Alive(e) /\ proc'[e].pid = proc[e].pid
                           /\ proc[e].phase # "off" => proc'[e].phase # "off"
    BY <1>2 DEF GoesOn, Alive, Lifeless
  <1>4. Numbered'
    BY <1>3 DEF Numbered, IInv
  <1>5. Dated'
    BY <1>2 DEF Dated, GoesOn, IInv
  <1>6. ASSUME NEW l \in Leases, SignedBy(l) PROVE SignedBy(l)'
    <2>1. CASE l.kind # "owned"
      BY <2>1 DEF SignedBy
    <2>2. CASE l.kind = "owned"
      <3>1. l.by \in Daemons
        BY <2>2, LeaseFields
      <3>2. QED
        BY <1>3, <1>6, <2>2, <3>1 DEF SignedBy
    <2>3. QED
      BY <2>1, <2>2
  <1>7. QED
    BY <1>2, <1>3, <1>4, <1>5, <1>6 DEF Alive

\* It remembers what it read, and asks and reclaims only as that allows.
Recalls(d, r) ==
    /\ r.seen \in {proc[d].seen, lease, NoLease}
    /\ r.phase \in {"probing", "signalling"} => r.seen.kind = "owned"
    /\ r.phase = "probing" => r.seen.start # Unknown
    /\ r.phase \in {"reclaiming", "rebinding"} /\ r.seen.kind = "owned"
         => ~Alive(r.seen.by)

\* A move that keeps what the reclaimer remembers, or drops it, keeps all that
\* is said of reclaimers, provided it asks and reclaims only as it may.
LEMMA MoveRemembers ==
    ASSUME IInv, NEW d \in Daemons, NEW r, GoesOn(d, r),
           proc' = [proc EXCEPT ![d] = r], strangers' = strangers,
           Recalls(d, r)
    PROVE  Remembered' /\ Asking' /\ ReclaimsOnlyTheDead'
  <1>1. /\ proc \in [Daemons -> Procs] /\ lease \in Leases /\ NoLease \in Leases
        /\ \A e \in Daemons : proc[e].seen \in Leases
    BY DEF IInv, TypeOK, Procs, Leases
  <1>2. proc'[d] = r /\ \A e \in Daemons \ {d} : proc'[e] = proc[e]
    BY <1>1
  <1>3. SignedBy(lease) /\ SignedBy(NoLease) /\ \A e \in Daemons : SignedBy(proc[e].seen)
    BY DEF IInv, Signed, Remembered, SignedBy, NoLease
  <1>4. SignedBy(r.seen) /\ r.seen \in Leases
    BY <1>1, <1>3 DEF Recalls
  <1>5. \A l \in Leases : SignedBy(l) => SignedBy(l)'
    BY MoveKeeps
  <1>6. Remembered'
    <2>1. SUFFICES ASSUME NEW e \in Daemons PROVE SignedBy(proc[e].seen)'
      BY DEF Remembered
    <2>2. PICK l \in Leases : l = proc'[e].seen /\ SignedBy(l)
      BY <1>1, <1>2, <1>3, <1>4
    <2>3. SignedBy(l)'
      BY <1>5, <2>2
    <2>4. QED
      BY <2>2, <2>3 DEF SignedBy
  <1>7. Asking'
    BY <1>2 DEF Asking, IInv, Recalls
  <1>8. ReclaimsOnlyTheDead'
    <2>1. SUFFICES ASSUME NEW e \in Daemons,
                          (proc[e].phase \in {"reclaiming", "rebinding"})',
                          (proc[e].seen.kind = "owned")'
                   PROVE  (~Alive(proc[e].seen.by))'
      BY DEF ReclaimsOnlyTheDead
    <2>2. PICK l \in Leases : l = proc'[e].seen /\ SignedBy(l)
      BY <1>1, <1>2, <1>3, <1>4
    <2>3. l.kind = "owned" /\ l.by \in Daemons
      BY <2>1, <2>2, LeaseFields
    <2>4. ~Alive(l.by) /\ proc[l.by].phase # "off"
      BY <1>2, <2>1, <2>2, <2>3 DEF ReclaimsOnlyTheDead, IInv, SignedBy, Recalls
    <2>5. ~Alive(l.by)'
      BY <2>3, <2>4, MoveKeeps
    <2>6. QED
      BY <2>2, <2>5 DEF Alive
  <1>9. QED
    BY <1>6, <1>7, <1>8

-----------------------------------------------------------------------------
\* What every step but a lease's write shows: all of IInv, if the path stays
\* typed and the lease stays or goes.
StepKeeps == /\ proc' \in [Daemons -> Procs] /\ strangers' \subseteq Pids
             /\ Numbered' /\ Remembered' /\ Asking' /\ Dated'
             /\ ReclaimsOnlyTheDead'
             /\ \A l \in Leases : SignedBy(l) => SignedBy(l)'

\* A daemon's process ends, at an exit or a kill.
LEMMA EndKeeps ==
    ASSUME IInv, NEW d \in Daemons, NEW ph \in {"gone", "killed"},
           proc' = [proc EXCEPT ![d] = Blank(ph)], strangers' = strangers
    PROVE  StepKeeps
  <1>1. /\ Blank(ph) \in Procs /\ Blank(ph).phase = ph
        /\ Blank(ph).seen = NoLease /\ Blank(ph).start = Unknown
    BY BlankIsProc DEF Phases, Lifeless
  <1>2. GoesOn(d, Blank(ph))
    BY <1>1 DEF GoesOn
  <1>r. Recalls(d, Blank(ph))
    BY <1>1 DEF Recalls
  <1>3. Remembered' /\ Asking' /\ ReclaimsOnlyTheDead'
    BY <1>r, <1>2, MoveRemembers
  <1>4. /\ proc' \in [Daemons -> Procs]
        /\ Numbered' /\ Dated'
        /\ \A l \in Leases : SignedBy(l) => SignedBy(l)'
    BY <1>2, MoveKeeps
  <1>5. strangers' \subseteq Pids
    BY DEF IInv, TypeOK
  <1>6. QED
    BY <1>3, <1>4, <1>5 DEF StepKeeps

\* A live daemon goes on to another phase, with all it read kept.
LEMMA TurnKeeps ==
    ASSUME IInv, NEW d \in Daemons, Alive(d), NEW to \in Phases \ Lifeless,
           proc' = [proc EXCEPT ![d].phase = to], strangers' = strangers,
           to # "probing",
           to = "signalling" => proc[d].seen.kind = "owned",
           to \in {"reclaiming", "rebinding"} /\ proc[d].seen.kind = "owned"
             => ~Alive(proc[d].seen.by)
    PROVE  StepKeeps
  <1> DEFINE r == [proc[d] EXCEPT !.phase = to]
  <1>1. proc[d] \in Procs /\ proc[d].start \in {d, Unknown}
    BY DEF IInv, TypeOK, Dated
  <1>2. r \in Procs /\ r.phase = to /\ r.seen = proc[d].seen
        /\ r.pid = proc[d].pid /\ r.start = proc[d].start
    BY <1>1 DEF Procs
  <1>3. proc' = [proc EXCEPT ![d] = r]
    BY <1>1 DEF IInv, TypeOK
  <1>4. GoesOn(d, r)
    BY <1>1, <1>2 DEF GoesOn
  <1>r. Recalls(d, r)
    BY <1>2 DEF Recalls
  <1> HIDE DEF r
  <1>5. Remembered' /\ Asking' /\ ReclaimsOnlyTheDead'
    BY <1>3, <1>4, <1>r, MoveRemembers
  <1>6. /\ proc' \in [Daemons -> Procs]
        /\ Numbered' /\ Dated'
        /\ \A l \in Leases : SignedBy(l) => SignedBy(l)'
    BY <1>3, <1>4, MoveKeeps
  <1>7. strangers' \subseteq Pids
    BY DEF IInv, TypeOK
  <1>8. QED
    BY <1>5, <1>6, <1>7 DEF StepKeeps

\* What is left to show once StepKeeps is: the path's type, and the lease.
LEMMA StepSuffices ==
    ASSUME IInv, StepKeeps, path' \in Inodes \cup {Absent},
           lease' \in {lease, NoLease}
    PROVE  IInv'
  <1>1. lease' \in Leases
    BY DEF IInv, TypeOK, Leases
  <1>2. Signed'
    <2>1. CASE lease' = lease
      BY <2>1 DEF StepKeeps, IInv, TypeOK, Signed, SignedBy
    <2>2. CASE lease' = NoLease
      BY <2>2 DEF Signed, SignedBy, NoLease
    <2>3. QED
      BY <2>1, <2>2
  <1>3. QED
    BY <1>1, <1>2 DEF IInv, StepKeeps, TypeOK

-----------------------------------------------------------------------------
\* A live writer's pid is in use, by it.
LEMMA WriterIsFound ==
    ASSUME IInv, NEW l \in Leases, SignedBy(l), l.kind = "owned", Alive(l.by)
    PROVE  InUse(l.pid) /\ StartOf(l.pid) = l.by /\ l.pid \notin strangers
  <1>1. l.by \in Daemons /\ proc[l.by].pid = l.pid
    BY LeaseFields DEF SignedBy
  <1>2. \A e \in Daemons : Alive(e) /\ proc[e].pid = l.pid => e = l.by
    BY <1>1 DEF IInv, Numbered
  <1>3. l.pid \notin strangers
    BY <1>1 DEF IInv, Numbered
  <1>4. QED
    BY <1>1, <1>2, <1>3 DEF InUse, StartOf

\* A spawned daemon takes a pid nobody has.
LEMMA StartKeeps ==
    ASSUME IInv, NEW d \in Daemons, Start(d)
    PROVE  IInv'
  <1>1. PICK p \in {q \in Pids : ~InUse(q)}, s \in {d, Unknown} :
          proc' = [proc EXCEPT ![d] = [Blank("binding") EXCEPT !.pid = p,
                                                               !.start = s]]
    BY DEF Start
  <1> DEFINE r == [Blank("binding") EXCEPT !.pid = p, !.start = s]
  <1>2. /\ proc[d].phase = "off" /\ strangers' = strangers
        /\ path' = path /\ lease' = lease
    BY DEF Start
  <1>3. /\ r \in Procs /\ r.phase = "binding" /\ r.seen = NoLease
        /\ r.pid = p /\ r.start = s
    BY DEF Blank, Procs, Phases, Lifeless, Leases, Absent
  <1>4. proc \in [Daemons -> Procs]
    BY DEF IInv, TypeOK
  <1>5. /\ proc' \in [Daemons -> Procs] /\ proc'[d] = r
        /\ \A e \in Daemons \ {d} : proc'[e] = proc[e]
    BY <1>1, <1>3, <1>4
  <1> HIDE DEF r
  <1>6. Numbered'
    BY <1>2, <1>3, <1>5 DEF IInv, Numbered, InUse, Alive, Lifeless
  <1>7. \A l \in Leases : SignedBy(l) => SignedBy(l)'
    <2>1. SUFFICES ASSUME NEW l \in Leases, SignedBy(l), l.kind = "owned"
                   PROVE  SignedBy(l)'
      BY DEF SignedBy
    <2>2. l.by \in Daemons \ {d}
      BY <1>2, <2>1, LeaseFields DEF SignedBy
    <2>3. QED
      BY <1>5, <2>1, <2>2 DEF SignedBy, Alive
  <1>8. \A e \in Daemons : \E l \in Leases : l = proc'[e].seen /\ SignedBy(l)
    BY <1>3, <1>4, <1>5 DEF IInv, Remembered, Procs, SignedBy, NoLease, Leases
  <1>9. Remembered'
    <2>1. SUFFICES ASSUME NEW e \in Daemons PROVE SignedBy(proc[e].seen)'
      BY DEF Remembered
    <2>2. PICK l \in Leases : l = proc'[e].seen /\ SignedBy(l)
      BY <1>8
    <2>3. QED
      BY <1>7, <2>2 DEF SignedBy
  <1>10. Asking' /\ Dated'
    BY <1>1, <1>3, <1>5 DEF IInv, Asking, Dated
  <1>11. ReclaimsOnlyTheDead'
    <2>1. SUFFICES ASSUME NEW e \in Daemons,
                          (proc[e].phase \in {"reclaiming", "rebinding"})',
                          (proc[e].seen.kind = "owned")'
                   PROVE  (~Alive(proc[e].seen.by))'
      BY DEF ReclaimsOnlyTheDead
    <2>2. e # d /\ proc'[e] = proc[e]
      BY <1>3, <1>5, <2>1
    <2>3. PICK l \in Leases : l = proc[e].seen /\ SignedBy(l)
      BY <1>4, <2>2 DEF IInv, Remembered, Procs
    <2>4. l.by \in Daemons /\ ~Alive(l.by) /\ l.by # d
      BY <1>2, <2>1, <2>2, <2>3, LeaseFields DEF IInv, ReclaimsOnlyTheDead, SignedBy
    <2>5. QED
      BY <1>5, <2>2, <2>3, <2>4 DEF Alive
  <1>12. StepKeeps
    BY <1>2, <1>5, <1>6, <1>7, <1>9, <1>10, <1>11 DEF StepKeeps, IInv, TypeOK
  <1>13. QED
    BY <1>2, <1>12, StepSuffices DEF IInv, TypeOK

-----------------------------------------------------------------------------
\* A lease the daemon read whose writer lives is never reclaimed from.
LEMMA ProbeKeeps ==
    ASSUME IInv, NEW d \in Daemons, Probe(d)
    PROVE  StepKeeps
  <1>1. PICK l \in Leases : l = proc[d].seen /\ SignedBy(l)
    BY DEF IInv, Remembered, TypeOK, Procs
  <1>2. /\ proc[d].phase = "probing" /\ Alive(d)
        /\ l.kind = "owned" /\ l.start = l.by /\ l.by \in Daemons
        /\ strangers' = strangers
    BY <1>1, LeaseFields DEF Probe, IInv, Asking, Alive, Lifeless, SignedBy
  <1>3. PICK s \in StartTimes(l.pid) :
          \/ s = Unknown /\ Turn(d, "probing", "signalling")
          \/ s \notin {Unknown, l.start} /\ Turn(d, "probing", "reclaiming")
          \/ s = l.start /\ Ends(d)
    BY <1>1 DEF Probe
  <1>4. CASE s = Unknown /\ Turn(d, "probing", "signalling")
    BY <1>1, <1>2, <1>4, TurnKeeps DEF Turn, Phases, Lifeless
  <1>5. CASE s \notin {Unknown, l.start} /\ Turn(d, "probing", "reclaiming")
    <2>1. s = StartOf(l.pid)
      BY <1>3, <1>5 DEF StartTimes
    <2>2. ~Alive(l.by)
      BY <1>1, <1>2, <1>5, <2>1, WriterIsFound
    <2>3. QED
      BY <1>1, <1>2, <1>5, <2>2, TurnKeeps DEF Turn, Phases, Lifeless
  <1>6. CASE s = l.start /\ Ends(d)
    BY <1>2, <1>6, EndKeeps DEF Ends
  <1>7. QED
    BY <1>3, <1>4, <1>5, <1>6

LEMMA SignalKeeps ==
    ASSUME IInv, NEW d \in Daemons, Signal(d)
    PROVE  StepKeeps
  <1>1. PICK l \in Leases : l = proc[d].seen /\ SignedBy(l)
    BY DEF IInv, Remembered, TypeOK, Procs
  <1>2. /\ proc[d].phase = "signalling" /\ Alive(d) /\ l.kind = "owned"
        /\ strangers' = strangers
    BY <1>1 DEF Signal, IInv, Asking, Alive, Lifeless
  <1>3. CASE Ends(d)
    BY <1>2, <1>3, EndKeeps DEF Ends
  <1>4. CASE ~InUse(l.pid) /\ Turn(d, "signalling", "reclaiming")
    <2>1. ~Alive(l.by)
      BY <1>1, <1>2, <1>4, WriterIsFound
    <2>2. QED
      BY <1>1, <1>2, <1>4, <2>1, TurnKeeps DEF Turn, Phases, Lifeless
  <1>5. QED
    BY <1>1, <1>3, <1>4 DEF Signal

\* The read of the lease: what the reclaimer remembers is signed.
LEMMA ReadKeeps ==
    ASSUME IInv, NEW d \in Daemons, ReadLease(d)
    PROVE  StepKeeps
  <1> DEFINE to == IF lease.kind # "owned" THEN "reclaiming"
                   ELSE IF lease.start = Unknown THEN "signalling" ELSE "probing"
             r == [proc[d] EXCEPT !.seen = lease, !.phase = to]
  <1>1. /\ proc \in [Daemons -> Procs] /\ proc[d] \in Procs
        /\ proc[d].start \in {d, Unknown} /\ lease \in Leases
        /\ Alive(d) /\ strangers' = strangers
    BY DEF IInv, TypeOK, Dated, ReadLease, Alive, Lifeless
  <1>2. /\ r \in Procs /\ r.phase = to /\ r.seen = lease
        /\ r.pid = proc[d].pid /\ r.start = proc[d].start
    BY <1>1 DEF Procs, Phases, Lifeless
  <1>3. proc' = [proc EXCEPT ![d] = r]
    BY <1>1 DEF ReadLease
  <1>4. GoesOn(d, r)
    BY <1>1, <1>2 DEF GoesOn, Lifeless
  <1>5. Recalls(d, r)
    BY <1>2 DEF Recalls
  <1> HIDE DEF r, to
  <1>6. Remembered' /\ Asking' /\ ReclaimsOnlyTheDead'
    BY <1>1, <1>3, <1>4, <1>5, MoveRemembers
  <1>7. /\ proc' \in [Daemons -> Procs]
        /\ Numbered' /\ Dated'
        /\ \A l \in Leases : SignedBy(l) => SignedBy(l)'
    BY <1>1, <1>3, <1>4, MoveKeeps
  <1>8. QED
    BY <1>1, <1>6, <1>7 DEF StepKeeps, IInv, TypeOK

\* The bind and its callback set what the process listens on or took for its
\* own, which no lease speaks of.
LEMMA BindKeeps ==
    ASSUME IInv, NEW d \in Daemons, Bind(d) \/ Listening(d)
    PROVE  StepKeeps
  <1>1. /\ proc \in [Daemons -> Procs] /\ proc[d] \in Procs
        /\ proc[d].start \in {d, Unknown} /\ path \in Inodes \cup {Absent}
        /\ Alive(d) /\ strangers' = strangers
    BY DEF IInv, TypeOK, Dated, Bind, Listening, Alive, Lifeless
  <1>2. PICK r \in Procs :
          /\ proc' = [proc EXCEPT ![d] = r]
          /\ r.phase \in {"bound", "closing", "claiming"} /\ r.seen = proc[d].seen
          /\ r.pid = proc[d].pid /\ r.start = proc[d].start
    <2>1. CASE Bind(d)
      <3>1. PICK i \in Inodes :
              proc' = [proc EXCEPT ![d].phase = "bound", ![d].listens = i]
        BY <2>1 DEF Bind, FreeInodes
      <3>2. [proc[d] EXCEPT !.phase = "bound", !.listens = i] \in Procs
        BY <1>1 DEF Procs, Phases
      <3>3. QED
        BY <1>1, <3>1, <3>2 DEF Procs
    <2>2. CASE Listening(d)
      <3>1. [proc[d] EXCEPT !.phase = "closing"] \in Procs
        BY <1>1 DEF Procs, Phases
      <3>2. [proc[d] EXCEPT !.phase = "claiming", !.bound = path] \in Procs
        BY <1>1 DEF Procs, Phases
      <3>3. QED
        BY <1>1, <2>2, <3>1, <3>2 DEF Listening, Procs
    <2>3. QED
      BY <2>1, <2>2
  <1>3. GoesOn(d, r)
    BY <1>1, <1>2 DEF GoesOn, Lifeless
  <1>r. Recalls(d, r)
    BY <1>1, <1>2 DEF Recalls
  <1>4. Remembered' /\ Asking' /\ ReclaimsOnlyTheDead'
    BY <1>1, <1>2, <1>3, <1>r, MoveRemembers
  <1>5. /\ proc' \in [Daemons -> Procs]
        /\ Numbered' /\ Dated'
        /\ \A l \in Leases : SignedBy(l) => SignedBy(l)'
    BY <1>1, <1>2, <1>3, MoveKeeps
  <1>6. QED
    BY <1>1, <1>4, <1>5 DEF StepKeeps, IInv, TypeOK

-----------------------------------------------------------------------------
\* The phases an action ends in are phases of a live process.
LEMMA PlainTurnKeeps ==
    ASSUME IInv, NEW d \in Daemons,
           \/ AddressInUse(d) \/ Unlink(d) \/ Check(d) \/ Stop(d)
           \/ ReadOwnLease(d)
    PROVE  StepKeeps
  <1>1. CASE Ends(d) /\ strangers' = strangers
    BY <1>1, EndKeeps DEF Ends
  <1>2. CASE Turn(d, "binding", "inUse") /\ strangers' = strangers
    BY <1>2, TurnKeeps DEF Turn, Alive, Phases, Lifeless
  <1>3. CASE Unlink(d)
    BY <1>3, TurnKeeps DEF Unlink, Turn, Alive, Phases, Lifeless, IInv, ReclaimsOnlyTheDead
  <1>4. CASE Check(d)
    BY <1>4, TurnKeeps DEF Check, Turn, Alive, Phases, Lifeless
  <1>5. CASE Stop(d)
    BY <1>5, TurnKeeps DEF Stop, Phases, Lifeless
  <1>6. CASE Turn(d, "closing", "removing") /\ strangers' = strangers
    BY <1>6, TurnKeeps DEF Turn, Alive, Phases, Lifeless
  <1>7. QED
    BY <1>1, <1>2, <1>3, <1>4, <1>5, <1>6 DEF AddressInUse, ReadOwnLease

\* The lease a daemon writes is signed by it.
LEMMA WriteKeeps ==
    ASSUME IInv, NEW d \in Daemons, WriteLease(d)
    PROVE  IInv'
  <1>1. /\ Turn(d, "claiming", "serving") /\ Alive(d)
        /\ strangers' = strangers /\ path' = path
    BY DEF WriteLease, Turn, Alive, Lifeless
  <1>2. StepKeeps
    BY <1>1, TurnKeeps DEF Turn, Phases, Lifeless
  <1>3. /\ proc \in [Daemons -> Procs] /\ proc[d].pid \in Pids
        /\ proc[d].start \in {d, Unknown} /\ path \in Inodes \cup {Absent}
    BY <1>1 DEF IInv, TypeOK, Numbered, Dated
  <1>4. proc'[d].phase = "serving" /\ proc'[d].pid = proc[d].pid
    BY <1>1, <1>3 DEF Turn, Procs
  <1>5. CASE lease' = lease
    BY <1>1, <1>2, <1>3, <1>5, StepSuffices
  <1>6. CASE lease' = [kind |-> "owned", pid |-> proc[d].pid,
                       start |-> proc[d].start, by |-> d]
    <2>1. lease' \in Leases
      BY <1>3, <1>6 DEF Leases
    <2>2. Signed'
      BY <1>3, <1>4, <1>6 DEF Signed, SignedBy
    <2>3. QED
      BY <1>1, <1>2, <1>3, <2>1, <2>2 DEF StepKeeps, IInv, TypeOK
  <1>7. QED
    BY <1>5, <1>6 DEF WriteLease

LEMMA InitHolds == Init => IInv
  <1> SUFFICES ASSUME Init PROVE IInv
    OBVIOUS
  <1>1. Blank("off") \in Procs /\ Blank("off").phase = "off"
        /\ Blank("off").seen = NoLease /\ Blank("off").start = Unknown
    BY BlankIsProc DEF Phases, Lifeless
  <1>2. /\ proc \in [Daemons -> Procs] /\ \A d \in Daemons : proc[d] = Blank("off")
        /\ lease = NoLease /\ strangers = {} /\ path = Absent
    BY <1>1 DEF Init
  <1>3. TypeOK
    BY <1>2 DEF TypeOK, Leases
  <1>4. Numbered
    BY <1>1, <1>2 DEF Numbered, Alive, Lifeless
  <1>5. Signed /\ Remembered
    BY <1>1, <1>2 DEF Signed, Remembered, SignedBy, NoLease
  <1>6. Asking /\ Dated /\ ReclaimsOnlyTheDead
    BY <1>1, <1>2 DEF Asking, Dated, ReclaimsOnlyTheDead
  <1>7. QED
    BY <1>3, <1>4, <1>5, <1>6 DEF IInv

LEMMA StepHolds == IInv /\ [Next]_vars => IInv'
  <1> SUFFICES ASSUME IInv, [Next]_vars PROVE IInv'
    OBVIOUS
  <1>1. ASSUME NEW d \in Daemons, Start(d) PROVE IInv'
    BY <1>1, StartKeeps
  <1>2. ASSUME NEW d \in Daemons, WriteLease(d) PROVE IInv'
    BY <1>2, WriteKeeps
  <1>3. ASSUME NEW d \in Daemons,
               \/ AddressInUse(d) \/ Unlink(d) \/ Check(d) \/ Stop(d)
               \/ ReadOwnLease(d) \/ ReadLease(d) \/ Probe(d) \/ Signal(d)
               \/ Bind(d) \/ Listening(d)
        PROVE  IInv'
    <2>1. StepKeeps
      BY <1>3, PlainTurnKeeps, ReadKeeps, ProbeKeeps, SignalKeeps, BindKeeps
    <2>2. path \in Inodes \cup {Absent}
      BY DEF IInv, TypeOK
    <2>3. path' \in Inodes \cup {Absent} /\ lease' = lease
      BY <1>3, <2>2 DEF AddressInUse, Unlink, Check, Stop, ReadOwnLease,
            ReadLease, Probe, Signal, Bind, FreeInodes, Listening
    <2>4. QED
      BY <2>1, <2>3, StepSuffices
  <1>4. ASSUME NEW d \in Daemons, RemoveLease(d) \/ Crash(d) PROVE IInv'
    <2>1. StepKeeps
      BY <1>4, EndKeeps DEF RemoveLease, Crash, Ends
    <2>2. path' \in Inodes \cup {Absent} /\ lease' \in {lease, NoLease}
      BY <1>4 DEF RemoveLease, Crash, IInv, TypeOK
    <2>3. QED
      BY <2>1, <2>2, StepSuffices
  <1>5. ASSUME proc' = proc, path' = path, lease' = lease,
               strangers' \subseteq Pids,
               \A p \in strangers' : p \in strangers \/ ~InUse(p)
        PROVE  IInv'
    <2>1. TypeOK'
      BY <1>5 DEF IInv, TypeOK
    <2>2. Numbered'
      BY <1>5 DEF IInv, Numbered, Alive, InUse
    <2>3. QED
      BY <1>5, <2>1, <2>2 DEF IInv, Signed, Remembered, SignedBy, Asking, Dated,
            ReclaimsOnlyTheDead, Alive
  <1>6. CASE StrangerStarts
    <2>1. PICK p \in Pids : ~InUse(p) /\ strangers' = strangers \cup {p}
      BY <1>6 DEF StrangerStarts
    <2>2. QED
      BY <1>5, <1>6, <2>1 DEF StrangerStarts, IInv, TypeOK
  <1>7. CASE StrangerEnds
    BY <1>5, <1>7 DEF StrangerEnds, IInv, TypeOK
  <1>8. CASE UNCHANGED vars
    BY <1>5, <1>8 DEF vars, IInv, TypeOK
  <1>9. QED
    BY <1>1, <1>2, <1>3, <1>4, <1>6, <1>7, <1>8 DEF Next, Runs

LEMMA InvHolds == Spec => []IInv
  <1>1. QED
    BY InitHolds, StepHolds, PTL DEF Spec

-----------------------------------------------------------------------------
\* Every process, the path and the lease have their types.
THEOREM SocketTypes == Spec => []TypeOK
  <1>1. IInv => TypeOK
    BY DEF IInv
  <1>2. QED
    BY <1>1, InvHolds, PTL

\* arbitrateSocket and sameLiveProcess never let a daemon reclaim the path
\* from a live process whose lease it read.
THEOREM NeverReclaimsFromTheLiving == Spec => []ReclaimsOnlyTheDead
  <1>1. IInv => ReclaimsOnlyTheDead
    BY DEF IInv
  <1>2. QED
    BY <1>1, InvHolds, PTL

\* checkOwnership passes in one daemon at a time.
THEOREM OneOwnerAtMost == Spec => []OneOwner
  <1>1. IInv => OneOwner
    <2>1. \A d \in Daemons : Owns(d) => Alive(d) /\ proc[d].pid = lease.pid
      BY DEF Owns, CheckOwnership, Alive, Lifeless
    <2>2. QED
      BY <2>1 DEF IInv, Numbered, OneOwner
  <1>2. QED
    BY <1>1, InvHolds, PTL

\* A daemon clients reach loses the path only to a reclaimer that did not read
\* its lease: neither shutdown nor an informed arbitration takes it away.
THEOREM OnlyRacesTakeThePath == Spec => OnlyARaceTakesThePath
  <1> DEFINE Taken ==
        \A o \in Daemons : Reached(o) /\ path' # path =>
          \E d \in Daemons :
             /\ proc[d].phase = "reclaiming" /\ proc'[d].phase = "rebinding"
             /\ proc[d].seen.kind = "owned" => proc[d].seen.by # o
  <1>1. ASSUME IInv, [Next]_vars PROVE [Taken]_vars
    <2>1. SUFFICES ASSUME NEW o \in Daemons, Reached(o), path' # path
                   PROVE  \E d \in Daemons :
                            /\ proc[d].phase = "reclaiming"
                            /\ proc'[d].phase = "rebinding"
                            /\ proc[d].seen.kind = "owned" => proc[d].seen.by # o
      OBVIOUS
    <2>2. PICK d \in Daemons : Unlink(d)
      BY <1>1, <2>1 DEF Next, Runs, vars, Start, Bind, AddressInUse, ReadLease,
            Probe, Signal, Listening, WriteLease, Check, ReadOwnLease,
            RemoveLease, Stop, Crash, StrangerStarts, StrangerEnds, Reached
    <2>3. proc[d].phase = "reclaiming" /\ proc'[d].phase = "rebinding"
      BY <1>1, <2>2 DEF Unlink, Turn, IInv, TypeOK, Procs
    <2>4. proc[d].seen.kind = "owned" => proc[d].seen.by # o
      BY <1>1, <2>1, <2>3 DEF IInv, ReclaimsOnlyTheDead, Reached
    <2>5. QED
      BY <2>3, <2>4
  <1>2. QED
    BY <1>1, InvHolds, PTL DEF Spec, OnlyARaceTakesThePath


-----------------------------------------------------------------------------
(* Who spawns: SpawnKick.                                                  *)

\* An attempt that is recorded stays on record: while it is younger than the
\* cooldown, the record is at least as young.
OnRecord ==
    \A c \in Clients :
        quiet[c] < Cooldown /\ client[c].phase # "record"
            => cool \in Int /\ 0 <= cool /\ cool <= quiet[c]

KickInv == KickTypeOK /\ OnRecord

USE SpawnAssumption

-----------------------------------------------------------------------------
\* A file's age stays an age as time passes and when the clock is set back.
LEMMA AgesStayAges ==
    ASSUME NEW age \in Ages \cup {NoFile}
    PROVE  /\ Older(age) \in Ages \cup {NoFile}
           /\ Newer(age) \in Ages \cup {NoFile}
           /\ age = NoFile => Older(age) = NoFile /\ Newer(age) = NoFile
  BY DEF Older, Newer, Ages

\* A new file is of age zero, which is not what says there is none.
LEMMA ZeroIsAnAge == 0 \in Ages /\ 0 # NoFile
  BY DEF Ages

\* The streak written back stays below its cap.
LEMMA StreakIsCapped ==
    ASSUME NEW n \in 0..MaxStreak
    PROVE  Capped(n + 1) \in 0..MaxStreak
  BY DEF Capped

\* A kick with one field set is a kick.
LEMMA PhaseSet ==
    ASSUME NEW k \in Kicks, NEW p \in KickPhases,
           NEW q, q = [k EXCEPT !.phase = p]
    PROVE  q \in Kicks /\ q.phase = p
  BY DEF Kicks

LEMMA AttemptSet ==
    ASSUME NEW k \in Kicks, NEW a \in 0..2,
           NEW q, q = [k EXCEPT !.attempt = a]
    PROVE  q \in Kicks /\ q.phase = k.phase
  BY DEF Kicks

LEMMA ReadSet ==
    ASSUME NEW k \in Kicks, NEW r \in 0..MaxStreak,
           NEW q, q = [k EXCEPT !.read = r]
    PROVE  q \in Kicks /\ q.phase = k.phase
  BY DEF Kicks

LEMMA HoldsSet ==
    ASSUME NEW k \in Kicks, NEW h \in BOOLEAN,
           NEW q, q = [k EXCEPT !.holds = h]
    PROVE  q \in Kicks /\ q.phase = k.phase
  BY DEF Kicks

LEMMA IdleIsAKick == Idle \in Kicks
<1>1. 0 \in 0..MaxStreak /\ 0 \in 0..2 /\ "idle" \in KickPhases
  BY DEF KickPhases
<1> QED BY <1>1 DEF Idle, Kicks

\* The kicks that start afresh.
LEMMA FreshKicks ==
    /\ [Idle EXCEPT !.phase = "open", !.attempt = 1] \in Kicks
    /\ [Idle EXCEPT !.phase = "open", !.attempt = 2] \in Kicks
    /\ [Idle EXCEPT !.phase = "contended"] \in Kicks
    /\ [Idle EXCEPT !.phase = "streak", !.holds = TRUE] \in Kicks
<1>1. 1 \in 0..2 /\ 2 \in 0..2 /\ TRUE \in BOOLEAN
  OBVIOUS
<1>2. "open" \in KickPhases /\ "contended" \in KickPhases /\ "streak" \in KickPhases
  BY DEF KickPhases
<1>3. PICK open : open = [Idle EXCEPT !.phase = "open"]
  OBVIOUS
<1>4. open \in Kicks
  BY <1>2, <1>3, IdleIsAKick, PhaseSet
<1>5. PICK first : first = [open EXCEPT !.attempt = 1]
  OBVIOUS
<1>6. first \in Kicks
  BY <1>1, <1>4, <1>5, AttemptSet
<1>7. PICK second : second = [open EXCEPT !.attempt = 2]
  OBVIOUS
<1>8. second \in Kicks
  BY <1>1, <1>4, <1>7, AttemptSet
<1>9. [Idle EXCEPT !.phase = "contended"] \in Kicks
  BY <1>2, IdleIsAKick, PhaseSet
<1>10. PICK took : took = [Idle EXCEPT !.phase = "streak"]
  OBVIOUS
<1>11. took \in Kicks
  BY <1>2, <1>10, IdleIsAKick, PhaseSet
<1>12. PICK holder : holder = [took EXCEPT !.holds = TRUE]
  OBVIOUS
<1>13. holder \in Kicks
  BY <1>1, <1>11, <1>12, HoldsSet
<1>14. /\ first = [Idle EXCEPT !.phase = "open", !.attempt = 1]
       /\ second = [Idle EXCEPT !.phase = "open", !.attempt = 2]
       /\ holder = [Idle EXCEPT !.phase = "streak", !.holds = TRUE]
  BY <1>3, <1>5, <1>7, <1>10, <1>12
<1> QED BY <1>6, <1>8, <1>9, <1>13, <1>14

\* What a move leaves of the record: only a kick that leaves "record" has
\* anything to put there, and it does, or its attempt is off the record.
RecordMoves(c, ph) ==
    /\ cool' = cool \/ cool' = 0
    /\ quiet' \in [Clients -> 0..Cooldown]
    /\ \A d \in Clients : d # c => quiet'[d] = quiet[d]
    /\ \/ ph = "record"
       \/ quiet'[c] = Cooldown
       \/ cool' = 0
       \/ client[c].phase # "record" /\ quiet'[c] = quiet[c]

\* One client's kick moves: what is left to show is about that kick alone.
LEMMA OneKickMoves ==
    ASSUME KickInv, NEW c \in Clients, NEW k \in Kicks,
           client' = [client EXCEPT ![c] = k],
           lock' \in Ages \cup {NoFile}, streak' \in 0..MaxStreak,
           booting' \in 0..MaxBooting,
           up' = up, crashes' = crashes, setBacks' = setBacks,
           RecordMoves(c, k.phase)
    PROVE  KickInv'
<1>1. /\ client \in [Clients -> Kicks] /\ cool \in Ages \cup {NoFile}
      /\ quiet \in [Clients -> 0..Cooldown]
  BY DEF KickInv, KickTypeOK
<1>2. /\ client'[c] = k
      /\ \A d \in Clients : d # c => client'[d] = client[d]
  BY <1>1
<1>3. cool' \in Ages \cup {NoFile}
  BY <1>1, ZeroIsAnAge DEF RecordMoves
<1>4. KickTypeOK'
  BY <1>1, <1>3 DEF KickInv, KickTypeOK, RecordMoves
<1>5. OnRecord'
  <2> SUFFICES ASSUME NEW d \in Clients, quiet'[d] < Cooldown, client'[d].phase # "record"
               PROVE  cool' \in Int /\ 0 <= cool' /\ cool' <= quiet'[d]
    BY DEF OnRecord
  <2>1. quiet'[d] \in 0..Cooldown
    BY DEF RecordMoves
  <2>2. CASE cool' = 0
    BY <2>1, <2>2
  <2>3. CASE cool' # 0
    <3>1. cool' = cool /\ quiet'[d] = quiet[d] /\ client[d].phase # "record"
      BY <1>2, <2>1, <2>3 DEF RecordMoves
    <3> QED BY <3>1 DEF KickInv, OnRecord
  <2> QED BY <2>2, <2>3
<1> QED BY <1>4, <1>5 DEF KickInv

\* A move that only takes the kick on.
LEMMA KickGoesOn ==
    ASSUME KickInv, NEW c \in Clients, NEW ph \in KickPhases,
           \/ client' = [client EXCEPT ![c].phase = ph]
           \/ client' = [client EXCEPT ![c].phase = ph, ![c].attempt = 0]
           \/ client' = [client EXCEPT ![c].phase = ph, ![c].read = 0]
           \/ client' = [client EXCEPT ![c].phase = ph, ![c].read = streak],
           lock' = lock, streak' \in 0..MaxStreak, booting' \in 0..MaxBooting,
           up' = up, crashes' = crashes, setBacks' = setBacks,
           RecordMoves(c, ph)
    PROVE  KickInv'
<1>1. /\ client \in [Clients -> Kicks] /\ client[c] \in Kicks
      /\ lock \in Ages \cup {NoFile} /\ streak \in 0..MaxStreak
  BY DEF KickInv, KickTypeOK
<1>2. PICK k \in Kicks : client' = [client EXCEPT ![c] = k] /\ k.phase = ph
  <2>0. 0 \in 0..MaxStreak /\ 0 \in 0..2
    OBVIOUS
  <2>1. PICK k1 : k1 = [client[c] EXCEPT !.phase = ph]
    OBVIOUS
  <2>2. k1 \in Kicks /\ k1.phase = ph
    BY <1>1, <2>1, PhaseSet
  <2>3. CASE client' = [client EXCEPT ![c].phase = ph]
    BY <1>1, <2>1, <2>2, <2>3
  <2>4. CASE client' = [client EXCEPT ![c].phase = ph, ![c].attempt = 0]
    <3>1. PICK k : k = [k1 EXCEPT !.attempt = 0]
      OBVIOUS
    <3>2. k \in Kicks /\ k.phase = ph
      BY <2>0, <2>2, <3>1, AttemptSet
    <3>3. client' = [client EXCEPT ![c] = k]
      BY <1>1, <2>1, <2>4, <3>1
    <3> QED BY <3>2, <3>3
  <2>5. CASE \/ client' = [client EXCEPT ![c].phase = ph, ![c].read = 0]
             \/ client' = [client EXCEPT ![c].phase = ph, ![c].read = streak]
    <3>1. PICK n \in 0..MaxStreak : client' = [client EXCEPT ![c].phase = ph, ![c].read = n]
      BY <1>1, <2>0, <2>5
    <3>2. PICK k : k = [k1 EXCEPT !.read = n]
      OBVIOUS
    <3>3. k \in Kicks /\ k.phase = ph
      BY <2>2, <3>2, ReadSet
    <3>4. client' = [client EXCEPT ![c] = k]
      BY <1>1, <2>1, <3>1, <3>2
    <3> QED BY <3>3, <3>4
  <2> QED BY <2>3, <2>4, <2>5
<1>3. lock' \in Ages \cup {NoFile} /\ RecordMoves(c, k.phase)
  BY <1>1, <1>2
<1> QED BY <1>2, <1>3, OneKickMoves

-----------------------------------------------------------------------------
LEMMA KickInitHolds == KickInit => KickInv
<1> SUFFICES ASSUME KickInit PROVE KickInv
  OBVIOUS
<1>1. client \in [Clients -> Kicks]
  BY IdleIsAKick DEF KickInit
<1>2. /\ 0 \in 0..MaxStreak /\ 0 \in 0..MaxBooting /\ 0 \in 0..MaxFaults
      /\ Cooldown \in 0..Cooldown
  OBVIOUS
<1>3. NoFile \in Ages \cup {NoFile}
  OBVIOUS
<1>4. quiet \in [Clients -> 0..Cooldown] /\ \A c \in Clients : quiet[c] = Cooldown
  BY <1>2 DEF KickInit
<1>5. KickTypeOK
  BY <1>1, <1>2, <1>3, <1>4 DEF KickInit, KickTypeOK
<1>6. OnRecord
  BY <1>4 DEF OnRecord
<1> QED BY <1>5, <1>6 DEF KickInv

\* A move of a kick that is not at "record", and leaves the record alone.
LEMMA RecordRests ==
    ASSUME KickInv, NEW c \in Clients, client[c].phase # "record",
           UNCHANGED <<cool, quiet>>, NEW ph
    PROVE  RecordMoves(c, ph)
  BY DEF KickInv, KickTypeOK, RecordMoves

LEMMA KickKeeps == ASSUME KickInv, NEW c \in Clients, Goes(c) \/ Kick(c)
                   PROVE  KickInv'
<1>0. /\ lock \in Ages \cup {NoFile} /\ cool \in Ages \cup {NoFile}
      /\ streak \in 0..MaxStreak /\ booting \in 0..MaxBooting
      /\ client \in [Clients -> Kicks] /\ client[c] \in Kicks
      /\ quiet \in [Clients -> 0..Cooldown] /\ Cooldown \in 0..Cooldown
  BY DEF KickInv, KickTypeOK
<1>p. {"idle", "open", "stale", "unlink", "contended", "streak", "age", "record",
       "advance", "spawn", "release"} \subseteq KickPhases
  BY DEF KickPhases
<1> USE DEF files, machine, At, Go, Past
<1>1. CASE Kick(c)
  <2> DEFINE k == [Idle EXCEPT !.phase = "open", !.attempt = 1]
  <2>1. k \in Kicks /\ client' = [client EXCEPT ![c] = k]
    BY <1>1, FreshKicks DEF Kick
  <2> HIDE DEF k
  <2>2. RecordMoves(c, k.phase)
    BY <1>1, RecordRests DEF Kick
  <2> QED BY <1>0, <1>1, <2>1, <2>2, OneKickMoves DEF Kick
<1>2. CASE Open(c)
  <2>1. \A ph : RecordMoves(c, ph)
    BY <1>2, RecordRests DEF Open
  <2>2. CASE /\ lock = NoFile /\ lock' = 0
             /\ client' = [client EXCEPT ![c] = [Idle EXCEPT !.phase = "streak",
                                                             !.holds = TRUE]]
    <3> DEFINE k == [Idle EXCEPT !.phase = "streak", !.holds = TRUE]
    <3>1. k \in Kicks /\ client' = [client EXCEPT ![c] = k]
      BY <2>2, FreshKicks
    <3> HIDE DEF k
    <3> QED BY <1>0, <1>2, <2>1, <2>2, <3>1, ZeroIsAnAge, OneKickMoves DEF Open
  <2>3. CASE (Go(c, "stale") \/ Past(c, "streak")) /\ lock' = lock
    BY <1>0, <1>p, <1>2, <2>1, <2>3, KickGoesOn DEF Open
  <2> QED BY <1>2, <2>2, <2>3 DEF Open
<1>3. CASE IsLockStale(c)
  <2>1. \A ph : RecordMoves(c, ph)
    BY <1>3, RecordRests DEF IsLockStale
  <2>2. PICK ph \in KickPhases :
          \/ client' = [client EXCEPT ![c].phase = ph]
          \/ client' = [client EXCEPT ![c].phase = ph, ![c].attempt = 0]
    BY <1>3, <1>p DEF IsLockStale
  <2> QED BY <1>0, <1>3, <2>1, <2>2, KickGoesOn DEF IsLockStale
<1>4. CASE UnlinkStale(c)
  <2>1. \A ph : RecordMoves(c, ph)
    BY <1>4, RecordRests DEF UnlinkStale
  <2>2. CASE lock' = NoFile
    <3>1. CASE lock' = lock /\ Past(c, "streak")
      BY <1>0, <1>p, <1>4, <2>1, <3>1, KickGoesOn DEF UnlinkStale
    <3>2. CASE ~(lock' = lock /\ Past(c, "streak"))
      <4>1. PICK k \in Kicks : client' = [client EXCEPT ![c] = k]
        BY <1>4, <3>2, FreshKicks DEF UnlinkStale
      <4> QED BY <1>0, <1>4, <2>1, <2>2, <4>1, OneKickMoves DEF UnlinkStale
    <3> QED BY <3>1, <3>2
  <2>3. CASE lock' # NoFile
    <3>1. lock' = lock /\ Past(c, "streak")
      BY <1>4, <2>3 DEF UnlinkStale
    <3> QED BY <1>0, <1>p, <1>4, <2>1, <3>1, KickGoesOn DEF UnlinkStale
  <2> QED BY <2>2, <2>3
<1>5. CASE Contended(c)
  <2>1. \A ph : RecordMoves(c, ph)
    BY <1>5, RecordRests DEF Contended
  <2>2. PICK ph \in KickPhases : client' = [client EXCEPT ![c].phase = ph]
    BY <1>5, <1>p DEF Contended
  <2> QED BY <1>0, <1>5, <2>1, <2>2, KickGoesOn DEF Contended
<1>6. CASE ReadStreak(c)
  <2>1. RecordMoves(c, "age")
    BY <1>6, RecordRests DEF ReadStreak
  <2> QED BY <1>0, <1>p, <1>6, <2>1, KickGoesOn DEF ReadStreak
<1>7. CASE Decide(c)
  <2>1. CASE Go(c, "record") /\ quiet' = [quiet EXCEPT ![c] = 0]
    <3>1. 0 \in 0..Cooldown
      OBVIOUS
    <3>2. RecordMoves(c, "record")
      BY <1>0, <1>7, <2>1, <3>1 DEF Decide, RecordMoves
    <3> QED BY <1>0, <1>p, <1>7, <2>1, <3>2, KickGoesOn DEF Decide
  <2>2. CASE Go(c, "release") /\ UNCHANGED quiet
    <3>1. RecordMoves(c, "release")
      BY <1>7, <2>2, RecordRests DEF Decide
    <3> QED BY <1>0, <1>p, <1>7, <2>2, <3>1, KickGoesOn DEF Decide
  <2> QED BY <1>7, <2>1, <2>2 DEF Decide
<1>8. CASE Record(c)
  <2>1. RecordMoves(c, "advance")
    BY <1>0, <1>8 DEF Record, RecordMoves, OffRecord
  <2> QED BY <1>0, <1>p, <1>8, <2>1, KickGoesOn DEF Record
<1>9. CASE Advance(c)
  <2>1. RecordMoves(c, "spawn")
    BY <1>9, RecordRests DEF Advance
  <2>2. streak' \in 0..MaxStreak
    BY <1>0, <1>9, StreakIsCapped DEF Advance, Kicks
  <2> QED BY <1>0, <1>p, <1>9, <2>1, <2>2, KickGoesOn DEF Advance
<1>10. CASE Spawn(c)
  <2>1. RecordMoves(c, "release")
    BY <1>10, RecordRests DEF Spawn
  <2>2. booting' \in 0..MaxBooting
    BY <1>0, <1>10 DEF Spawn
  <2> QED BY <1>0, <1>p, <1>10, <2>1, <2>2, KickGoesOn DEF Spawn
<1>11. CASE Release(c)
  <2>1. Idle \in Kicks
    BY IdleIsAKick
  <2>2. RecordMoves(c, Idle.phase)
    BY <1>11, RecordRests DEF Release
  <2>3. lock' \in Ages \cup {NoFile}
    BY <1>0, <1>11 DEF Release
  <2> HIDE DEF Idle
  <2> QED BY <1>0, <1>11, <2>1, <2>2, <2>3, OneKickMoves DEF Release
<1> QED BY <1>1, <1>2, <1>3, <1>4, <1>5, <1>6, <1>7, <1>8, <1>9, <1>10, <1>11
       DEF Goes

\* A death takes a kick off; one at "record" leaves no record to keep.
LEMMA DeathKeeps == ASSUME KickInv, NEW c \in Clients, ClientDies(c) PROVE KickInv'
<1>1. KickTypeOK /\ Idle \in Kicks /\ Cooldown \in 0..Cooldown
  BY IdleIsAKick DEF KickInv
<1>2. crashes' \in 0..MaxFaults
  BY <1>1 DEF KickTypeOK, ClientDies
<1>3. /\ client' \in [Clients -> Kicks] /\ client' = [client EXCEPT ![c] = Idle]
      /\ UNCHANGED <<lock, cool, streak, up, booting, setBacks>>
  BY <1>1 DEF KickTypeOK, ClientDies, files
<1>4. /\ quiet' \in [Clients -> 0..Cooldown]
      /\ \A d \in Clients : quiet'[d] = quiet[d] \/ (d = c /\ quiet'[d] = Cooldown)
      /\ client[c].phase = "record" => quiet'[c] = Cooldown
  BY <1>1 DEF KickTypeOK, ClientDies, OffRecord, At
<1>5. KickTypeOK'
  BY <1>1, <1>2, <1>3, <1>4 DEF KickTypeOK
<1>6. OnRecord'
  <2> SUFFICES ASSUME NEW d \in Clients, quiet'[d] < Cooldown, client'[d].phase # "record"
               PROVE  cool' \in Int /\ 0 <= cool' /\ cool' <= quiet'[d]
    BY DEF OnRecord
  <2>1. quiet'[d] = quiet[d]
    BY <1>4
  <2>2. client[d].phase # "record"
    <3>1. CASE d = c
      BY <1>4, <3>1
    <3>2. CASE d # c
      <4>1. client'[d] = client[d]
        BY <1>1, <1>3, <3>2 DEF KickTypeOK
      <4> QED BY <4>1
    <3> QED BY <3>1, <3>2
  <2>3. cool' = cool
    BY <1>3
  <2> QED BY <2>1, <2>2, <2>3 DEF KickInv, OnRecord
<1> QED BY <1>5, <1>6 DEF KickInv

\* Time moves the record and the attempts together, and a clock set back
\* excuses them all.
LEMMA TimeKeeps == ASSUME KickInv, Tick \/ SetBack PROVE KickInv'
<1>0. KickTypeOK
  BY DEF KickInv
<1>1. CASE Tick
  <2>1. /\ quiet' = [c \in Clients |-> IF quiet[c] = Cooldown THEN Cooldown ELSE quiet[c] + 1]
        /\ cool' = Older(cool) /\ lock' = Older(lock)
        /\ UNCHANGED <<streak, client, up, booting, crashes, setBacks>>
    BY <1>1 DEF Tick, machine
  <2>2. quiet' \in [Clients -> 0..Cooldown]
    BY <1>0, <2>1 DEF KickTypeOK
  <2>3. KickTypeOK'
    BY <1>0, <2>1, <2>2, AgesStayAges DEF KickTypeOK
  <2>4. OnRecord'
    <3> SUFFICES ASSUME NEW c \in Clients, quiet'[c] < Cooldown, client'[c].phase # "record"
                 PROVE  cool' \in Int /\ 0 <= cool' /\ cool' <= quiet'[c]
      BY DEF OnRecord
    <3>1. quiet[c] \in 0..Cooldown
      BY <1>0 DEF KickTypeOK
    <3>2. quiet[c] < Cooldown /\ quiet'[c] = quiet[c] + 1
      BY <2>1, <3>1
    <3>3. cool \in Int /\ 0 <= cool /\ cool <= quiet[c]
      BY <2>1, <3>2 DEF KickInv, OnRecord
    <3>4. cool' = cool + 1 \/ cool' = cool
      BY <2>1 DEF Older
    <3> QED BY <3>1, <3>2, <3>3, <3>4
  <2> QED BY <2>3, <2>4 DEF KickInv
<1>2. CASE SetBack
  <2>1. setBacks' \in 0..MaxFaults
    BY <1>0, <1>2 DEF KickTypeOK, SetBack
  <2>2. /\ quiet' = [c \in Clients |-> Cooldown] /\ cool' = Newer(cool) /\ lock' = Newer(lock)
        /\ UNCHANGED <<streak, client, up, booting, crashes>>
    BY <1>2 DEF SetBack
  <2>3. quiet' \in [Clients -> 0..Cooldown] /\ \A c \in Clients : quiet'[c] = Cooldown
    BY <2>2
  <2>4. KickTypeOK'
    BY <1>0, <2>1, <2>2, <2>3, AgesStayAges DEF KickTypeOK
  <2>5. OnRecord'
    BY <2>3 DEF OnRecord
  <2> QED BY <2>4, <2>5 DEF KickInv
<1> QED BY <1>1, <1>2

\* The daemons' steps leave the record alone.
LEMMA DaemonsKeep ==
    ASSUME KickInv, DaemonBinds \/ BootEnds \/ DaemonEnds \/ UNCHANGED kickVars
    PROVE  KickInv'
<1>1. UNCHANGED <<lock, cool, client, crashes, setBacks, quiet>>
  BY DEF DaemonBinds, BootEnds, DaemonEnds, kickVars, files
<1>2. streak' = streak \/ streak' = 0
  BY DEF DaemonBinds, BootEnds, DaemonEnds, kickVars, files
<1>3. up' \in BOOLEAN
  BY DEF KickInv, KickTypeOK, DaemonBinds, BootEnds, DaemonEnds, kickVars
<1>4. booting' \in 0..MaxBooting
  <2>1. booting \in 0..MaxBooting
    BY DEF KickInv, KickTypeOK
  <2>2. booting' = booting \/ (booting > 0 /\ booting' = booting - 1)
    BY DEF DaemonBinds, BootEnds, DaemonEnds, kickVars
  <2> QED BY <2>1, <2>2
<1>5. KickTypeOK'
  BY <1>1, <1>2, <1>3, <1>4 DEF KickInv, KickTypeOK
<1>6. OnRecord'
  BY <1>1 DEF KickInv, OnRecord
<1> QED BY <1>5, <1>6 DEF KickInv

LEMMA KickStepHolds == KickInv /\ [KickNext]_kickVars => KickInv'
<1> SUFFICES ASSUME KickInv, [KickNext]_kickVars PROVE KickInv'
  OBVIOUS
<1> QED BY KickKeeps, DeathKeeps, TimeKeeps, DaemonsKeep DEF KickNext

LEMMA KickInvHolds == KickSpec => []KickInv
<1> QED BY KickInitHolds, KickStepHolds, PTL DEF KickSpec

-----------------------------------------------------------------------------
\* The kicks, the files' ages, the streak and the counts keep their types.
THEOREM KickTypes == KickSpec => []KickTypeOK
<1>1. KickInv => KickTypeOK
  BY DEF KickInv
<1> QED BY <1>1, KickInvHolds, PTL

\* However many clients kick, whatever let them past the lock and whichever
\* writes and unlinks fail: a kick is granted an attempt only when every attempt
\* on record is a cooldown old.
THEOREM AttemptsStaySpaced == KickSpec => AttemptsAreSpaced
<1>1. ASSUME KickInv, KickNext, NEW c \in Clients, At(c, "age"), client'[c].phase = "record",
             NEW d \in Clients
      PROVE  quiet[d] = Cooldown \/ At(d, "record")
  <2>1. Allows(cool, Window(client[c].read))
    <3>1. /\ client[c].phase = "age" /\ client'[c].phase # "age"
          /\ client'[c].phase = "record"
      BY <1>1 DEF At
    <3>2. client \in [Clients -> Kicks] /\ Idle.phase = "idle"
      BY <1>1 DEF KickInv, KickTypeOK, Idle
    <3>3. PICK e \in Clients : Kick(e) \/ Goes(e) \/ ClientDies(e)
      BY <1>1, <3>1 DEF KickNext, DaemonBinds, BootEnds, DaemonEnds, Tick, SetBack
    <3>4. e = c
      <4>1. e # c => client'[c] = client[c]
        BY <3>2, <3>3 DEF Kick, Goes, ClientDies, Open, IsLockStale, UnlinkStale, Contended,
                          ReadStreak, Decide, Record, Advance, Spawn, Release, Go, Past
      <4> QED BY <3>1, <4>1
    <3>5. Decide(c)
      BY <3>1, <3>2, <3>3, <3>4
      DEF Kick, Goes, ClientDies, Open, IsLockStale, UnlinkStale, Contended, ReadStreak,
          Record, Advance, Spawn, Release, At
    <3>6. CASE ~Allows(cool, Window(client[c].read))
      <4>1. Go(c, "release")
        BY <3>5, <3>6 DEF Decide
      <4>2. client'[c] = [client[c] EXCEPT !.phase = "release"]
        BY <3>2, <4>1 DEF Go
      <4>3. client[c] \in Kicks
        BY <3>2
      <4>4. client'[c].phase = "release"
        BY <4>2, <4>3 DEF Kicks
      <4> QED BY <3>1, <4>4
    <3> QED BY <3>6
  <2>2. client[c].read \in 0..MaxStreak /\ quiet[d] \in 0..Cooldown
    BY <1>1 DEF KickInv, KickTypeOK, Kicks
  <2>3. Window(client[c].read) >= Cooldown
    BY <2>2, DoublingAssumption DEF Window
  <2>4. ASSUME quiet[d] # Cooldown, ~At(d, "record") PROVE FALSE
    <3>1. cool \in Int /\ 0 <= cool /\ cool <= quiet[d] /\ quiet[d] < Cooldown
      BY <1>1, <2>2, <2>4 DEF KickInv, OnRecord, At
    <3> DEFINE w == Window(client[c].read)
    <3>2. w \in Int
      BY <2>3, <2>2 DEF Window
    <3>3. cool < -Stale \/ cool >= w
      BY <2>1, <3>1 DEF Allows
    <3> HIDE DEF w
    <3>4. w >= Cooldown
      BY <2>3 DEF w
    <3>5. quiet[d] \in Int /\ Cooldown \in Int /\ Stale \in Nat
      BY <2>2
    <3> QED BY <3>1, <3>2, <3>3, <3>4, <3>5
  <2> QED BY <2>4
<1>2. KickInv /\ [KickNext]_kickVars =>
        [\A c \in Clients :
           At(c, "age") /\ client'[c].phase = "record"
              => \A d \in Clients : quiet[d] = Cooldown \/ At(d, "record")]_kickVars
  BY <1>1
<1> QED BY <1>2, KickInvHolds, PTL DEF KickSpec, AttemptsAreSpaced


=============================================================================
