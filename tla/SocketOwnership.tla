--------------------------- MODULE SocketOwnership ---------------------------
(***************************************************************************)
(* Who serves on the socket path.  Daemons are processes that bind one     *)
(* Unix socket path (server.ts), publish a lease beside it                 *)
(* (socket-lease.ts), arbitrate a path already in use by the lease's owner *)
(* and the kernel's process table (process-fingerprint.ts), and check      *)
(* every few seconds that they still own what they bound                   *)
(* (socket-ownership.ts).  One action per system call another process can  *)
(* see or change the answer of: nothing two daemons do is atomic together. *)
(*                                                                         *)
(* A process's start time is who it is: a daemon's token is the daemon, a  *)
(* stranger's is Stranger.  An inode number is reused only once no live    *)
(* listener and no path holds it.                                          *)
(***************************************************************************)
EXTENDS Integers, FiniteSets

CONSTANTS
    Daemons,        \* the daemons ever spawned, each with one life
    Pids,           \* what the kernel numbers processes with, again and again
    Inodes,         \* what it numbers the socket files with
    Stranger,       \* a process that is no daemon
    Unknown,        \* a start time `ps` did not give; no pid, no inode
    PsAnswers,      \* whether every `ps` of a live process gives its start
    LeaseFails      \* whether writing the lease may fail

ASSUME SocketAssumption ==
    /\ IsFiniteSet(Daemons) /\ IsFiniteSet(Inodes)
    /\ Cardinality(Inodes) >= Cardinality(Daemons) /\ Unknown \notin Pids \cup Inodes
    /\ Stranger \notin Daemons /\ Unknown \notin Daemons \cup {Stranger}
    /\ PsAnswers \in BOOLEAN /\ LeaseFails \in BOOLEAN

VARIABLES
    proc,           \* each daemon's process
    strangers,      \* the pids live processes that are no daemon have
    path,           \* the inode the socket path names, Absent where none
    lease           \* the lease file

vars == <<proc, strangers, path, lease>>

Absent == Unknown
NoLease == [kind |-> "absent"]

\* `by` is auxiliary: which process wrote it.
Leases == {NoLease} \cup
    [kind : {"owned"}, pid : Pids, start : Daemons \cup {Unknown}, by : Daemons]

Lifeless == {"off", "gone", "killed"}
Phases == Lifeless \cup
    {"binding", "inUse", "probing", "signalling", "reclaiming", "rebinding",
     "bound", "claiming", "serving", "closing", "removing"}

Procs == [phase : Phases, pid : Pids \cup {Unknown}, start : Daemons \cup {Unknown},
          seen : Leases,                    \* the lease its arbitration read
          listens : Inodes \cup {Absent},   \* the inode its listener has
          bound : Inodes \cup {Absent}]     \* the inode it took for its own

Blank(ph) == [phase |-> ph, pid |-> Unknown, start |-> Unknown, seen |-> NoLease,
              listens |-> Absent, bound |-> Absent]

Alive(d) == proc[d].phase \notin Lifeless

\* kill(pid, 0): some process has the pid.
InUse(p) == p \in strangers \/ \E d \in Daemons : Alive(d) /\ proc[d].pid = p

\* The start time of the process that has the pid.
StartOf(p) == IF p \in strangers THEN Stranger
              ELSE CHOOSE d \in Daemons : Alive(d) /\ proc[d].pid = p

\* What `ps` may print of a pid: its start, or nothing, which says neither
\* that the process lives nor that it does not.
StartTimes(p) == IF ~InUse(p) THEN {Unknown}
                 ELSE {StartOf(p)} \cup (IF PsAnswers THEN {} ELSE {Unknown})

Turn(d, from, to) ==
    /\ proc[d].phase = from
    /\ proc' = [proc EXCEPT ![d].phase = to]

Ends(d) == proc' = [proc EXCEPT ![d] = Blank("gone")]

-----------------------------------------------------------------------------
Init == /\ proc = [d \in Daemons |-> Blank("off")]
        /\ strangers = {}
        /\ path = Absent
        /\ lease = NoLease

\* A client spawns a daemon; boot reads its own start time first.
Start(d) ==
    /\ proc[d].phase = "off"
    /\ \E p \in {q \in Pids : ~InUse(q)} :
         \E s \in {d} \cup (IF PsAnswers THEN {} ELSE {Unknown}) :
           proc' = [proc EXCEPT ![d] = [Blank("binding") EXCEPT !.pid = p,
                                                                !.start = s]]
    /\ UNCHANGED <<strangers, path, lease>>

FreeInodes == Inodes \ ({path} \cup {proc[d].listens : d \in Daemons})

\* The bind of a path nothing is at: the callback runs a tick later.
Bind(d) ==
    /\ proc[d].phase \in {"binding", "rebinding"}
    /\ path = Absent
    /\ \E i \in FreeInodes :
         /\ path' = i
         /\ proc' = [proc EXCEPT ![d].phase = "bound", ![d].listens = i]
    /\ UNCHANGED <<strangers, lease>>

\* Mutant: a path in use is a daemon's that serves.
AddressInUseYields(d) ==
    /\ path # Absent
    /\ proc[d].phase \in {"binding", "rebinding"} /\ Ends(d)
    /\ UNCHANGED <<strangers, path, lease>>

\* EADDRINUSE: arbitrated the first time, a lost race the second.
AddressInUse(d) ==
    /\ path # Absent
    /\ \/ Turn(d, "binding", "inUse")
       \/ proc[d].phase = "rebinding" /\ Ends(d)
    /\ UNCHANGED <<strangers, path, lease>>

\* handleAddressInUse's read of the lease.
ReadLease(d) ==
    /\ proc[d].phase = "inUse"
    /\ proc' = [proc EXCEPT ![d].seen = lease,
                            ![d].phase = IF lease.kind # "owned" THEN "reclaiming"
                                         ELSE IF lease.start = Unknown
                                              THEN "signalling" ELSE "probing"]
    /\ UNCHANGED <<strangers, path, lease>>

\* Mutant: a start `ps` does not give is a process that is gone.
ProbeUnknownIsGone(d) ==
    /\ proc[d].phase = "probing"
    /\ \E s \in StartTimes(proc[d].seen.pid) :
         \/ s # proc[d].seen.start /\ Turn(d, "probing", "reclaiming")
         \/ s = proc[d].seen.start /\ Ends(d)
    /\ UNCHANGED <<strangers, path, lease>>

\* sameLiveProcess's `ps`: the lease's owner, another process, or no answer.
Probe(d) ==
    /\ proc[d].phase = "probing"
    /\ \E s \in StartTimes(proc[d].seen.pid) :
         \/ s = Unknown /\ Turn(d, "probing", "signalling")
         \/ s \notin {Unknown, proc[d].seen.start} /\ Turn(d, "probing", "reclaiming")
         \/ s = proc[d].seen.start /\ Ends(d)
    /\ UNCHANGED <<strangers, path, lease>>

\* sameLiveProcess's fallback, kill(pid, 0).
Signal(d) ==
    /\ proc[d].phase = "signalling"
    /\ \/ InUse(proc[d].seen.pid) /\ Ends(d)
       \/ ~InUse(proc[d].seen.pid) /\ Turn(d, "signalling", "reclaiming")
    /\ UNCHANGED <<strangers, path, lease>>

\* The reclaim's unlink of whatever the path names by now.
Unlink(d) ==
    /\ Turn(d, "reclaiming", "rebinding")
    /\ path' = Absent
    /\ UNCHANGED <<strangers, lease>>

\* onListening: the identity the path has by now is taken for the one bound.
Listening(d) ==
    /\ proc[d].phase = "bound"
    /\ proc' = IF path = Absent THEN [proc EXCEPT ![d].phase = "closing"]
               ELSE [proc EXCEPT ![d].phase = "claiming", ![d].bound = path]
    /\ UNCHANGED <<strangers, path, lease>>

\* writeLease, its failure logged and no more, and the watch armed.
WriteLease(d) ==
    /\ Turn(d, "claiming", "serving")
    /\ \/ lease' = [kind |-> "owned", pid |-> proc[d].pid,
                    start |-> proc[d].start, by |-> d]
       \/ LeaseFails /\ UNCHANGED lease
    /\ UNCHANGED <<strangers, path>>

\* Mutant: the path's identity alone proves ownership.
CheckPathOnly(p) == path = p.bound

\* Mutant: the lease's pid alone proves ownership.
CheckLeaseOnly(p) == lease.kind = "owned" /\ lease.pid = p.pid

CheckOwnership(p) ==
    /\ path = p.bound
    /\ lease.kind = "owned" /\ lease.pid = p.pid

\* The ownership watch's interval.  An owner's check changes nothing.
Check(d) ==
    /\ ~CheckOwnership(proc[d])
    /\ Turn(d, "serving", "closing")
    /\ UNCHANGED <<strangers, path, lease>>

\* shutdown for any other reason: a signal, a throw, a limit, an update.
Stop(d) ==
    /\ Alive(d) /\ proc[d].phase \notin {"closing", "removing"}
    /\ proc' = [proc EXCEPT ![d].phase = "closing"]
    /\ UNCHANGED <<strangers, path, lease>>

\* removeLeaseIfOwned's read; a lease that names another is left and the
\* process exits.
ReadOwnLease(d) ==
    /\ IF lease.kind = "owned" /\ lease.pid = proc[d].pid
         THEN Turn(d, "closing", "removing")
         ELSE proc[d].phase = "closing" /\ Ends(d)
    /\ UNCHANGED <<strangers, path, lease>>

\* Its unlink, of whatever the lease path names by now; then the exit, which
\* leaves the socket path behind.
RemoveLease(d) ==
    /\ proc[d].phase = "removing"
    /\ lease' = NoLease
    /\ Ends(d)
    /\ UNCHANGED <<strangers, path>>

\* SIGKILL, the out-of-memory killer, shutdown's own backstop.
Crash(d) ==
    /\ Alive(d)
    /\ proc' = [proc EXCEPT ![d] = Blank("killed")]
    /\ UNCHANGED <<strangers, path, lease>>

\* The machine's other processes come and go, and take any free pid.
StrangerStarts ==
    /\ \E p \in {q \in Pids : ~InUse(q)} : strangers' = strangers \cup {p}
    /\ UNCHANGED <<proc, path, lease>>

StrangerEnds ==
    /\ \E p \in strangers : strangers' = strangers \ {p}
    /\ UNCHANGED <<proc, path, lease>>

\* What a daemon's process does when it is scheduled and its timer fires.
Runs(d) ==
    \/ Bind(d) \/ AddressInUse(d) \/ ReadLease(d) \/ Probe(d) \/ Signal(d)
    \/ Unlink(d) \/ Listening(d) \/ WriteLease(d) \/ Check(d)
    \/ ReadOwnLease(d) \/ RemoveLease(d)

Next == \/ \E d \in Daemons : Start(d) \/ Runs(d) \/ Stop(d) \/ Crash(d)
        \/ StrangerStarts \/ StrangerEnds

Spec == Init /\ [][Next]_vars

\* A live process runs, its timers fire and its `ps` is bounded by a budget;
\* nothing makes a client spawn, a signal arrive or a stranger end.
FairSpec == Spec /\ \A d \in Daemons : WF_vars(Runs(d))

-----------------------------------------------------------------------------
\* Every process, the path and the lease have their types.
TypeOK == /\ proc \in [Daemons -> Procs]
          /\ strangers \subseteq Pids
          /\ path \in Inodes \cup {Absent}
          /\ lease \in Leases

\* arbitrateSocket never reclaims the path from the process whose lease it
\* read while that process lives, whatever `ps` could tell, however the pid
\* was reused and whoever wrote the lease since.
ReclaimsOnlyTheDead ==
    \A d \in Daemons : proc[d].phase \in {"reclaiming", "rebinding"}
                           /\ proc[d].seen.kind = "owned"
                         => ~Alive(proc[d].seen.by)

Owns(d) == proc[d].phase = "serving" /\ CheckOwnership(proc[d])

\* Two daemons never both pass the self-check, even when one took the other's
\* socket for its own between its bind and its callback.
OneOwner == \A d, e \in Daemons : Owns(d) /\ Owns(e) => d = e

\* Clients reach this daemon.
Reached(d) == Alive(d) /\ path # Absent /\ proc[d].listens = path

\* A daemon clients reach loses the path only to a race: a reclaimer whose
\* lease read was not of this daemon's lease; never to a daemon on its way
\* out, and never to one that read who owns it.
OnlyARaceTakesThePath ==
    [][\A o \in Daemons : Reached(o) /\ path' # path =>
         \E d \in Daemons :
            /\ proc[d].phase = "reclaiming" /\ proc'[d].phase = "rebinding"
            /\ proc[d].seen.kind = "owned" => proc[d].seen.by # o]_vars

\* However many daemons raced for the path, at most one stays.
DaemonsConverge == <>[](\A d, e \in Daemons : Alive(d) /\ Alive(e) => d = e)

\* A serving daemon that stated its own socket and lost the path is drained.
DisplacedDrains ==
    \A d \in Daemons :
        (/\ proc[d].phase = "serving" /\ ~Reached(d)
         /\ proc[d].bound = proc[d].listens) ~> ~Alive(d)

\* A daemon that boots once no other runs comes to serve on the path, whatever
\* the dead left there and whoever has their pids, unless something stops it, a
\* pid changes hands while it looks, or `ps` does not tell it who has the pid
\* its lease names.
AloneServes ==
    \A d \in Daemons : \A S \in SUBSET Pids :
        (/\ proc[d].phase = "binding" /\ strangers = S
         /\ \A e \in Daemons \ {d} : proc[e].phase \in {"gone", "killed"})
            ~> (\/ proc[d].phase = "serving" /\ Reached(d)
                \/ proc[d].phase \in {"closing", "killed"}
                \/ proc[d].phase = "signalling" /\ InUse(proc[d].seen.pid)
                \/ strangers # S)

=============================================================================
