------------------------------ MODULE SpawnKick ------------------------------
(***************************************************************************)
(* The kick that brings a daemon up (acquire.ts: obtainDaemonKick and what *)
(* it calls): clients that missed the daemon share three files and nothing *)
(* else.  spawn.lock exists while one of them spawns, spawn.cooldown's     *)
(* mtime is the last attempt, spawn.backoff counts the attempts since a    *)
(* daemon last bound.  One action per system call; a file is its age,      *)
(* which the clock moves, and which a clock set back makes negative.  A    *)
(* write or an unlink may fail; a stat or a read fails only for want of    *)
(* the file.                                                               *)
(***************************************************************************)
EXTENDS Integers, FiniteSets

CONSTANTS
    Clients,
    NoFile,
    Stale,          \* STALE_LOCK_MS: a lock this old is anybody's
    Override,       \* KICK_CONTENDED_OVERRIDE_MS: one this old is not waited for
    Cooldown,       \* SPAWN_COOLDOWN_MS
    BackoffCap,     \* SPAWN_BACKOFF_CAP_MS
    MaxStreak,      \* SPAWN_BACKOFF_MAX_STREAK
    Oldest,         \* bound: an age past every threshold
    MaxBooting,     \* bound: daemons booting at once
    DiskFails,      \* whether a file may fail to be written or unlinked
    MaxFaults       \* bound: clients that die during a kick, and times the wall
                    \* clock is set back

ASSUME SpawnAssumption ==
    /\ Stale \in Nat /\ Override \in Nat /\ Override < Stale
    /\ Cooldown \in Nat \ {0} /\ MaxStreak \in Nat
    /\ BackoffCap \in Nat /\ BackoffCap >= Cooldown
    /\ Oldest \in Nat /\ Oldest > Stale /\ Oldest >= BackoffCap
    /\ MaxBooting \in Nat /\ DiskFails \in BOOLEAN
    /\ MaxFaults \in Nat
    /\ NoFile \notin Int

\* Doubling never narrows a window: arithmetic the provers do not do alone.
ASSUME DoublingAssumption == \A n \in 0..MaxStreak : Cooldown * 2^n >= Cooldown

VARIABLES
    lock, cool,     \* the ages of spawn.lock and spawn.cooldown, or NoFile
    streak,         \* what spawn.backoff says; no file says 0
    client,         \* each client's kick
    up, booting,    \* whether a daemon is bound; how many boot
    crashes, setBacks,
    quiet           \* observes: the time since each client was last granted an
                    \* attempt, up to Cooldown, which also says that attempt is
                    \* not on record

kickVars == <<lock, cool, streak, client, up, booting, crashes, setBacks, quiet>>
files == <<lock, cool, streak>>
machine == <<up, booting, crashes, setBacks>>

Ages == (-(Stale + 1))..Oldest
KickPhases == {"idle", "open", "stale", "unlink", "contended", "streak", "age",
               "record", "advance", "spawn", "release"}
Kicks == [phase : KickPhases, attempt : 0..2, holds : BOOLEAN, read : 0..MaxStreak]
Idle == [phase |-> "idle", attempt |-> 0, holds |-> FALSE, read |-> 0]

Capped(n) == IF n > MaxStreak THEN MaxStreak ELSE n

\* effectiveCooldownMs
Window(n) == LET wide == Cooldown * 2^n
             IN  IF wide > BackoffCap THEN BackoffCap ELSE wide

\* cooldownDecision
Allows(age, window) == age = NoFile \/ age < -Stale \/ age >= window

OffRecord(c) == quiet' = [quiet EXCEPT ![c] = Cooldown]

At(c, ph) == client[c].phase = ph
Go(c, ph) == client' = [client EXCEPT ![c].phase = ph]
Past(c, ph) == client' = [client EXCEPT ![c].phase = ph, ![c].attempt = 0]

-----------------------------------------------------------------------------
KickInit == /\ lock = NoFile /\ cool = NoFile /\ streak = 0
            /\ client = [c \in Clients |-> Idle]
            /\ up = FALSE /\ booting = 0 /\ crashes = 0 /\ setBacks = 0
            /\ quiet = [c \in Clients |-> Cooldown]

\* A render that missed the daemon kicks.
Kick(c) ==
    /\ At(c, "idle")
    /\ client' = [client EXCEPT ![c] = [Idle EXCEPT !.phase = "open",
                                                    !.attempt = 1]]
    /\ UNCHANGED <<files, machine, quiet>>

\* tryAcquireSpawnLock's exclusive create.
Open(c) ==
    /\ At(c, "open")
    /\ \/ /\ lock = NoFile
          /\ lock' = 0
          /\ client' = [client EXCEPT ![c] = [Idle EXCEPT !.phase = "streak",
                                                          !.holds = TRUE]]
       \/ lock # NoFile /\ Go(c, "stale") /\ UNCHANGED lock
       \/ DiskFails /\ Past(c, "streak") /\ UNCHANGED lock
    /\ UNCHANGED <<cool, streak, machine, quiet>>

\* isLockStale's stat; a lock gone since is as good as stale.
IsLockStale(c) ==
    /\ At(c, "stale")
    /\ IF lock = NoFile \/ lock > Stale THEN Go(c, "unlink")
                                         ELSE Past(c, "contended")
    /\ UNCHANGED <<files, machine, quiet>>

\* The stale lock's unlink, of whatever lock is there by now, and the retry;
\* one that cannot be unlinked is passed by.
UnlinkStale(c) ==
    /\ At(c, "unlink")
    /\ \/ /\ lock' = NoFile
          /\ client' = [client EXCEPT
                ![c] = IF client[c].attempt = 2
                         THEN [Idle EXCEPT !.phase = "contended"]
                         ELSE [Idle EXCEPT !.phase = "open", !.attempt = 2]]
       \/ DiskFails /\ lock # NoFile /\ Past(c, "streak") /\ UNCHANGED lock
    /\ UNCHANGED <<cool, streak, machine, quiet>>

\* Contended: a lock old enough is passed by.
Contended(c) ==
    /\ At(c, "contended")
    /\ Go(c, IF lock # NoFile /\ lock > Override THEN "streak" ELSE "idle")
    /\ UNCHANGED <<files, machine, quiet>>

\* claimSpawnCooldown reads the streak,
ReadStreak(c) ==
    /\ At(c, "streak")
    /\ client' = [client EXCEPT ![c].phase = "age", ![c].read = streak]
    /\ UNCHANGED <<files, machine, quiet>>

\* Mutant: an attempt refused is recorded too.
DecideRecordsAll(c) ==
    /\ At(c, "age")
    /\ IF Allows(cool, Window(client[c].read))
         THEN Go(c, "record") /\ UNCHANGED cool
         ELSE Go(c, "release") /\ cool' = 0
    /\ UNCHANGED <<lock, streak, machine, quiet>>

\* then the cooldown's age, and decides,
Decide(c) ==
    /\ At(c, "age")
    /\ IF Allows(cool, Window(client[c].read))
         THEN Go(c, "record") /\ quiet' = [quiet EXCEPT ![c] = 0]
         ELSE Go(c, "release") /\ UNCHANGED quiet
    /\ UNCHANGED <<files, machine>>

\* Mutant: a record that is there is not written over.
RecordOnce(c) ==
    /\ At(c, "record")
    /\ cool' = IF cool = NoFile THEN 0 ELSE cool
    /\ Go(c, "advance")
    /\ UNCHANGED <<lock, streak, machine, quiet>>

\* then records the attempt before it is made,
Record(c) ==
    /\ At(c, "record")
    /\ \/ cool' = 0 /\ UNCHANGED quiet
       \/ DiskFails /\ UNCHANGED cool /\ OffRecord(c)
    /\ Go(c, "advance")
    /\ UNCHANGED <<lock, streak, machine>>

\* and advances the streak it read.
Advance(c) ==
    /\ At(c, "advance")
    /\ \/ streak' = Capped(client[c].read + 1)
       \/ DiskFails /\ UNCHANGED streak
    /\ client' = [client EXCEPT ![c].phase = "spawn", ![c].read = 0]
    /\ UNCHANGED <<lock, cool, machine, quiet>>

\* The detached spawn, which may fail.
Spawn(c) ==
    /\ At(c, "spawn")
    /\ \/ booting < MaxBooting /\ booting' = booting + 1
       \/ UNCHANGED booting
    /\ Go(c, "release")
    /\ UNCHANGED <<files, up, crashes, setBacks, quiet>>

\* releaseSpawnLock, by path, whose failure is swallowed.
Release(c) ==
    /\ At(c, "release")
    /\ \/ lock' = IF client[c].holds THEN NoFile ELSE lock
       \/ DiskFails /\ UNCHANGED lock
    /\ client' = [client EXCEPT ![c] = Idle]
    /\ UNCHANGED <<cool, streak, machine, quiet>>

\* A client killed during its kick leaves the lock it holds.
ClientDies(c) ==
    /\ ~At(c, "idle") /\ crashes + setBacks < MaxFaults
    /\ crashes' = crashes + 1
    /\ client' = [client EXCEPT ![c] = Idle]
    /\ IF At(c, "record") THEN OffRecord(c) ELSE UNCHANGED quiet
    /\ UNCHANGED <<files, up, booting, setBacks>>

\* A booting daemon binds the free path and resets the backoff.
DaemonBinds ==
    /\ booting > 0 /\ ~up
    /\ up' = TRUE /\ booting' = booting - 1
    /\ streak' = 0 \/ (DiskFails /\ UNCHANGED streak)
    /\ UNCHANGED <<lock, cool, client, crashes, setBacks, quiet>>

\* A boot that is refused, loses the bind or dies.
BootEnds ==
    /\ booting > 0
    /\ booting' = booting - 1
    /\ UNCHANGED <<files, client, up, crashes, setBacks, quiet>>

DaemonEnds ==
    /\ up
    /\ up' = FALSE
    /\ UNCHANGED <<files, client, booting, crashes, setBacks, quiet>>

Older(age) == IF age = NoFile \/ age = Oldest THEN age ELSE age + 1

Tick ==
    /\ lock' = Older(lock) /\ cool' = Older(cool)
    /\ quiet' = [c \in Clients |-> IF quiet[c] = Cooldown THEN Cooldown ELSE quiet[c] + 1]
    /\ UNCHANGED <<streak, client, machine>>

\* The wall clock is set back: the files' times are in the future.
Newer(age) == IF age = NoFile THEN age ELSE -(Stale + 1)

SetBack ==
    /\ crashes + setBacks < MaxFaults
    /\ setBacks' = setBacks + 1
    /\ lock' = Newer(lock) /\ cool' = Newer(cool)
    /\ quiet' = [c \in Clients |-> Cooldown]
    /\ UNCHANGED <<streak, client, up, booting, crashes>>

Goes(c) ==
    \/ Open(c) \/ IsLockStale(c) \/ UnlinkStale(c) \/ Contended(c)
    \/ ReadStreak(c) \/ Decide(c) \/ Record(c) \/ Advance(c) \/ Spawn(c)
    \/ Release(c)

KickNext == \/ \E c \in Clients : Kick(c) \/ Goes(c) \/ ClientDies(c)
            \/ DaemonBinds \/ BootEnds \/ DaemonEnds \/ Tick \/ SetBack

KickSpec == KickInit /\ [][KickNext]_kickVars

\* A kick is synchronous and runs on; time passes; while no daemon answers,
\* every render kicks; a spawn tried again and again works once.
KickFairSpec == /\ KickSpec /\ WF_kickVars(Tick)
                /\ \A c \in Clients : /\ WF_kickVars(Goes(c))
                                      /\ WF_kickVars(~up /\ Kick(c))
                                      /\ SF_kickVars(Spawn(c) /\ booting' > booting)

-----------------------------------------------------------------------------
\* The files, the kicks and the counts have their types.
KickTypeOK == /\ lock \in Ages \cup {NoFile} /\ cool \in Ages \cup {NoFile}
              /\ streak \in 0..MaxStreak
              /\ client \in [Clients -> Kicks]
              /\ up \in BOOLEAN /\ booting \in 0..MaxBooting
              /\ crashes \in 0..MaxFaults /\ setBacks \in 0..MaxFaults
              /\ quiet \in [Clients -> 0..Cooldown]

\* The rate holds whatever let a kick past the lock (its own lock, one too old,
\* one reclaimed, a disk that fails): a kick is granted an attempt only when
\* every other is a cooldown old, its own last one too, but for those granted
\* and not recorded yet.  An attempt counts from the grant on, before its spawn
\* has worked or failed; one a failed write, a death or a clock set back kept
\* off the record does not.
AttemptsAreSpaced ==
    [][\A c \in Clients :
         At(c, "age") /\ client'[c].phase = "record"
            => \A d \in Clients : quiet[d] = Cooldown \/ At(d, "record")]_kickVars

\* No lock, record, streak or clock keeps daemons from being spawned: while
\* renders miss the daemon, one is spawned in the end, whoever died holding
\* what.
NeverWedged == (~up /\ booting = 0) ~> (up \/ booting > 0)

=============================================================================
