----------------------------- MODULE UpdateAct -----------------------------
(***************************************************************************)
(* The update act (update-act.ts): the daemons of one bundle share a       *)
(* directory of numbered acts.  A claim launches a gated job, renames its  *)
(* record onto the next number, lists the acts again and only then opens   *)
(* the gate (launch.ts); a watch (update-notice.ts) judges the newest act  *)
(* and ends one past its budget, and a restart (binary-watch.ts) waits for *)
(* the act under way.  Any daemon may stall or die between two calls on    *)
(* the disk, so each such call is an action.                               *)
(***************************************************************************)
EXTENDS Integers, FiniteSets, Sequences

CONSTANTS
    Daemons,        \* the daemons on the bundle
    Pids,           \* the ids process groups are given, and given again
    Stranger,       \* what leads a group that is no job of ours
    None,
    Untold,         \* the launches, by their order, whose start `ps` does not tell
    MaxActs,        \* bound: the acts' numbers
    MaxJobs,        \* bound: the jobs launched
    MaxOthers       \* bound: the ids strangers take, and the reboots

Ends == {None, "exit", "timeout"}
Acts == [job : Nat, old : BOOLEAN, end : Ends]
Facts == [act : Nat, end : Ends]
Readers == [job : Nat, ours : BOOLEAN, final : Facts \cup {None}]

ASSUME ActAssumption ==
    /\ None \notin Acts \cup Facts \cup Readers
    /\ Stranger \notin Int /\ None \notin Int /\ Stranger # None
    /\ MaxActs \in Nat /\ MaxJobs \in Nat /\ MaxOthers \in Nat

VARIABLES
    acts,       \* the numbered directories: each one's job and its files
    jobs,       \* the jobs launched, in the order they started
    holder,     \* what leads each id's process group
    turn,       \* each daemon's turn of its act queue
    known,      \* the job each daemon's reader knows, and its final facts
    others      \* the strangers and the reboots so far

vars == <<acts, jobs, holder, turn, known, others>>

Numbers == 1..MaxActs
Free == 0

Listed == {n \in Numbers : acts[n] # None}
IsNewest(n) == n \in Listed /\ \A m \in Listed : m <= n

\* A record names its job by its id, and by its start where `ps` told it.
SameJob(i, j) == /\ jobs[i].pid = jobs[j].pid /\ jobs[i].told = jobs[j].told
                 /\ jobs[i].told => i = j

Alive(p) == holder[p] # Free
Writing(j) == jobs[j].phase \in {"runs", "left"}

Idle == [at |-> "idle", act |-> 0, vanished |-> 0,
         end |-> None, mine |-> None, prune |-> {}]

At(d, where) == turn[d].at = where
Act(d) == turn[d].act
Claimed(d) == turn[d].act + 1
Rests(d) == turn' = [turn EXCEPT ![d] = Idle]
Steps(d, where) == turn' = [turn EXCEPT ![d].at = where]
Pid(d) == jobs[known[d].job].pid

\* The groups of some ids are over, their jobs with them.
GroupsOver(P) ==
    /\ holder' = [p \in Pids |-> IF p \in P THEN Free ELSE holder[p]]
    /\ jobs' = [j \in DOMAIN jobs |->
                  IF \E p \in P : holder[p] = j
                  THEN [jobs[j] EXCEPT !.phase = "over"] ELSE jobs[j]]

-----------------------------------------------------------------------------
Init == /\ acts = [n \in Numbers |-> None]
        /\ jobs = <<>>
        /\ holder = [p \in Pids |-> Free]
        /\ turn = [d \in Daemons |-> Idle]
        /\ known = [d \in Daemons |-> None]
        /\ others = 0

(* A turn reads the newest act, for a click that applies the update, for a   *)
(* look at the act under way, or for a restart that waits for it.            *)

\* What the asker does with the newest act's facts: a click launches unless one
\* runs, a look is spent on one that runs, and the rest is no step of the acts.
Answered(d, act, alive) ==
    \/ turn' = [turn EXCEPT ![d] =
          [Idle EXCEPT !.at = IF alive THEN "look" ELSE "launch", !.act = act]]
    \/ Rests(d)

\* The newest act; the same one vanishing twice is an error the turn ends on.
List(d) ==
    /\ At(d, "idle") \/ At(d, "list")
    /\ \/ Listed = {} /\ Answered(d, 0, FALSE)
       \/ \E n \in Listed :
             /\ IsNewest(n)
             /\ \/ n = turn[d].vanished /\ Rests(d)
                \/ /\ n # turn[d].vanished
                   /\ turn' = [turn EXCEPT ![d] =
                                 [Idle EXCEPT !.at = "record", !.act = n]]
    /\ UNCHANGED <<acts, jobs, holder, known, others>>

Vanished(d) ==
    turn' = [turn EXCEPT ![d].at = "list", ![d].vanished = Act(d)]

\* The record, and whether the reader knows its job; a job of an earlier boot,
\* or whose group is gone, is not asked of `ps`.
ReadRecord(d) ==
    /\ At(d, "record")
    /\ \E r \in {acts[Act(d)]} :
       \/ r = None /\ Vanished(d) /\ UNCHANGED known
       \/ /\ r # None /\ known[d] # None /\ SameJob(known[d].job, r.job)
          /\ UNCHANGED known
          /\ IF known[d].final # None THEN Answered(d, known[d].final.act, FALSE)
             ELSE Steps(d, "alive")
       \/ /\ r # None /\ ~(known[d] # None /\ SameJob(known[d].job, r.job))
          /\ \E ask \in {~r.old /\ Alive(jobs[r.job].pid)} :
             /\ known' = [known EXCEPT ![d] =
                            [job |-> r.job, ours |-> ask, final |-> None]]
             /\ Steps(d, IF ask THEN "ps" ELSE "alive")
    /\ UNCHANGED <<acts, jobs, holder, others>>

\* `ps` answers with the start of the id's leader, or with nothing.  With no
\* start on either side the group is taken as the job's.
Ps(d) ==
    /\ At(d, "ps")
    /\ \E leader \in {None, holder[Pid(d)]} \ {Free} :
          known' = [known EXCEPT ![d].ours = ~jobs[known[d].job].told
                                             \/ leader \in {None, known[d].job}]
    /\ Steps(d, "alive")
    /\ UNCHANGED <<acts, jobs, holder, others>>

\* Whether the group is alive, before its verdict: a job writes that first.
AskAlive(d) ==
    /\ At(d, "alive")
    /\ known' = [known EXCEPT ![d].ours = @ /\ Alive(Pid(d))]
    /\ Steps(d, "verdict")
    /\ UNCHANGED <<acts, jobs, holder, others>>

ReadVerdict(d) ==
    /\ At(d, "verdict")
    /\ turn' = [turn EXCEPT ![d].at = "exists",
                    ![d].end = IF acts[Act(d)] = None THEN None
                               ELSE acts[Act(d)].end]
    /\ UNCHANGED <<acts, jobs, holder, known, others>>

\* Mutant: the group is asked after its verdict.
AskAgain(d) ==
    /\ At(d, "exists")
    /\ \E alive \in {known[d].ours /\ Alive(Pid(d))} :
       IF acts[Act(d)] = None
         THEN Vanished(d) /\ UNCHANGED known
         ELSE /\ Answered(d, Act(d), alive)
              /\ known' = IF alive THEN known ELSE
                    [known EXCEPT ![d].ours = FALSE,
                          ![d].final = [act |-> Act(d), end |-> turn[d].end]]
    /\ UNCHANGED <<acts, jobs, holder, others>>

\* What was read stands only while the act does; the facts of a group that is
\* gone are final.
Exists(d) ==
    /\ At(d, "exists")
    /\ IF acts[Act(d)] = None
         THEN Vanished(d) /\ UNCHANGED known
         ELSE /\ Answered(d, Act(d), known[d].ours)
              /\ known' = IF known[d].ours THEN known ELSE
                    [known EXCEPT ![d].final = [act |-> Act(d), end |-> turn[d].end]]
    /\ UNCHANGED <<acts, jobs, holder, others>>

\* A look is spent on the act.  One that finds its budget spent ends it: a
\* verdict unless one stands, and signals to the id's group, whose program may
\* outlive the first.
Look(d) ==
    /\ At(d, "look")
    /\ Rests(d)
    /\ \/ UNCHANGED <<acts, jobs, holder>>
       \/ /\ acts[Act(d)] # None
          /\ acts' = [acts EXCEPT ![Act(d)].end = IF @ = None THEN "timeout" ELSE @]
          /\ \/ GroupsOver({Pid(d)})
             \/ /\ \E j \in DOMAIN jobs : holder[Pid(d)] = j /\ Writing(j)
                                           /\ jobs' = [jobs EXCEPT ![j].phase = "left"]
                /\ UNCHANGED holder
             \/ holder[Pid(d)] = Stranger /\ UNCHANGED <<jobs, holder>>
    /\ UNCHANGED <<known, others>>

(* A claim.                                                                 *)

\* The job is launched, its gate shut, on an id no group has, and asked of `ps`,
\* which may not tell its start.
Launch(d) ==
    /\ At(d, "launch") /\ Len(jobs) < MaxJobs /\ Claimed(d) \in Numbers
    /\ \E p \in {p \in Pids : ~Alive(p)} :
          /\ jobs' = Append(jobs, [pid |-> p, phase |-> "gated",
                                   act |-> Claimed(d),
                                   told |-> Len(jobs) + 1 \notin Untold])
          /\ holder' = [holder EXCEPT ![p] = Len(jobs) + 1]
    /\ turn' = [turn EXCEPT ![d].at = "stake", ![d].mine = Len(jobs) + 1]
    /\ UNCHANGED <<acts, known, others>>

\* The gate shuts unopened: the sh reads no line and exits.
Withdraw(d) == GroupsOver({p \in Pids : holder[p] = turn[d].mine})

\* The rename onto the number fails when an act has it.
Stake(d) ==
    /\ At(d, "stake")
    /\ \/ /\ acts[Claimed(d)] = None
          /\ acts' = [acts EXCEPT ![Claimed(d)] =
                 [job |-> turn[d].mine, old |-> FALSE, end |-> None]]
          /\ Steps(d, "relist") /\ UNCHANGED <<jobs, holder>>
       \/ /\ acts[Claimed(d)] # None
          /\ Withdraw(d) /\ Rests(d) /\ UNCHANGED acts
    /\ UNCHANGED <<known, others>>

\* Mutant: a claim that stands is never listed again.
RelistSkipped(d) ==
    /\ At(d, "relist")
    /\ Steps(d, "release")
    /\ UNCHANGED <<acts, jobs, holder, known, others>>

\* A claim on a number pruned long ago stands below a later act.
Relist(d) ==
    /\ At(d, "relist")
    /\ Steps(d, IF (\E n \in Listed : n > Claimed(d)) THEN "unstake" ELSE "release")
    /\ UNCHANGED <<acts, jobs, holder, known, others>>

Unstake(d) ==
    /\ At(d, "unstake")
    /\ acts' = [acts EXCEPT ![Claimed(d)] = None]
    /\ Withdraw(d) /\ Rests(d)
    /\ UNCHANGED <<known, others>>

\* The gate opens: the program runs, unless its sh has died.
Release(d) ==
    /\ At(d, "release")
    /\ jobs' = [jobs EXCEPT ![turn[d].mine].phase = IF @ = "gated" THEN "runs" ELSE @]
    /\ turn' = [turn EXCEPT ![d].at = "older", ![d].mine = None]
    /\ UNCHANGED <<acts, holder, known, others>>

ListOlder(d) ==
    /\ At(d, "older")
    /\ turn' = [turn EXCEPT ![d].at = "prune",
                    ![d].prune = {n \in Listed : n < Claimed(d)}]
    /\ UNCHANGED <<acts, jobs, holder, known, others>>

Prune(d) ==
    /\ At(d, "prune")
    /\ \/ turn[d].prune = {} /\ Rests(d) /\ UNCHANGED acts
       \/ \E n \in turn[d].prune :
             /\ \A m \in turn[d].prune : n <= m
             /\ acts' = [acts EXCEPT ![n] = None]
             /\ turn' = [turn EXCEPT ![d].prune = @ \ {n}]
    /\ UNCHANGED <<jobs, holder, known, others>>

\* A daemon ends anywhere, by a restart or a crash, and a gate it held shuts.
\* The next daemon in its place knows no job.
Stop(d) ==
    /\ turn' = [turn EXCEPT ![d] = Idle]
    /\ known' = [known EXCEPT ![d] = None]
    /\ Withdraw(d)
    /\ UNCHANGED <<acts, others>>

(* The jobs, and the rest of the machine.                                   *)

\* The program exits and the sh links its verdict, unless one stands, under the
\* number the job was launched for; something of the group may outlive both.
Finish(j) ==
    /\ jobs[j].phase = "runs"
    /\ jobs' = [jobs EXCEPT ![j].phase = "left"]
    /\ acts' = IF acts[jobs[j].act] = None THEN acts
               ELSE [acts EXCEPT ![jobs[j].act].end = IF @ = None THEN "exit" ELSE @]
    /\ UNCHANGED <<holder, turn, known, others>>

\* Something kills the sh before its verdict.
Lost(j) ==
    /\ jobs[j].phase = "runs"
    /\ jobs' = [jobs EXCEPT ![j].phase = "left"]
    /\ UNCHANGED <<acts, holder, turn, known, others>>

GroupEnds(j) ==
    /\ jobs[j].phase = "left"
    /\ GroupsOver({p \in Pids : holder[p] = j})
    /\ UNCHANGED <<acts, turn, known, others>>

\* An id a job had is given to someone else.
StrangerComes(p) ==
    /\ ~Alive(p) /\ others < MaxOthers
    /\ \E j \in DOMAIN jobs : jobs[j].pid = p
    /\ holder' = [holder EXCEPT ![p] = Stranger]
    /\ others' = others + 1
    /\ UNCHANGED <<acts, jobs, turn, known>>

StrangerGoes(p) ==
    /\ holder[p] = Stranger
    /\ holder' = [holder EXCEPT ![p] = Free]
    /\ UNCHANGED <<acts, jobs, turn, known, others>>

Reboot ==
    /\ others < MaxOthers /\ others' = others + 1
    /\ GroupsOver(Pids)
    /\ acts' = [n \in Numbers |-> IF acts[n] = None THEN None
                                  ELSE [acts[n] EXCEPT !.old = TRUE]]
    /\ turn' = [d \in Daemons |-> Idle]
    /\ known' = [d \in Daemons |-> None]

Reads(d) == List(d) \/ ReadRecord(d) \/ Ps(d) \/ AskAlive(d) \/ ReadVerdict(d)
            \/ Exists(d)
Claims(d) == Launch(d) \/ Stake(d) \/ Relist(d) \/ Unstake(d)
             \/ Release(d) \/ ListOlder(d) \/ Prune(d)

Next == \/ \E d \in Daemons :
              Reads(d) \/ Look(d) \/ Claims(d) \/ Stop(d)
        \/ \E j \in DOMAIN jobs : Finish(j) \/ Lost(j) \/ GroupEnds(j)
        \/ \E p \in Pids : StrangerComes(p) \/ StrangerGoes(p)
        \/ Reboot

Spec == Init /\ [][Next]_vars

-----------------------------------------------------------------------------
\* The records can be told apart: no two jobs of one id were both launched with a
\* start `ps` did not tell.  A job's number is never given again, so this speaks
\* of every launch so far.
ToldApart ==
    \A i, j \in DOMAIN jobs :
       jobs[i].pid = jobs[j].pid /\ ~jobs[i].told /\ ~jobs[j].told => i = j

\* One program at a time writes the bundle: whichever daemon stalled between its
\* launch and its rename or died anywhere, and whichever start `ps` did not tell,
\* no gate opens beside a group alive while the records can be told apart.
OneWriter == ToldApart => \A i, j \in DOMAIN jobs : Writing(i) /\ Writing(j) => i = j

\* While they can, the facts a reader keeps of the act that is still the newest are
\* true: its group is gone, and the end it gives is the one on the disk, or none
\* where only another daemon's timeout came after.
FinalIsFinal ==
    ToldApart =>
    \A d \in Daemons :
       known[d] # None /\ known[d].final # None /\ IsNewest(known[d].final.act) =>
          \E r \in {acts[known[d].final.act]} :
             /\ ~Writing(r.job)
             /\ known[d].final.end # r.end =>
                   known[d].final.end = None /\ r.end = "timeout"

=============================================================================
