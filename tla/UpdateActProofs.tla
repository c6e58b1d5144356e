-------------------------- MODULE UpdateActProofs --------------------------
(***************************************************************************)
(* Proofs about UpdateAct, for any daemons, ids, bounds and launches whose *)
(* start `ps` does not tell, while no two of those share an id: then a     *)
(* record names one job.  The numbers only go up:                          *)
(* whatever act is removed, a newer one stands.  So a claim that lists     *)
(* none newer than its own was made after an act that is over, and what    *)
(* runs, or is about to, is the newest act's job.                          *)
(***************************************************************************)
EXTENDS UpdateAct, SequenceTheorems, TLAPS

Phases == {"gated", "runs", "left", "over"}
Jobs == [pid : Pids, phase : Phases, act : Numbers, told : BOOLEAN]

Reading == {"ps", "alive", "verdict", "exists"}
Claiming == {"stake", "relist", "unstake", "release"}
Pruning == {"release", "older", "prune"}
Places == Reading \cup Claiming \cup Pruning
          \cup {"idle", "list", "record", "look", "launch"}
Turns == [at : Places, act : Nat, vanished : Nat, end : Ends,
          mine : Nat \cup {None}, prune : SUBSET Nat]

TypeOK ==
    /\ jobs \in Seq(Jobs)
    /\ acts \in [Numbers -> Acts \cup {None}]
    /\ holder \in [Pids -> Nat \cup {Stranger}]
    /\ turn \in [Daemons -> Turns]
    /\ known \in [Daemons -> Readers \cup {None}]

Over(j) == jobs[j].phase = "over"
Above(a) == \E m \in Listed : m > a
AtLeast(a) == \E m \in Listed : m >= a

\* The act numbered a is over, or no longer the newest.
Past(a) == Above(a) \/ (a \in Listed /\ Over(acts[a].job))

\* The act numbered a is job j's, or no longer the newest.
Its(a, j) == Above(a) \/ (a \in Listed /\ acts[a].job = j)

\* A job that is not over leads the group of its id, an act's job was launched
\* for it, and what an earlier boot left is over.
JobsOK ==
    /\ \A j \in DOMAIN jobs : ~Over(j) => holder[jobs[j].pid] = j
    /\ \A n \in Listed :
         /\ acts[n].job \in DOMAIN jobs /\ jobs[acts[n].job].act = n
         /\ acts[n].old => Over(acts[n].job)

\* What a reader knows of its job.
Knows(d) ==
    known[d] # None =>
        /\ known[d].job \in DOMAIN jobs
        /\ ~known[d].ours => Over(known[d].job)
        /\ known[d].final # None =>
              ~known[d].ours /\ known[d].final.act = jobs[known[d].job].act

\* What a daemon at each place of its turn has seen still stands.
Place(d) ==
    LET t == turn[d] IN
    /\ t.at \in {"launch", "stake"} /\ t.act # 0 => Past(t.act)
    /\ t.at \in Reading \cup {"record", "look"} => t.act \in Numbers
    /\ t.at = "record" => AtLeast(t.act)
    /\ t.at = "look" => known[d] # None
    /\ t.at \in Reading => /\ known[d] # None /\ known[d].final = None
                           /\ jobs[known[d].job].act = t.act
                           /\ Its(t.act, known[d].job)
    /\ t.at \in Claiming => t.mine \in DOMAIN jobs /\ jobs[t.mine].act = t.act + 1
    /\ t.at = "relist" => Its(t.act + 1, t.mine)
    /\ t.at = "unstake" => Above(t.act + 1)
    /\ t.at \in Pruning => AtLeast(t.act + 1)
    /\ \A n \in t.prune : n < t.act + 1

\* A job that writes the bundle, or whose gate is about to be opened.
Committed(j) ==
    \/ Writing(j)
    \/ \E d \in Daemons : /\ turn[d].at = "release" /\ turn[d].mine = j
                          /\ jobs[j].phase = "gated"

\* It is the newest act's.
NewestWrites ==
    \A j \in DOMAIN jobs : Committed(j) =>
        IsNewest(jobs[j].act) /\ acts[jobs[j].act].job = j

IInv == /\ TypeOK /\ JobsOK /\ NewestWrites
        /\ \A d \in Daemons : Knows(d) /\ Place(d)

-----------------------------------------------------------------------------
(* Telling the jobs apart.                                                 *)

\* A step adds jobs and renames none.
Kept == /\ jobs' \in Seq(Jobs) /\ DOMAIN jobs \subseteq DOMAIN jobs'
        /\ \A j \in DOMAIN jobs : jobs'[j].pid = jobs[j].pid /\ jobs'[j].told = jobs[j].told

LEMMA OneJobEach ==
    ASSUME jobs \in Seq(Jobs), ToldApart, NEW i \in DOMAIN jobs, NEW j \in DOMAIN jobs,
           SameJob(i, j)
    PROVE  i = j
<1>1. jobs[i] \in Jobs /\ jobs[j] \in Jobs
  BY LenProperties
<1>2. CASE jobs[i].told
  BY <1>2 DEF SameJob
<1>3. CASE ~jobs[i].told
  BY <1>1, <1>3 DEF SameJob, ToldApart, Jobs
<1> QED
  BY <1>2, <1>3

\* Jobs that change in nothing but their phases are kept.
LEMMA PhasesMove ==
    ASSUME jobs \in Seq(Jobs), DOMAIN jobs' = DOMAIN jobs,
           jobs' = [j \in DOMAIN jobs |-> jobs'[j]],
           \A j \in DOMAIN jobs :
              jobs'[j] = jobs[j] \/ \E ph \in Phases : jobs'[j] = [jobs[j] EXCEPT !.phase = ph]
    PROVE  Kept
<1>1. Len(jobs) \in Nat /\ DOMAIN jobs = 1..Len(jobs) /\ \A j \in DOMAIN jobs : jobs[j] \in Jobs
  BY LenProperties
<1>2. ASSUME NEW j \in DOMAIN jobs
      PROVE  jobs'[j] \in Jobs /\ jobs'[j].pid = jobs[j].pid /\ jobs'[j].told = jobs[j].told
  <2>1. jobs[j] \in Jobs
    BY <1>1
  <2>2. ASSUME NEW ph \in Phases, NEW q, q = [jobs[j] EXCEPT !.phase = ph]
        PROVE  q \in Jobs /\ q.pid = jobs[j].pid /\ q.told = jobs[j].told
    BY <2>1, <2>2 DEF Jobs
  <2> QED
    BY <2>1, <2>2
<1>3. jobs' \in [1..Len(jobs) -> Jobs]
  BY <1>1, <1>2
<1>4. jobs' \in Seq(Jobs)
  BY <1>1, <1>3, IsASeq
<1> QED
  BY <1>2, <1>4 DEF Kept

LEMMA GroupsEnd ==
    ASSUME jobs \in Seq(Jobs), NEW P, GroupsOver(P) PROVE Kept
<1>1. "over" \in Phases
  BY DEF Phases
<1> QED
  BY <1>1, PhasesMove DEF GroupsOver

LEMMA JobsAreKept == jobs \in Seq(Jobs) /\ [Next]_vars => Kept
<1> SUFFICES ASSUME jobs \in Seq(Jobs), [Next]_vars PROVE Kept
  OBVIOUS
<1>0. {"gated", "runs", "left", "over"} = Phases
  BY DEF Phases
<1>1. CASE jobs' = jobs
  BY <1>1 DEF Kept
<1>2. ASSUME NEW d \in Daemons, Launch(d) PROVE Kept
  <2>1. Len(jobs) + 1 \in Nat /\ DOMAIN jobs \subseteq Nat
    BY LenProperties
  <2>2. PICK p \in Pids, told \in BOOLEAN :
          jobs' = Append(jobs, [pid |-> p, phase |-> "gated", act |-> Claimed(d), told |-> told])
    BY <1>2 DEF Launch
  <2>3. PICK job \in Jobs : jobs' = Append(jobs, job)
    BY <1>0, <1>2, <2>2 DEF Launch, Jobs
  <2> QED
    BY <2>3, AppendProperties, LenProperties DEF Kept
<1>3. ASSUME NEW d \in Daemons, Withdraw(d) PROVE Kept
  BY <1>3, GroupsEnd DEF Withdraw
<1>4. ASSUME NEW d \in Daemons, Look(d) PROVE Kept
  <2>1. CASE GroupsOver({Pid(d)})
    BY <2>1, GroupsEnd
  <2>2. CASE \E j \in DOMAIN jobs : jobs' = [jobs EXCEPT ![j].phase = "left"]
    BY <1>0, <2>2, PhasesMove
  <2> QED
    BY <1>1, <1>4, <2>1, <2>2 DEF Look
<1>5. ASSUME NEW d \in Daemons, Release(d) PROVE Kept
  <2> DEFINE m == turn[d].mine
             ph == IF jobs[m].phase = "gated" THEN "runs" ELSE jobs[m].phase
  <2>1. jobs' = [jobs EXCEPT ![m].phase = ph]
    BY <1>5 DEF Release
  <2>2. \A j \in DOMAIN jobs : jobs[j].phase \in Phases
    <3>1. \A j \in DOMAIN jobs : jobs[j] \in Jobs
      BY LenProperties
    <3> QED
      BY <3>1 DEF Jobs
  <2>3. m \in DOMAIN jobs => ph \in Phases
    BY <1>0, <2>2
  <2> HIDE DEF ph, m
  <2>4. CASE m \in DOMAIN jobs
    BY <2>1, <2>3, <2>4, PhasesMove
  <2>5. CASE m \notin DOMAIN jobs
    BY <1>1, <2>1, <2>5, LenProperties
  <2> QED
    BY <2>4, <2>5
<1>6. ASSUME NEW j \in DOMAIN jobs, Finish(j) \/ Lost(j) PROVE Kept
  BY <1>0, <1>6, PhasesMove DEF Finish, Lost
<1>7. ASSUME NEW j \in DOMAIN jobs, GroupEnds(j) PROVE Kept
  BY <1>7, GroupsEnd DEF GroupEnds
<1>8. CASE Reboot
  BY <1>8, GroupsEnd DEF Reboot
<1>9. ASSUME NEW d \in Daemons, Reads(d) PROVE Kept
  BY <1>1, <1>9 DEF Reads, List, ReadRecord, Ps, AskAlive, ReadVerdict, Exists
<1>10. ASSUME NEW d \in Daemons, Claims(d) \/ Stop(d) PROVE Kept
  BY <1>1, <1>2, <1>3, <1>5, <1>10
     DEF Claims, Stop, Stake, Relist, Unstake, ListOlder, Prune
<1>11. ASSUME NEW p \in Pids, StrangerComes(p) \/ StrangerGoes(p) PROVE Kept
  BY <1>1, <1>11 DEF StrangerComes, StrangerGoes
<1> QED
  BY <1>1, <1>4, <1>6, <1>7, <1>8, <1>9, <1>10, <1>11 DEF Next, vars

\* So what can be told apart later could be all along.
LEMMA ApartBefore ==
    ASSUME jobs \in Seq(Jobs), [Next]_vars, ToldApart' PROVE ToldApart
BY JobsAreKept DEF Kept, ToldApart

-----------------------------------------------------------------------------
\* What every step but a reboot does to the acts and the jobs: an act that goes
\* leaves a newer one, one that stays keeps its job, and a job that is over
\* stays so.
Onward ==
    /\ \A n \in Listed : n \notin Listed' => \E m \in Listed' : m > n
    /\ \A n \in Listed : n \in Listed' => acts'[n].job = acts[n].job
    /\ DOMAIN jobs \subseteq DOMAIN jobs'
    /\ \A j \in DOMAIN jobs : jobs'[j].act = jobs[j].act /\ (Over(j) => Over(j)')

LEMMA AboveStays ==
    ASSUME TypeOK, Onward, NEW a \in Nat
    PROVE  (Above(a) => Above(a)') /\ (AtLeast(a) => AtLeast(a)')
<1>1. Listed \subseteq Int /\ Listed' \subseteq Int
  BY DEF Listed, Numbers
<1> QED
  BY <1>1 DEF Onward, Above, AtLeast

LEMMA ItsStays ==
    ASSUME TypeOK, JobsOK, Onward, NEW a \in Nat, NEW j
    PROVE  (Past(a) => Past(a)') /\ (Its(a, j) => Its(a, j)')
<1>1. CASE Above(a)
  BY <1>1, AboveStays DEF Past, Its
<1>2. CASE ~Above(a) /\ a \in Listed
  <2>1. CASE a \in Listed'
    BY <1>2, <2>1 DEF Past, Its, Onward, JobsOK
  <2>2. CASE a \notin Listed'
    BY <1>2, <2>2 DEF Past, Its, Onward, Above
  <2> QED
    BY <2>1, <2>2
<1> QED
  BY <1>1, <1>2 DEF Past, Its

\* Then whatever a daemon that does not move has seen still stands.
LEMMA PlaceStays ==
    ASSUME IInv, Onward, NEW d \in Daemons,
           turn'[d] = turn[d], known'[d] = known[d]
    PROVE  Knows(d)' /\ Place(d)'
<1> USE DEF IInv
<1>1. turn[d] \in Turns
  BY DEF TypeOK
<1>2. Knows(d)'
  <2>1. Knows(d)
    OBVIOUS
  <2> QED
    BY <2>1 DEF Knows, Onward
<1>3. Place(d)
  OBVIOUS
<1>t. PICK t \in Turns : t = turn[d]
  BY <1>1
<1>4. t.act \in Nat /\ t.act + 1 \in Nat
  BY DEF Turns
<1>5. t.at \in {"launch", "stake"} /\ t.act # 0 => Past(t.act)'
  BY <1>3, <1>4, <1>t, ItsStays DEF Place
<1>6. t.at = "record" => AtLeast(t.act)'
  BY <1>3, <1>4, <1>t, AboveStays DEF Place
<1>6a. /\ t.at \in Reading \cup {"record", "look"} => t.act \in Numbers
       /\ t.at = "look" => known[d] # None
  BY <1>3, <1>t DEF Place
<1>7. t.at \in Reading => /\ known[d] # None /\ known[d].final = None
                          /\ jobs'[known[d].job].act = t.act
                          /\ Its(t.act, known[d].job)'
  <2>1. Knows(d)
    OBVIOUS
  <2> QED
    BY <1>3, <1>4, <1>t, <2>1, ItsStays DEF Place, Knows, Onward
<1>8. t.at \in Claiming => t.mine \in DOMAIN jobs' /\ jobs'[t.mine].act = t.act + 1
  BY <1>3, <1>t DEF Place, Onward
<1>9. t.at = "relist" => Its(t.act + 1, t.mine)'
  BY <1>3, <1>4, <1>t, ItsStays DEF Place
<1>10. t.at = "unstake" => Above(t.act + 1)'
  BY <1>3, <1>4, <1>t, AboveStays DEF Place
<1>11. t.at \in Pruning => AtLeast(t.act + 1)'
  BY <1>3, <1>4, <1>t, AboveStays DEF Place
<1>12. \A n \in t.prune : n < t.act + 1
  BY <1>3, <1>t DEF Place
<1>13. turn'[d] = t
  BY <1>t
<1> QED
  BY <1>2, <1>5, <1>6, <1>6a, <1>7, <1>8, <1>9, <1>10, <1>11, <1>12, <1>13 DEF Place

\* The groups of some ids are over.
LEMMA GroupsOverFacts ==
    ASSUME TypeOK, NEW P, GroupsOver(P)
    PROVE  /\ jobs' \in Seq(Jobs) /\ DOMAIN jobs' = DOMAIN jobs
           /\ Len(jobs') = Len(jobs)
           /\ holder' \in [Pids -> Nat \cup {Stranger}]
           /\ \A j \in DOMAIN jobs :
                /\ jobs'[j].pid = jobs[j].pid /\ jobs'[j].act = jobs[j].act
                /\ jobs'[j].phase \in {jobs[j].phase, "over"}
           /\ JobsOK => \A j \in DOMAIN jobs : ~Over(j)' => holder'[jobs'[j].pid] = j
           /\ \A p \in P \cap Pids : \A j \in DOMAIN jobs : holder[p] = j => Over(j)'
<1>1. Len(jobs) \in Nat /\ DOMAIN jobs = 1..Len(jobs) /\ \A j \in DOMAIN jobs : jobs[j] \in Jobs
  BY LenProperties DEF TypeOK
<1>2. jobs' = [j \in DOMAIN jobs |->
                  IF \E p \in P : holder[p] = j
                  THEN [jobs[j] EXCEPT !.phase = "over"] ELSE jobs[j]]
  BY DEF GroupsOver
<1>3. \A j \in DOMAIN jobs :
        /\ jobs'[j] \in Jobs
        /\ jobs'[j].pid = jobs[j].pid /\ jobs'[j].act = jobs[j].act
        /\ jobs'[j].phase = IF \E p \in P : holder[p] = j THEN "over" ELSE jobs[j].phase
  BY <1>1, <1>2 DEF Jobs, Phases
<1>4. jobs' \in [1..Len(jobs) -> Jobs] /\ jobs' \in Seq(Jobs) /\ DOMAIN jobs' = DOMAIN jobs /\ Len(jobs') = Len(jobs)
  BY <1>1, <1>2, <1>3
<1>5. holder' = [p \in Pids |-> IF p \in P THEN Free ELSE holder[p]]
  BY DEF GroupsOver
<1>6. holder' \in [Pids -> Nat \cup {Stranger}]
  BY <1>5 DEF TypeOK, Free
<1>7. ASSUME JobsOK, NEW j \in DOMAIN jobs, ~Over(j)'
      PROVE  holder'[jobs'[j].pid] = j
  <2>1. ~(\E p \in P : holder[p] = j) /\ jobs[j].phase # "over"
    BY <1>3, <1>7 DEF Over
  <2>2. holder[jobs[j].pid] = j /\ jobs[j].pid \in Pids
    BY <1>1, <1>7, <2>1 DEF JobsOK, Over, Jobs
  <2> QED
    BY <1>3, <1>5, <2>1, <2>2
<1>8. ASSUME NEW p \in P \cap Pids, NEW j \in DOMAIN jobs, holder[p] = j
      PROVE  Over(j)'
  BY <1>3, <1>8 DEF Over
<1> QED
  BY <1>1, <1>3, <1>4, <1>6, <1>7, <1>8

\* A step of one daemon that leaves the acts, the jobs and the groups alone.
LEMMA TurnMoves ==
    ASSUME IInv, NEW d \in Daemons, UNCHANGED <<acts, jobs, holder>>,
           NEW t \in Turns, turn' = [turn EXCEPT ![d] = t],
           NEW k \in Readers \cup {None}, known' = [known EXCEPT ![d] = k],
           Knows(d)', Place(d)',
           t.at = "release" =>
               \A j \in DOMAIN jobs : j = t.mine /\ ~Over(j) =>
                   IsNewest(jobs[j].act) /\ acts[jobs[j].act].job = j
    PROVE  IInv' /\ Onward
<1> USE DEF IInv
<1>1. TypeOK'
  BY DEF TypeOK
<1>2. JobsOK'
  BY DEF JobsOK, Over, Listed
<1>3. Onward
  BY DEF Onward, Over, Listed
<1>4. turn'[d] = t /\ \A e \in Daemons \ {d} : turn'[e] = turn[e] /\ known'[e] = known[e]
  BY DEF TypeOK
<1>5. \A e \in Daemons : Knows(e)' /\ Place(e)'
  BY <1>3, <1>4, PlaceStays
<1>6. NewestWrites'
  <2> SUFFICES ASSUME NEW j \in DOMAIN jobs, Committed(j)'
               PROVE  IsNewest(jobs[j].act) /\ acts[jobs[j].act].job = j
    BY DEF NewestWrites, IsNewest, Listed
  <2>1. CASE Committed(j)
    BY <2>1 DEF NewestWrites
  <2>2. CASE ~Committed(j)
    <3>1. PICK e \in Daemons : /\ turn'[e].at = "release" /\ turn'[e].mine = j
                               /\ jobs[j].phase = "gated"
      BY <2>2 DEF Committed, Writing
    <3>2. e = d
      BY <1>4, <2>2, <3>1 DEF Committed
    <3> QED
      BY <1>4, <3>1, <3>2 DEF Over
  <2> QED
    BY <2>1, <2>2
<1> QED
  BY <1>1, <1>2, <1>3, <1>5, <1>6

\* A daemon at rest has seen nothing.
LEMMA IdleStands ==
    /\ Idle \in Turns
    /\ \A d \in Daemons : turn'[d] = Idle => Place(d)'
BY ActAssumption DEF Idle, Turns, Places, Reading, Claiming, Pruning, Ends, Place

\* The turn an answer leaves.
LEMMA AnsweredFacts ==
    ASSUME TypeOK, NEW d \in Daemons, NEW act \in Nat, NEW alive \in BOOLEAN,
           Answered(d, act, alive), ~alive /\ act # 0 => Past(act)',
           alive => act \in Numbers /\ known'[d] # None
    PROVE  \E t \in Turns : /\ turn' = [turn EXCEPT ![d] = t] /\ Place(d)'
                            /\ t.at # "release"
<1>1. CASE Rests(d)
  <2>1. turn' = [turn EXCEPT ![d] = Idle] /\ turn'[d] = Idle /\ Idle.at # "release"
    BY <1>1 DEF Rests, TypeOK, Idle
  <2> QED
    BY <2>1, IdleStands
<1>2. CASE turn' = [turn EXCEPT ![d] =
          [Idle EXCEPT !.at = IF alive THEN "look" ELSE "launch", !.act = act]]
  <2> DEFINE t == [Idle EXCEPT !.at = IF alive THEN "look" ELSE "launch", !.act = act]
  <2>1. t \in Turns /\ t.at \in {"look", "launch"} /\ (t.at = "launch" => ~alive)
        /\ (t.at = "look" => alive) /\ t.act = act /\ t.prune = {}
    BY IdleStands DEF Turns, Places, Idle
  <2> HIDE DEF t
  <2>2. turn' = [turn EXCEPT ![d] = t] /\ turn'[d] = t
    BY <1>2 DEF TypeOK, t
  <2>3. Place(d)'
    BY <2>1, <2>2 DEF Place, Reading, Claiming, Pruning
  <2> QED
    BY <2>1, <2>2, <2>3
<1> QED
  BY <1>1, <1>2 DEF Answered

\* A daemon that knows what it knew still does.
LEMMA KnowsStays ==
    ASSUME IInv, NEW d \in Daemons, UNCHANGED <<acts, jobs, holder>>, known'[d] = known[d]
    PROVE  Knows(d)'
BY DEF IInv, Knows, Over

-----------------------------------------------------------------------------
(* The reads.                                                              *)

LEMMA ListKeeps ==
    ASSUME IInv, NEW d \in Daemons, List(d) PROVE IInv' /\ Onward
<1> USE DEF IInv
<1>1. UNCHANGED <<acts, jobs, holder>> /\ known' = known
  BY DEF List
<1>2. known' = [known EXCEPT ![d] = known[d]] /\ known[d] \in Readers \cup {None}
      /\ known'[d] = known[d]
  BY <1>1 DEF TypeOK
<1>3. Knows(d)'
  BY <1>1, KnowsStays
<1>4. CASE Answered(d, 0, FALSE)
  BY <1>1, <1>2, <1>3, <1>4, AnsweredFacts, TurnMoves
<1>5. CASE Rests(d)
  <2>1. turn' = [turn EXCEPT ![d] = Idle] /\ turn'[d] = Idle /\ Idle.at # "release"
    BY <1>5 DEF Rests, TypeOK, Idle
  <2> QED
    BY <1>1, <1>2, <1>3, <2>1, IdleStands, TurnMoves
<1>6. ASSUME NEW n \in Listed, IsNewest(n),
             turn' = [turn EXCEPT ![d] = [Idle EXCEPT !.at = "record", !.act = n]]
      PROVE  IInv' /\ Onward
  <2> DEFINE t == [Idle EXCEPT !.at = "record", !.act = n]
  <2>0. n \in Numbers /\ n \in Nat
    BY <1>6 DEF Listed, Numbers
  <2>1. t \in Turns /\ t.at = "record" /\ t.act = n /\ t.prune = {}
    BY <2>0, IdleStands DEF Turns, Places, Idle
  <2> HIDE DEF t
  <2>2. turn' = [turn EXCEPT ![d] = t] /\ turn'[d] = t
    BY <1>6 DEF TypeOK, t
  <2>3. AtLeast(n)'
    BY <1>1, <1>6 DEF AtLeast, Listed, Numbers
  <2>4. Place(d)'
    BY <2>0, <2>1, <2>2, <2>3 DEF Place, Reading, Claiming, Pruning
  <2> QED
    BY <1>1, <1>2, <1>3, <2>1, <2>2, <2>4, TurnMoves
<1> QED
  BY <1>4, <1>5, <1>6 DEF List

LEMMA VanishedKeeps ==
    ASSUME IInv, NEW d \in Daemons, UNCHANGED <<acts, jobs, holder, known>>, Vanished(d)
    PROVE  IInv' /\ Onward
<1> USE DEF IInv
<1> DEFINE t == [turn[d] EXCEPT !.at = "list", !.vanished = Act(d)]
<1>1. turn[d] \in Turns /\ Place(d)
  BY DEF TypeOK
<1>2. t \in Turns /\ t.at = "list" /\ t.act = turn[d].act /\ t.prune = turn[d].prune
  BY <1>1 DEF Turns, Places, Act
<1>3. turn' = [turn EXCEPT ![d] = t]
  BY DEF Vanished, TypeOK
<1> HIDE DEF t
<1>4. turn'[d] = t
  BY <1>3 DEF TypeOK
<1>5. Place(d)'
  BY <1>1, <1>2, <1>4 DEF Place, Reading, Claiming, Pruning
<1>6. known' = [known EXCEPT ![d] = known[d]] /\ known[d] \in Readers \cup {None} /\ Knows(d)'
  BY KnowsStays DEF TypeOK
<1> QED
  BY <1>2, <1>3, <1>5, <1>6, TurnMoves

\* A reader moves on to a place of its reading with an act and what it knows of
\* the act's job.
LEMMA ReadingMoves ==
    ASSUME IInv, NEW d \in Daemons, UNCHANGED <<acts, jobs, holder>>,
           NEW t \in Turns, turn' = [turn EXCEPT ![d] = t], t.at \in Reading,
           t.act = turn[d].act, t.prune = turn[d].prune,
           NEW k \in Readers, known' = [known EXCEPT ![d] = k], k # None,
           k.job \in DOMAIN jobs, ~k.ours => Over(k.job),
           k.final = None, jobs[k.job].act = t.act, Its(t.act, k.job)
    PROVE  IInv' /\ Onward
<1> USE DEF IInv
<1>1. turn'[d] = t /\ known'[d] = k /\ Place(d) /\ t.at # "release"
  BY DEF TypeOK, Reading
<1>2. Knows(d)'
  BY <1>1 DEF Knows, Over
<1>3. Its(t.act, k.job)'
  BY <1>1 DEF Its, Above, Listed
<1>3a. t.act \in Numbers /\ \A n \in t.prune : n < t.act + 1
  <2>1. jobs[k.job] \in Jobs
    BY LenProperties DEF TypeOK
  <2> QED
    BY <1>1, <2>1 DEF Jobs, Place
<1>4. Place(d)'
  BY <1>1, <1>3, <1>3a DEF Place, Reading, Claiming, Pruning
<1> QED
  BY <1>1, <1>2, <1>4, TurnMoves

LEMMA ReadRecordKeeps ==
    ASSUME ToldApart, IInv, NEW d \in Daemons, ReadRecord(d) PROVE IInv' /\ Onward
<1> USE DEF IInv
<1>0. PICK a : a = turn[d].act
  OBVIOUS
<1>1. UNCHANGED <<acts, jobs, holder>> /\ turn[d].at = "record"
  BY DEF ReadRecord, At
<1>2. Place(d) /\ turn[d] \in Turns /\ a \in Numbers /\ AtLeast(a) /\ a \in Nat
  <2>1. Place(d) /\ turn[d] \in Turns
    BY DEF TypeOK
  <2> QED
    BY <1>0, <1>1, <2>1 DEF Place, Turns
<1>3. CASE acts[a] = None /\ Vanished(d) /\ UNCHANGED known
  BY <1>0, <1>1, <1>3, VanishedKeeps
<1>4. PICK r : r = acts[a]
  OBVIOUS
<1>5. CASE r # None
  <2>1. /\ a \in Listed /\ r \in Acts /\ r.job \in DOMAIN jobs /\ jobs[r.job].act = a
        /\ r.old => Over(r.job)
    BY <1>2, <1>4, <1>5 DEF TypeOK, Listed, JobsOK
  <2>2. jobs[r.job] \in Jobs /\ r.job \in Nat
    BY <2>1, LenProperties DEF TypeOK, Acts
  <2>3. Its(a, r.job)
    BY <1>4, <2>1 DEF Its
  <2>4. CASE known[d] # None /\ SameJob(known[d].job, r.job) /\ UNCHANGED known
    <3>1. Knows(d) /\ known[d] \in Readers /\ known[d].job \in DOMAIN jobs
      BY <2>4 DEF Knows, TypeOK
    <3>2. jobs[known[d].job] \in Jobs
      BY <3>1, LenProperties DEF TypeOK
    <3>3. known[d].job = r.job
      BY <1>1, <2>1, <2>4, <3>1, OneJobEach DEF TypeOK
    <3>4. known' = [known EXCEPT ![d] = known[d]] /\ Knows(d)'
      BY <1>1, <2>4, KnowsStays DEF TypeOK
    <3>5a. ~known[d].ours => Over(r.job)
      BY <2>4, <3>1, <3>3 DEF Knows
    <3>5. CASE known[d].final # None /\ Answered(d, known[d].final.act, FALSE)
      <4>1. known[d].final.act = a /\ Over(r.job)
        BY <2>1, <2>4, <3>1, <3>3, <3>5 DEF Knows
      <4>2. Past(a)'
        BY <1>1, <1>2, <1>4, <1>5, <2>1, <4>1 DEF Past, Listed, Over
      <4>3. PICK t \in Turns : /\ turn' = [turn EXCEPT ![d] = t] /\ Place(d)'
                               /\ t.at # "release"
        BY <1>2, <3>5, <4>1, <4>2, AnsweredFacts
      <4> QED
        BY <1>1, <3>1, <3>4, <4>3, TurnMoves
    <3>6. CASE known[d].final = None /\ Steps(d, "alive")
      <4> DEFINE t == [turn[d] EXCEPT !.at = "alive"]
      <4>1. t \in Turns /\ t.at = "alive" /\ t.act = a /\ t.prune = turn[d].prune
            /\ turn' = [turn EXCEPT ![d] = t] /\ t.at \in Reading /\ t.act = turn[d].act
        BY <1>0, <1>2, <3>6 DEF Turns, Places, Steps, TypeOK, Reading
      <4> HIDE DEF t
      <4> QED
        BY <1>1, <2>1, <2>3, <2>4, <3>1, <3>3, <3>4, <3>6, <4>1, <3>5a, ReadingMoves
    <3> QED
      BY <1>0, <1>4, <1>5, <2>4, <3>5, <3>6 DEF ReadRecord, Act
  <2>5. ASSUME NEW ask \in BOOLEAN, ask = (~r.old /\ Alive(jobs[r.job].pid)),
               known' = [known EXCEPT ![d] = [job |-> r.job, ours |-> ask, final |-> None]],
               Steps(d, IF ask THEN "ps" ELSE "alive")
        PROVE  IInv' /\ Onward
    <3> DEFINE t == [turn[d] EXCEPT !.at = IF ask THEN "ps" ELSE "alive"]
               k == [job |-> r.job, ours |-> ask, final |-> None]
    <3>1. t \in Turns /\ t.at \in Reading /\ t.act = a /\ t.prune = turn[d].prune
          /\ t.act = turn[d].act /\ turn' = [turn EXCEPT ![d] = t]
      BY <1>0, <1>2, <2>5 DEF Turns, Places, Steps, TypeOK, Reading
    <3>2. k \in Readers /\ k # None /\ k.job = r.job /\ k.final = None /\ k.ours = ask
      BY <2>2, ActAssumption DEF Readers
    <3>3. ~ask => Over(r.job)
      <4> SUFFICES ASSUME ~ask, ~Over(r.job) PROVE FALSE
        OBVIOUS
      <4>1. ~Alive(jobs[r.job].pid)
        BY <2>1, <2>5
      <4>2. holder[jobs[r.job].pid] = r.job /\ r.job # 0
        BY <2>1, LenProperties DEF JobsOK, TypeOK
      <4> QED
        BY <4>1, <4>2 DEF Alive, Free
    <3>4. known' = [known EXCEPT ![d] = k]
      BY <2>5
    <3> HIDE DEF t, k
    <3> QED
      BY <1>1, <2>1, <2>3, <3>1, <3>2, <3>3, <3>4, ReadingMoves
  <2> QED
    BY <1>0, <1>4, <1>5, <2>4, <2>5 DEF ReadRecord, Act
<1> QED
  BY <1>0, <1>3, <1>4, <1>5 DEF ReadRecord, Act

\* What a daemon at a place of its reading holds.
LEMMA ReadingHolds ==
    ASSUME IInv, NEW d \in Daemons, turn[d].at \in Reading
    PROVE  /\ turn[d] \in Turns /\ turn[d].act \in Numbers /\ turn[d].act \in Nat
           /\ known[d] \in Readers /\ known[d] # None
           /\ known[d].job \in DOMAIN jobs /\ jobs[known[d].job] \in Jobs
           /\ ~known[d].ours => Over(known[d].job)
           /\ known[d].final = None /\ jobs[known[d].job].act = turn[d].act
           /\ Its(turn[d].act, known[d].job)
<1>1. Place(d) /\ Knows(d) /\ TypeOK /\ turn[d] \in Turns
  BY DEF IInv, TypeOK
<1>2. known[d] # None /\ known[d] \in Readers
  BY <1>1 DEF Place, TypeOK
<1>3. known[d].job \in DOMAIN jobs /\ jobs[known[d].job] \in Jobs
  BY <1>1, <1>2, LenProperties DEF Knows, TypeOK
<1> QED
  BY <1>1, <1>2, <1>3 DEF Knows, Place, Turns

LEMMA PsKeeps ==
    ASSUME IInv, NEW d \in Daemons, Ps(d) PROVE IInv' /\ Onward
<1>1. UNCHANGED <<acts, jobs, holder>> /\ turn[d].at = "ps" /\ turn[d].at \in Reading
  BY DEF Ps, At, Reading
<1> DEFINE t == [turn[d] EXCEPT !.at = "alive"]
           j == known[d].job
<1>2. t \in Turns /\ t.at \in Reading /\ t.act = turn[d].act /\ t.prune = turn[d].prune
      /\ turn' = [turn EXCEPT ![d] = t]
  <2>1. turn[d] \in Turns /\ turn \in [Daemons -> Turns]
    BY DEF IInv, TypeOK
  <2>2. "alive" \in Places /\ "alive" \in Reading
    BY DEF Places, Reading
  <2>3. t \in Turns /\ t.at = "alive" /\ t.act = turn[d].act /\ t.prune = turn[d].prune
    BY <2>1, <2>2 DEF Turns
  <2>4. turn' = [turn EXCEPT ![d].at = "alive"]
    BY DEF Ps, Steps
  <2>5. turn' = [turn EXCEPT ![d] = t]
    BY <2>1, <2>4
  <2> QED BY <2>2, <2>3, <2>5
<1>3. PICK leader \in {None, holder[Pid(d)]} \ {Free} :
          known' = [known EXCEPT ![d].ours = ~jobs[j].told \/ leader \in {None, j}]
  BY DEF Ps
<1> DEFINE k == [known[d] EXCEPT !.ours = ~jobs[j].told \/ leader \in {None, j}]
<1>4. known' = [known EXCEPT ![d] = k]
  BY <1>1, <1>3, ReadingHolds DEF IInv, TypeOK
<1>5. /\ k \in Readers /\ k.job = j /\ k.final = known[d].final /\ k # None
      /\ k.ours <=> (~jobs[j].told \/ leader \in {None, j})
  BY <1>1, ReadingHolds, ActAssumption DEF Readers
<1>6. ~k.ours => Over(j)
  BY <1>1, <1>3, <1>5, ReadingHolds, ActAssumption DEF IInv, JobsOK, Pid
<1>7. /\ k.job \in DOMAIN jobs /\ k.final = None /\ jobs[k.job].act = t.act
      /\ Its(t.act, k.job) /\ (~k.ours => Over(k.job))
  BY <1>1, <1>2, <1>5, <1>6, ReadingHolds
<1> HIDE DEF t, k
<1> QED
  BY <1>1, <1>2, <1>4, <1>5, <1>7, ReadingMoves

LEMMA AskAliveKeeps ==
    ASSUME IInv, NEW d \in Daemons, AskAlive(d) PROVE IInv' /\ Onward
<1>1. UNCHANGED <<acts, jobs, holder>> /\ turn[d].at = "alive" /\ turn[d].at \in Reading
  BY DEF AskAlive, At, Reading
<1> DEFINE t == [turn[d] EXCEPT !.at = "verdict"]
           j == known[d].job
           k == [known[d] EXCEPT !.ours = @ /\ Alive(Pid(d))]
<1>2. t \in Turns /\ t.at \in Reading /\ t.act = turn[d].act /\ t.prune = turn[d].prune
      /\ turn' = [turn EXCEPT ![d] = t]
  BY <1>1, ReadingHolds DEF Turns, Places, Steps, Reading, IInv, TypeOK, AskAlive
<1>4. known' = [known EXCEPT ![d] = k]
  BY <1>1, ReadingHolds DEF IInv, TypeOK, AskAlive
<1>5. /\ k \in Readers /\ k.job = j /\ k.final = known[d].final /\ k # None
      /\ k.ours <=> (known[d].ours /\ Alive(Pid(d)))
  BY <1>1, ReadingHolds, ActAssumption DEF Readers, Alive
<1>6. ~k.ours => Over(j)
  <2> SUFFICES ASSUME known[d].ours, ~Alive(Pid(d)), ~Over(j) PROVE FALSE
    BY <1>1, <1>5, ReadingHolds
  <2>1. holder[jobs[j].pid] = j /\ j # 0
    BY <1>1, ReadingHolds, LenProperties DEF IInv, JobsOK, TypeOK
  <2> QED
    BY <2>1 DEF Alive, Free, Pid
<1>7. /\ k.job \in DOMAIN jobs /\ k.final = None /\ jobs[k.job].act = t.act
      /\ Its(t.act, k.job) /\ (~k.ours => Over(k.job))
  BY <1>1, <1>2, <1>5, <1>6, ReadingHolds
<1> HIDE DEF t, k
<1> QED
  BY <1>1, <1>2, <1>4, <1>5, <1>7, ReadingMoves

LEMMA ReadVerdictKeeps ==
    ASSUME IInv, NEW d \in Daemons, ReadVerdict(d) PROVE IInv' /\ Onward
<1>1. UNCHANGED <<acts, jobs, holder, known>> /\ turn[d].at = "verdict" /\ turn[d].at \in Reading
  BY DEF ReadVerdict, At, Reading
<1> DEFINE a == turn[d].act
           end == IF acts[a] = None THEN None ELSE acts[a].end
           t == [turn[d] EXCEPT !.at = "exists", !.end = end]
<1>2. end \in Ends
  BY <1>1, ReadingHolds DEF IInv, TypeOK, Acts, Ends
<1>3. t \in Turns /\ t.at \in Reading /\ t.act = a /\ t.prune = turn[d].prune
      /\ turn' = [turn EXCEPT ![d] = t]
  <2> HIDE DEF end
  <2>1. t \in Turns /\ t.at \in Reading /\ t.act = a /\ t.prune = turn[d].prune
    BY <1>1, <1>2, ReadingHolds DEF Turns, Places, Reading
  <2>2. turn' = [turn EXCEPT ![d] = t]
    BY <1>1, ReadingHolds DEF IInv, TypeOK, ReadVerdict, Act, end
  <2> QED
    BY <2>1, <2>2
<1>4. known' = [known EXCEPT ![d] = known[d]]
  BY <1>1, ReadingHolds DEF IInv, TypeOK
<1>5. UNCHANGED <<acts, jobs, holder>>
  BY <1>1
<1>6. PICK k \in Readers : k = known[d] /\ k # None
  BY <1>1, ReadingHolds
<1>7. /\ k.job \in DOMAIN jobs /\ k.final = None /\ jobs[k.job].act = t.act
      /\ Its(t.act, k.job) /\ (~k.ours => Over(k.job))
  BY <1>1, <1>3, <1>6, ReadingHolds
<1> HIDE DEF t
<1> QED
  BY <1>1, <1>3, <1>4, <1>5, <1>6, <1>7, ReadingMoves

LEMMA ExistsKeeps ==
    ASSUME IInv, NEW d \in Daemons, Exists(d) PROVE IInv' /\ Onward
<1>0. PICK a : a = turn[d].act
  OBVIOUS
<1> DEFINE j == known[d].job
<1>1. UNCHANGED <<acts, jobs, holder>> /\ turn[d].at = "exists" /\ turn[d].at \in Reading
  BY DEF Exists, At, Reading
<1>2. CASE acts[a] = None
  BY <1>0, <1>1, <1>2, VanishedKeeps DEF Exists, Act
<1>3. CASE acts[a] # None
  <2>1. Answered(d, a, known[d].ours)
    BY <1>0, <1>3 DEF Exists, Act
  <2>2. a # 0 /\ known[d].ours \in BOOLEAN /\ (~known[d].ours => Past(a)')
    <3>1. a # 0 /\ known[d].ours \in BOOLEAN
      BY <1>0, <1>1, ReadingHolds DEF Readers, Numbers
    <3>2. ASSUME ~known[d].ours PROVE Past(a)
      BY <1>0, <1>1, <3>2, ReadingHolds DEF Its, Past
    <3>3. Past(a) => Past(a)'
      BY <1>0, <1>1 DEF Past, Above, Listed, Over
    <3> QED
      BY <3>1, <3>2, <3>3
  <2>3. PICK f \in Facts : f = [act |-> a, end |-> turn[d].end]
    BY <1>0, <1>1, ReadingHolds DEF Facts, Turns
  <2>4. PICK k \in Readers : /\ known' = [known EXCEPT ![d] = k] /\ k # None
                             /\ k.job = j /\ k.ours = known[d].ours
                             /\ k.final # None => ~k.ours /\ k.final.act = a
    <3>1. CASE known[d].ours
      <4>1. known' = [known EXCEPT ![d] = known[d]]
        BY <1>0, <1>1, <1>3, <3>1, ReadingHolds DEF Exists, Act, IInv, TypeOK
      <4> QED
        BY <1>0, <1>1, <4>1, ReadingHolds
    <3>2. CASE ~known[d].ours
      <4> DEFINE k == [known[d] EXCEPT !.final = f]
      <4>1. known' = [known EXCEPT ![d] = k]
        BY <1>0, <1>1, <1>3, <2>3, <3>2, ReadingHolds DEF Exists, Act, IInv, TypeOK
      <4>2. k \in Readers /\ k.job = j /\ k.ours = known[d].ours /\ k.final = f
            /\ k # None
        BY <1>0, <1>1, <2>3, ReadingHolds, ActAssumption DEF Readers
      <4>3. f.act = a
        BY <2>3
      <4> HIDE DEF k
      <4> QED
        BY <3>2, <4>1, <4>2, <4>3
    <3> QED
      BY <3>1, <3>2
  <2>5. known'[d] = k
    BY <2>4 DEF IInv, TypeOK
  <2>6. Knows(d)'
    BY <1>0, <1>1, <2>4, <2>5, ReadingHolds DEF Knows, Over
  <2>7. PICK t \in Turns : turn' = [turn EXCEPT ![d] = t] /\ Place(d)' /\ t.at # "release"
    BY <1>0, <1>1, <2>1, <2>2, <2>4, <2>5, ReadingHolds, AnsweredFacts DEF IInv
  <2> QED
    BY <1>0, <1>1, <2>4, <2>6, <2>7, TurnMoves
<1> QED
  BY <1>0, <1>2, <1>3

-----------------------------------------------------------------------------
(* The claims.                                                             *)

\* A daemon's step: the other daemons hold what they held.
LEMMA DaemonMoves ==
    ASSUME IInv, Onward, TypeOK', JobsOK', NewestWrites', NEW d \in Daemons,
           \A e \in Daemons \ {d} : turn'[e] = turn[e] /\ known'[e] = known[e],
           Knows(d)', Place(d)'
    PROVE  IInv' /\ Onward
BY PlaceStays DEF IInv

\* A step that commits no job to the bundle and leaves the acts' jobs alone.
LEMMA NewestStays ==
    ASSUME IInv, DOMAIN jobs' = DOMAIN jobs, Listed' = Listed,
           \A n \in Listed : acts'[n].job = acts[n].job,
           \A j \in DOMAIN jobs : /\ jobs'[j].act = jobs[j].act
                                  /\ Committed(j)' => Committed(j)
    PROVE  NewestWrites'
BY DEF IInv, NewestWrites, IsNewest

\* A gate shuts, or a group is ended, and its daemon rests.
LEMMA GroupsOverKeeps ==
    ASSUME IInv, NEW d \in Daemons, NEW P, GroupsOver(P), Rests(d),
           acts' \in [Numbers -> Acts \cup {None}], Onward, JobsOK', NewestWrites',
           NEW k \in Readers \cup {None}, known' = [known EXCEPT ![d] = k],
           k = None \/ k = known[d]
    PROVE  IInv' /\ Onward
<1> USE DEF IInv
<1>1. TypeOK'
  BY GroupsOverFacts, IdleStands DEF TypeOK, Rests
<1>2. /\ turn'[d] = Idle /\ known'[d] = k
      /\ \A e \in Daemons \ {d} : turn'[e] = turn[e] /\ known'[e] = known[e]
  BY DEF TypeOK, Rests
<1>3. Knows(d)'
  <2>1. Knows(d)
    OBVIOUS
  <2> QED
    BY <1>2, <2>1 DEF Knows, Onward
<1> QED
  BY <1>1, <1>2, <1>3, IdleStands, DaemonMoves

LEMMA JobFacts ==
    ASSUME TypeOK, NEW j \in DOMAIN jobs
    PROVE  /\ j \in Nat /\ j # 0
           /\ jobs[j].pid \in Pids /\ jobs[j].phase \in Phases /\ jobs[j].act \in Numbers
<1>1. j \in Nat /\ j # 0 /\ jobs[j] \in Jobs
  BY LenProperties DEF TypeOK
<1> QED
  BY <1>1 DEF Jobs

\* A job enters another phase.
LEMMA PhaseMoves ==
    ASSUME TypeOK, NEW j \in DOMAIN jobs, NEW phase \in Phases,
           jobs' = [jobs EXCEPT ![j].phase = phase]
    PROVE  /\ jobs' \in Seq(Jobs) /\ DOMAIN jobs' = DOMAIN jobs
           /\ \A i \in DOMAIN jobs :
                /\ jobs'[i].pid = jobs[i].pid /\ jobs'[i].act = jobs[i].act
                /\ jobs'[i].phase = IF i = j THEN phase ELSE jobs[i].phase
<1>1. Len(jobs) \in Nat /\ DOMAIN jobs = 1..Len(jobs) /\ \A i \in DOMAIN jobs : jobs[i] \in Jobs
  BY LenProperties DEF TypeOK
<1>2. DOMAIN jobs' = DOMAIN jobs /\ \A i \in DOMAIN jobs :
        /\ jobs'[i] \in Jobs
        /\ jobs'[i].pid = jobs[i].pid /\ jobs'[i].act = jobs[i].act
        /\ jobs'[i].phase = IF i = j THEN phase ELSE jobs[i].phase
  BY <1>1 DEF Jobs
<1>3. jobs' \in [1..Len(jobs) -> Jobs]
  BY <1>1, <1>2
<1> QED
  BY <1>1, <1>2, <1>3

\* A gate shuts unopened.
LEMMA WithdrawKeeps ==
    ASSUME IInv, NEW d \in Daemons, NEW P, GroupsOver(P), Rests(d), acts' = acts,
           NEW k \in Readers \cup {None}, known' = [known EXCEPT ![d] = k],
           k = None \/ k = known[d]
    PROVE  IInv' /\ Onward
<1> USE DEF IInv
<1>1. /\ jobs' \in Seq(Jobs) /\ DOMAIN jobs' = DOMAIN jobs
      /\ \A j \in DOMAIN jobs :
           /\ jobs'[j].pid = jobs[j].pid /\ jobs'[j].act = jobs[j].act
           /\ jobs'[j].phase \in {jobs[j].phase, "over"}
           /\ ~Over(j)' => holder'[jobs'[j].pid] = j
  BY GroupsOverFacts
<1>2. Onward
  BY <1>1 DEF Onward, Over, Listed
<1>3. JobsOK'
  BY <1>1 DEF JobsOK, Over, Listed
<1>4. \A j \in DOMAIN jobs : Committed(j)' => Committed(j)
  BY <1>1, IdleStands DEF Committed, Writing, Rests, TypeOK, Idle
<1>5. NewestWrites'
  BY <1>1, <1>4, NewestStays DEF Listed
<1>6. acts' \in [Numbers -> Acts \cup {None}]
  BY DEF TypeOK
<1> QED
  BY <1>2, <1>3, <1>5, <1>6, GroupsOverKeeps

LEMMA LaunchKeeps ==
    ASSUME IInv, NEW d \in Daemons, Launch(d) PROVE IInv' /\ Onward
<1> USE DEF IInv
<1>1. TypeOK /\ JobsOK /\ Place(d) /\ turn[d].at = "launch" /\ turn[d] \in Turns
  BY DEF TypeOK, Launch, At
<1>2. PICK p \in Pids, c \in Numbers, n \in Nat, told \in BOOLEAN, job \in Jobs :
        /\ holder[p] = Free /\ c = turn[d].act + 1 /\ n = Len(jobs) + 1
        /\ job = [pid |-> p, phase |-> "gated", act |-> c, told |-> told]
        /\ jobs' = Append(jobs, job) /\ holder' = [holder EXCEPT ![p] = n]
  <2>1. Len(jobs) + 1 \in Nat /\ Claimed(d) \in Numbers /\ Claimed(d) = turn[d].act + 1
    BY <1>1, LenProperties DEF TypeOK, Launch, Claimed
  <2>2. PICK p \in Pids, told \in BOOLEAN :
          /\ ~Alive(p)
          /\ jobs' = Append(jobs, [pid |-> p, phase |-> "gated",
                                   act |-> Claimed(d), told |-> told])
          /\ holder' = [holder EXCEPT ![p] = Len(jobs) + 1]
    BY DEF Launch
  <2>3. [pid |-> p, phase |-> "gated", act |-> Claimed(d), told |-> told] \in Jobs
    BY <2>1 DEF Jobs, Phases
  <2> QED
    BY <2>1, <2>2, <2>3 DEF Alive
<1>3. /\ jobs' \in Seq(Jobs) /\ DOMAIN jobs' = DOMAIN jobs \cup {n}
      /\ n \notin DOMAIN jobs /\ jobs'[n] = job /\ DOMAIN jobs \subseteq Nat
      /\ \A j \in DOMAIN jobs : jobs'[j] = jobs[j] /\ j # 0 /\ jobs[j] \in Jobs
  BY <1>1, <1>2, AppendProperties, LenProperties DEF TypeOK
<1>4. PICK t \in Turns : /\ turn' = [turn EXCEPT ![d] = t] /\ t.at = "stake"
                         /\ t.mine = n /\ t.act = turn[d].act /\ t.prune = turn[d].prune
  <2> DEFINE t == [turn[d] EXCEPT !.at = "stake", !.mine = n]
  <2>1. turn' = [turn EXCEPT ![d] = t]
    BY <1>1, <1>2 DEF Launch, TypeOK
  <2>2. t \in Turns /\ t.at = "stake" /\ t.mine = n /\ t.act = turn[d].act /\ t.prune = turn[d].prune
    BY <1>1 DEF Turns, Places, Claiming
  <2> QED
    BY <2>1, <2>2
<1>5. /\ turn'[d] = t /\ known' = known /\ acts' = acts
      /\ \A e \in Daemons \ {d} : turn'[e] = turn[e] /\ known'[e] = known[e]
  BY <1>4 DEF TypeOK, Launch
<1>6. TypeOK'
  BY <1>2, <1>3, <1>4, <1>5 DEF TypeOK
<1>7. Onward
  BY <1>3, <1>5 DEF Onward, Listed, Over
<1>8. JobsOK'
  <2>1. ASSUME NEW j \in DOMAIN jobs', ~Over(j)' PROVE holder'[jobs'[j].pid] = j
    <3>1. CASE j = n
      BY <1>1, <1>2, <1>3, <3>1 DEF TypeOK
    <3>2. CASE j \in DOMAIN jobs
      <4>1. holder[jobs[j].pid] = j /\ jobs[j].pid \in Pids /\ j # Free
        BY <1>3, <2>1, <3>2 DEF JobsOK, Over, Jobs, Free
      <4> QED
        BY <1>1, <1>2, <1>3, <3>2, <4>1 DEF TypeOK
    <3> QED
      BY <1>3, <3>1, <3>2
  <2>2. ASSUME NEW m \in Listed'
        PROVE  (/\ acts[m].job \in DOMAIN jobs /\ jobs[acts[m].job].act = m
                /\ acts[m].old => Over(acts[m].job))'
    BY <1>3, <1>5 DEF JobsOK, Listed, Over
  <2> QED
    BY <2>1, <2>2 DEF JobsOK
<1>9. NewestWrites'
  <2> SUFFICES ASSUME NEW j \in DOMAIN jobs', Committed(j)'
               PROVE  (IsNewest(jobs[j].act) /\ acts[jobs[j].act].job = j)'
    BY DEF NewestWrites
  <2>1. j # n
    <3> SUFFICES ASSUME j = n PROVE FALSE
      OBVIOUS
    <3>1. PICK e \in Daemons : turn'[e].at = "release" /\ turn'[e].mine = n
      BY <1>2, <1>3 DEF Committed, Writing
    <3>2. e # d /\ turn[e].at = "release" /\ turn[e].mine = n
      BY <1>4, <1>5, <3>1
    <3>3. Place(e)
      OBVIOUS
    <3> QED
      BY <1>3, <3>2, <3>3 DEF Place, Claiming
  <2>2. j \in DOMAIN jobs /\ jobs'[j] = jobs[j]
    BY <1>3, <2>1
  <2>3. Committed(j)
    BY <1>4, <1>5, <2>2 DEF Committed, Writing
  <2> QED
    BY <1>5, <2>2, <2>3 DEF NewestWrites, IsNewest, Listed
<1>10. Knows(d)'
  <2>1. Knows(d)
    OBVIOUS
  <2> QED
    BY <1>3, <1>5, <2>1 DEF Knows, Over
<1>11. Place(d)'
  <2>1. t.act # 0 => Past(t.act)'
    BY <1>1, <1>4, <1>7, ItsStays DEF Place, Turns
  <2>2. t.mine \in DOMAIN jobs' /\ jobs'[t.mine].act = t.act + 1
    BY <1>2, <1>3, <1>4
  <2> QED
    BY <1>1, <1>4, <1>5, <2>1, <2>2 DEF Place, Reading, Claiming, Pruning
<1> QED
  BY <1>5, <1>6, <1>7, <1>8, <1>9, <1>10, <1>11, DaemonMoves

LEMMA StakeKeeps ==
    ASSUME IInv, NEW d \in Daemons, Stake(d) PROVE IInv' /\ Onward
<1> USE DEF IInv
<1>1. TypeOK /\ JobsOK /\ Place(d) /\ turn[d].at = "stake" /\ turn[d] \in Turns
      /\ known' = known
  BY DEF TypeOK, Stake, At
<1>2. PICK c \in Numbers, j \in DOMAIN jobs :
        c = turn[d].act + 1 /\ j = turn[d].mine /\ jobs[j].act = c
  <2>1. turn[d].mine \in DOMAIN jobs /\ jobs[turn[d].mine].act = turn[d].act + 1
    BY <1>1 DEF Place, Claiming
  <2>2. jobs[turn[d].mine] \in Jobs
    BY <1>1, <2>1, LenProperties DEF TypeOK
  <2> QED
    BY <2>1, <2>2 DEF Jobs
<1>3. CASE acts[c] # None
  <2>1. Rests(d) /\ acts' = acts /\ GroupsOver({p \in Pids : holder[p] = j})
    BY <1>2, <1>3 DEF Stake, Claimed, Withdraw
  <2>2. known' = [known EXCEPT ![d] = known[d]] /\ known[d] \in Readers \cup {None}
    BY <1>1 DEF TypeOK
  <2> QED
    BY <2>1, <2>2, WithdrawKeeps
<1>4. CASE acts[c] = None
  <2>1. PICK act \in Acts : act.job = j /\ act.old = FALSE /\ act # None
                            /\ acts' = [acts EXCEPT ![c] = act]
    <3> DEFINE act == [job |-> j, old |-> FALSE, end |-> None]
    <3>1. acts' = [acts EXCEPT ![c] = act]
      BY <1>2, <1>4 DEF Stake, Claimed
    <3>2. j \in Nat
      BY <1>1, LenProperties DEF TypeOK
    <3>3. act \in Acts
      BY <3>2 DEF Acts, Ends
    <3> QED
      BY <3>1, <3>3, ActAssumption
  <2>2. /\ Steps(d, "relist") /\ UNCHANGED <<jobs, holder>>
    BY <1>2, <1>4 DEF Stake, Claimed
  <2>3. PICK t \in Turns : /\ turn' = [turn EXCEPT ![d] = t] /\ t.at = "relist"
                           /\ t.mine = j /\ t.act = turn[d].act /\ t.prune = turn[d].prune
    <3> DEFINE t == [turn[d] EXCEPT !.at = "relist"]
    <3>1. turn' = [turn EXCEPT ![d] = t]
      BY <1>1, <2>2 DEF Steps, TypeOK
    <3>2. t \in Turns /\ t.at = "relist" /\ t.mine = j /\ t.act = turn[d].act /\ t.prune = turn[d].prune
      BY <1>1, <1>2 DEF Turns, Places, Claiming
    <3> QED
      BY <3>1, <3>2
  <2>4. /\ turn'[d] = t /\ known'[d] = known[d]
        /\ \A e \in Daemons \ {d} : turn'[e] = turn[e] /\ known'[e] = known[e]
    BY <1>1, <2>3 DEF TypeOK
  <2>5. /\ acts' \in [Numbers -> Acts \cup {None}] /\ acts'[c] = act
        /\ \A n \in Numbers \ {c} : acts'[n] = acts[n]
        /\ Listed' = Listed \cup {c} /\ c \notin Listed
    BY <1>1, <1>4, <2>1 DEF TypeOK, Listed
  <2>6. TypeOK'
    BY <1>1, <2>2, <2>3, <2>5 DEF TypeOK
  <2>7. Onward
    BY <2>2, <2>5 DEF Onward, Listed, Over
  <2>8. JobsOK'
    <3>1. ASSUME NEW n \in Listed'
          PROVE  (/\ acts[n].job \in DOMAIN jobs /\ jobs[acts[n].job].act = n
                  /\ acts[n].old => Over(acts[n].job))'
      BY <1>1, <1>2, <2>1, <2>2, <2>5 DEF JobsOK, Listed, Over
    <3> QED
      BY <1>1, <2>2, <3>1 DEF JobsOK, Over
  <2>9. NewestWrites'
    <3> SUFFICES ASSUME NEW i \in DOMAIN jobs, Committed(i)'
                 PROVE  (IsNewest(jobs[i].act) /\ acts[jobs[i].act].job = i)'
      BY <2>2 DEF NewestWrites
    <3>1. Committed(i)
      BY <2>2, <2>3, <2>4 DEF Committed, Writing
    <3>2. PICK a \in Listed : a = jobs[i].act /\ IsNewest(a) /\ acts[a].job = i
      BY <3>1 DEF NewestWrites, IsNewest
    <3>3. ~Over(i)
      BY <3>1 DEF Committed, Writing, Over
    <3>4. a > turn[d].act
      <4>1. CASE turn[d].act = 0
        BY <4>1 DEF Listed, Numbers
      <4>2. CASE turn[d].act # 0
        <5>1. Past(turn[d].act) /\ turn[d].act \in Nat
          BY <1>1, <4>2 DEF Place, Turns
        <5>2. CASE Above(turn[d].act)
          BY <3>2, <5>1, <5>2 DEF Above, IsNewest, Listed, Numbers
        <5>3. CASE turn[d].act \in Listed /\ Over(acts[turn[d].act].job)
          BY <3>2, <3>3, <5>1, <5>3 DEF IsNewest, Listed, Numbers
        <5> QED
          BY <5>1, <5>2, <5>3 DEF Past
      <4> QED
        BY <4>1, <4>2
    <3>5. a > c
      BY <1>1, <1>2, <2>5, <3>2, <3>4 DEF Listed, Numbers, Turns
    <3>6. IsNewest(a)' /\ acts'[a].job = i
      BY <2>5, <3>2, <3>5 DEF IsNewest, Listed, Numbers
    <3> QED
      BY <2>2, <3>2, <3>6
  <2>10. Knows(d)'
    <3>1. Knows(d)
      OBVIOUS
    <3> QED
      BY <2>2, <2>4, <3>1 DEF Knows, Over
  <2>11. Place(d)'
    <3>1. Its(c, j)'
      BY <2>1, <2>5 DEF Its
    <3> QED
      BY <1>1, <1>2, <2>2, <2>3, <2>4, <3>1 DEF Place, Reading, Claiming, Pruning
  <2> QED
    BY <2>4, <2>6, <2>7, <2>8, <2>9, <2>10, <2>11, DaemonMoves
<1> QED
  BY <1>3, <1>4

LEMMA RelistKeeps ==
    ASSUME IInv, NEW d \in Daemons, Relist(d) PROVE IInv' /\ Onward
<1> USE DEF IInv
<1>1. TypeOK /\ Place(d) /\ turn[d].at = "relist" /\ turn[d] \in Turns
      /\ UNCHANGED <<acts, jobs, holder>> /\ known' = known
  BY DEF TypeOK, Relist, At
<1>2. PICK k \in Readers \cup {None} : k = known[d] /\ known' = [known EXCEPT ![d] = k]
  BY <1>1 DEF TypeOK
<1>3. PICK c \in Nat, j \in DOMAIN jobs : c = turn[d].act + 1 /\ j = turn[d].mine
                                          /\ jobs[j].act = c /\ Its(c, j)
  BY <1>1 DEF Place, Claiming, Turns
<1>4. PICK at \in {"unstake", "release"} :
        Steps(d, at) /\ (at = "unstake" <=> Above(c))
  <2>1. Above(c) <=> \E n \in Listed : n > Claimed(d)
    BY <1>3 DEF Above, Claimed
  <2> QED
    BY <2>1 DEF Relist
<1>5. PICK t \in Turns : /\ turn' = [turn EXCEPT ![d] = t] /\ t.at = at
                         /\ t.mine = j /\ t.act = turn[d].act /\ t.prune = turn[d].prune
  <2> DEFINE t == [turn[d] EXCEPT !.at = at]
  <2>1. turn' = [turn EXCEPT ![d] = t]
    BY <1>1, <1>4 DEF Steps, TypeOK
  <2>2. t \in Turns /\ t.at = at /\ t.mine = j /\ t.act = turn[d].act /\ t.prune = turn[d].prune
    BY <1>1, <1>3 DEF Turns, Places, Claiming
  <2> QED
    BY <2>1, <2>2
<1>6. turn'[d] = t /\ known'[d] = known[d]
  BY <1>1, <1>5 DEF TypeOK
<1>7. at = "release" => IsNewest(c) /\ acts[c].job = j
  BY <1>3, <1>4 DEF Its, Above, IsNewest, Listed, Numbers
<1>8. Place(d)'
  <2>1. at = "unstake" => Above(c)'
    BY <1>1, <1>4 DEF Above, Listed
  <2>2. at = "release" => AtLeast(c)'
    BY <1>1, <1>3, <1>7 DEF AtLeast, IsNewest, Listed
  <2> QED
    BY <1>1, <1>3, <1>5, <1>6, <2>1, <2>2 DEF Place, Reading, Claiming, Pruning
<1>9. Knows(d)'
  BY <1>1, <1>6, KnowsStays
<1>10. t.at = "release" =>
         \A i \in DOMAIN jobs : i = t.mine /\ ~Over(i) =>
             IsNewest(jobs[i].act) /\ acts[jobs[i].act].job = i
  BY <1>3, <1>5, <1>7
<1> QED
  BY <1>1, <1>2, <1>5, <1>8, <1>9, <1>10, TurnMoves

LEMMA UnstakeKeeps ==
    ASSUME IInv, NEW d \in Daemons, Unstake(d) PROVE IInv' /\ Onward
<1> USE DEF IInv
<1>1. TypeOK /\ JobsOK /\ Place(d) /\ turn[d].at = "unstake" /\ turn[d] \in Turns
      /\ known' = known /\ Rests(d)
  BY DEF TypeOK, Unstake, At
<1>2. PICK P : P = {p \in Pids : holder[p] = turn[d].mine} /\ GroupsOver(P)
  BY DEF Unstake, Withdraw
<1>3. PICK c \in Nat, m \in Listed : c = turn[d].act + 1 /\ m > c
                                     /\ acts' = [acts EXCEPT ![c] = None]
  <2>1. turn[d].act + 1 \in Nat /\ Above(turn[d].act + 1)
    BY <1>1 DEF Place, Turns
  <2>2. acts' = [acts EXCEPT ![turn[d].act + 1] = None]
    BY DEF Unstake, Claimed
  <2> QED
    BY <2>1, <2>2 DEF Above
<1>4. /\ jobs' \in Seq(Jobs) /\ DOMAIN jobs' = DOMAIN jobs
      /\ \A j \in DOMAIN jobs :
           /\ jobs'[j].pid = jobs[j].pid /\ jobs'[j].act = jobs[j].act
           /\ jobs'[j].phase \in {jobs[j].phase, "over"}
           /\ ~Over(j)' => holder'[jobs'[j].pid] = j
  BY <1>1, <1>2, GroupsOverFacts
<1>5. /\ acts' \in [Numbers -> Acts \cup {None}] /\ Listed' = Listed \ {c}
      /\ \A n \in Listed' : acts'[n] = acts[n]
  BY <1>1, <1>3 DEF TypeOK, Listed
<1>6. Onward
  BY <1>3, <1>4, <1>5 DEF Onward, Over, Listed, Numbers
<1>7. JobsOK'
  BY <1>1, <1>4, <1>5 DEF JobsOK, Over
<1>8. NewestWrites'
  <2> SUFFICES ASSUME NEW i \in DOMAIN jobs, Committed(i)'
               PROVE  (IsNewest(jobs[i].act) /\ acts[jobs[i].act].job = i)'
    BY <1>4 DEF NewestWrites
  <2>1. Committed(i)
    BY <1>1, <1>4, IdleStands DEF Committed, Writing, Rests, TypeOK, Idle
  <2>2. IsNewest(jobs[i].act) /\ acts[jobs[i].act].job = i
    BY <2>1 DEF NewestWrites
  <2>3. jobs[i].act # c
    BY <1>3, <2>2 DEF IsNewest, Listed, Numbers
  <2> QED
    BY <1>4, <1>5, <2>2, <2>3 DEF IsNewest
<1>9. known' = [known EXCEPT ![d] = known[d]] /\ known[d] \in Readers \cup {None}
  BY <1>1 DEF TypeOK
<1> QED
  BY <1>1, <1>2, <1>5, <1>6, <1>7, <1>8, <1>9, GroupsOverKeeps

LEMMA ReleaseKeeps ==
    ASSUME IInv, NEW d \in Daemons, Release(d) PROVE IInv' /\ Onward
<1> USE DEF IInv
<1>1. TypeOK /\ JobsOK /\ Place(d) /\ turn[d].at = "release" /\ turn[d] \in Turns
      /\ UNCHANGED <<acts, holder, known>>
  BY DEF TypeOK, Release, At
<1>2. PICK j \in DOMAIN jobs : j = turn[d].mine
  BY <1>1 DEF Place, Claiming
<1>3. /\ jobs' = [jobs EXCEPT ![j].phase = IF @ = "gated" THEN "runs" ELSE @]
      /\ turn' = [turn EXCEPT ![d].at = "older", ![d].mine = None]
  BY <1>2 DEF Release
<1>4. PICK t \in Turns : /\ turn' = [turn EXCEPT ![d] = t] /\ t.at = "older"
                         /\ t.act = turn[d].act /\ t.prune = turn[d].prune
  <2> DEFINE t == [turn[d] EXCEPT !.at = "older", !.mine = None]
  <2>1. turn' = [turn EXCEPT ![d] = t]
    BY <1>1, <1>3 DEF TypeOK
  <2>2. t \in Turns /\ t.at = "older" /\ t.act = turn[d].act /\ t.prune = turn[d].prune
    BY <1>1 DEF Turns, Places, Pruning
  <2> QED
    BY <2>1, <2>2
<1>5. /\ turn'[d] = t /\ known'[d] = known[d]
      /\ \A e \in Daemons \ {d} : turn'[e] = turn[e] /\ known'[e] = known[e]
  BY <1>1, <1>4 DEF TypeOK
<1>6. /\ jobs' \in Seq(Jobs) /\ DOMAIN jobs' = DOMAIN jobs
      /\ \A i \in DOMAIN jobs :
           /\ jobs'[i].pid = jobs[i].pid /\ jobs'[i].act = jobs[i].act
           /\ Over(i)' <=> Over(i)
           /\ Writing(i)' => Writing(i) \/ (i = j /\ jobs[j].phase = "gated")
           /\ jobs'[i].phase = "gated" => jobs[i].phase = "gated"
  <2>1. CASE jobs[j].phase = "gated"
    <3>1. jobs' = [jobs EXCEPT ![j].phase = "runs"]
      BY <1>2, <1>3, <2>1
    <3>2. /\ jobs' \in Seq(Jobs) /\ DOMAIN jobs' = DOMAIN jobs
          /\ \A i \in DOMAIN jobs :
               /\ jobs'[i].pid = jobs[i].pid /\ jobs'[i].act = jobs[i].act
               /\ jobs'[i].phase = IF i = j THEN "runs" ELSE jobs[i].phase
      BY <1>1, <1>2, <3>1, PhaseMoves DEF Phases
    <3> QED
      BY <1>2, <2>1, <3>2 DEF Over, Writing
  <2>2. CASE jobs[j].phase # "gated"
    <3>1. jobs' = jobs
      <4>1. jobs[j] \in Jobs /\ jobs \in [1..Len(jobs) -> Jobs] /\ j \in 1..Len(jobs)
        BY <1>1, <1>2, LenProperties DEF TypeOK
      <4>2. [jobs[j] EXCEPT !.phase = jobs[j].phase] = jobs[j]
        BY <4>1 DEF Jobs
      <4>3. jobs' = [jobs EXCEPT ![j] = [jobs[j] EXCEPT !.phase = jobs[j].phase]]
        BY <1>3, <2>2
      <4>4. jobs' = [jobs EXCEPT ![j] = jobs[j]]
        BY <4>2, <4>3
      <4> QED
        BY <4>1, <4>4
    <3> QED
      BY <1>1, <3>1 DEF TypeOK, Over, Writing
  <2> QED
    BY <2>1, <2>2
<1>7. TypeOK'
  BY <1>1, <1>4, <1>6 DEF TypeOK
<1>8. Onward
  BY <1>1, <1>6 DEF Onward, Listed
<1>9. JobsOK'
  BY <1>1, <1>6 DEF JobsOK, Listed
<1>10. \A i \in DOMAIN jobs : Committed(i)' => Committed(i)
  BY <1>1, <1>2, <1>4, <1>5, <1>6 DEF Committed
<1>11. NewestWrites'
  BY <1>1, <1>6, <1>10, NewestStays DEF Listed
<1>12. Knows(d)'
  <2>1. Knows(d)
    OBVIOUS
  <2> QED
    BY <1>5, <1>6, <2>1 DEF Knows
<1>13. Place(d)'
  <2>1. t.act + 1 \in Nat /\ AtLeast(t.act + 1)
    BY <1>1, <1>4 DEF Place, Pruning, Turns
  <2>2. AtLeast(t.act + 1)'
    BY <1>8, <2>1, AboveStays
  <2> QED
    BY <1>1, <1>4, <1>5, <2>2 DEF Place, Reading, Claiming, Pruning
<1> QED
  BY <1>5, <1>7, <1>8, <1>9, <1>11, <1>12, <1>13, DaemonMoves

LEMMA ListOlderKeeps ==
    ASSUME IInv, NEW d \in Daemons, ListOlder(d) PROVE IInv' /\ Onward
<1> USE DEF IInv
<1>1. TypeOK /\ Place(d) /\ turn[d].at = "older" /\ turn[d] \in Turns
      /\ UNCHANGED <<acts, jobs, holder>> /\ known' = known
  BY DEF TypeOK, ListOlder, At
<1>2. PICK k \in Readers \cup {None} : k = known[d] /\ known' = [known EXCEPT ![d] = k]
  BY <1>1 DEF TypeOK
<1>3. PICK c \in Nat, older \in SUBSET Nat :
        c = turn[d].act + 1 /\ older = {n \in Listed : n < c} /\ AtLeast(c)
  <2>1. turn[d].act + 1 \in Nat /\ AtLeast(turn[d].act + 1)
    BY <1>1 DEF Place, Pruning, Turns
  <2>2. {n \in Listed : n < turn[d].act + 1} \in SUBSET Nat
    BY DEF Listed, Numbers
  <2> QED
    BY <2>1, <2>2
<1>4. PICK t \in Turns : /\ turn' = [turn EXCEPT ![d] = t] /\ t.at = "prune"
                         /\ t.act = turn[d].act /\ t.prune = older
  <2> DEFINE t == [turn[d] EXCEPT !.at = "prune", !.prune = older]
  <2>1. turn' = [turn EXCEPT ![d] = t]
    BY <1>1, <1>3 DEF ListOlder, Claimed, TypeOK
  <2>2. t \in Turns /\ t.at = "prune" /\ t.act = turn[d].act /\ t.prune = older
    BY <1>1 DEF Turns, Places, Pruning
  <2> QED
    BY <2>1, <2>2
<1>5. turn'[d] = t /\ known'[d] = known[d]
  BY <1>1, <1>4 DEF TypeOK
<1>6. Place(d)'
  <2>1. AtLeast(c)'
    BY <1>1, <1>3 DEF AtLeast, Listed
  <2> QED
    BY <1>1, <1>3, <1>4, <1>5, <2>1 DEF Place, Reading, Claiming, Pruning
<1>7. Knows(d)'
  BY <1>1, <1>5, KnowsStays
<1> QED
  BY <1>1, <1>2, <1>4, <1>6, <1>7, TurnMoves

LEMMA PruneKeeps ==
    ASSUME IInv, NEW d \in Daemons, Prune(d) PROVE IInv' /\ Onward
<1> USE DEF IInv
<1>1. TypeOK /\ JobsOK /\ Place(d) /\ turn[d].at = "prune" /\ turn[d] \in Turns
      /\ UNCHANGED <<jobs, holder, known>>
  BY DEF TypeOK, Prune, At
<1>2. CASE Rests(d) /\ UNCHANGED acts
  <2>1. turn' = [turn EXCEPT ![d] = Idle] /\ turn'[d] = Idle /\ Idle.at # "release"
    BY <1>2 DEF Rests, TypeOK, Idle
  <2>2. known' = [known EXCEPT ![d] = known[d]] /\ known[d] \in Readers \cup {None}
        /\ known'[d] = known[d] /\ UNCHANGED <<acts, jobs, holder>>
    BY <1>1, <1>2 DEF TypeOK
  <2>3. Knows(d)'
    BY <2>2, KnowsStays
  <2> QED
    BY <2>1, <2>2, <2>3, IdleStands, TurnMoves
<1>3. ASSUME NEW n \in turn[d].prune, acts' = [acts EXCEPT ![n] = None],
             turn' = [turn EXCEPT ![d].prune = @ \ {n}]
      PROVE  IInv' /\ Onward
  <2>1. PICK m \in Listed : m > n
    BY <1>1, <1>3 DEF Place, Pruning, AtLeast, Listed, Numbers, Turns
  <2>2. PICK t \in Turns : /\ turn' = [turn EXCEPT ![d] = t] /\ t.at = "prune"
                           /\ t.act = turn[d].act /\ t.prune = turn[d].prune \ {n}
    <3> DEFINE t == [turn[d] EXCEPT !.prune = @ \ {n}]
    <3>1. turn' = [turn EXCEPT ![d] = t]
      BY <1>1, <1>3 DEF TypeOK
    <3>2. t \in Turns /\ t.at = "prune" /\ t.act = turn[d].act /\ t.prune = turn[d].prune \ {n}
      BY <1>1 DEF Turns
    <3> QED
      BY <3>1, <3>2
  <2>3. /\ turn'[d] = t /\ known'[d] = known[d]
        /\ \A e \in Daemons \ {d} : turn'[e] = turn[e] /\ known'[e] = known[e]
    BY <1>1, <2>2 DEF TypeOK
  <2>4. /\ acts' \in [Numbers -> Acts \cup {None}] /\ Listed' = Listed \ {n}
        /\ \A i \in Listed' : acts'[i] = acts[i]
    BY <1>1, <1>3 DEF TypeOK, Listed
  <2>5. TypeOK'
    BY <1>1, <2>2, <2>4 DEF TypeOK
  <2>6. Onward
    BY <1>1, <2>1, <2>4 DEF Onward, Over, Listed, Numbers
  <2>7. JobsOK'
    BY <1>1, <2>4 DEF JobsOK, Over
  <2>8. NewestWrites'
    <3> SUFFICES ASSUME NEW i \in DOMAIN jobs, Committed(i)'
                 PROVE  (IsNewest(jobs[i].act) /\ acts[jobs[i].act].job = i)'
      BY <1>1 DEF NewestWrites
    <3>1. Committed(i)
      BY <1>1, <2>2, <2>3 DEF Committed, Writing
    <3>2. IsNewest(jobs[i].act) /\ acts[jobs[i].act].job = i
      BY <3>1 DEF NewestWrites
    <3>3. jobs[i].act # n
      BY <2>1, <3>2 DEF IsNewest, Listed, Numbers
    <3> QED
      BY <1>1, <2>4, <3>2, <3>3 DEF IsNewest
  <2>9. Knows(d)'
    <3>1. Knows(d)
      OBVIOUS
    <3> QED
      BY <1>1, <2>3, <3>1 DEF Knows, Over
  <2>10. Place(d)'
    <3>1. t.act + 1 \in Nat /\ AtLeast(t.act + 1)
      BY <1>1, <2>2 DEF Place, Pruning, Turns
    <3>2. AtLeast(t.act + 1)'
      BY <2>6, <3>1, AboveStays
    <3> QED
      BY <1>1, <2>2, <2>3, <3>2 DEF Place, Reading, Claiming, Pruning
  <2> QED
    BY <2>3, <2>5, <2>6, <2>7, <2>8, <2>9, <2>10, DaemonMoves
<1> QED
  BY <1>2, <1>3 DEF Prune

LEMMA StopKeeps ==
    ASSUME IInv, NEW d \in Daemons, Stop(d) PROVE IInv' /\ Onward
<1>1. known' = [known EXCEPT ![d] = None] /\ None \in Readers \cup {None}
  BY DEF Stop
<1>2. Rests(d) /\ acts' = acts
  BY DEF Stop, Rests
<1>3. PICK P : GroupsOver(P)
  BY DEF Stop, Withdraw
<1> QED
  BY <1>1, <1>2, <1>3, WithdrawKeeps

-----------------------------------------------------------------------------
(* The jobs, and the rest of the machine.                                  *)

\* A step of no daemon.
LEMMA OthersMove ==
    ASSUME IInv, Onward, TypeOK', JobsOK', NewestWrites', UNCHANGED <<turn, known>>
    PROVE  IInv' /\ Onward
BY PlaceStays DEF IInv

\* A job leaves its program behind, and its act may be given an end.
LEMMA LeftKeeps ==
    ASSUME IInv, NEW j \in DOMAIN jobs, Writing(j),
           jobs' = [jobs EXCEPT ![j].phase = "left"], UNCHANGED holder,
           acts' \in [Numbers -> Acts \cup {None}], Listed' = Listed,
           \A n \in Listed : acts'[n].job = acts[n].job /\ acts'[n].old = acts[n].old
    PROVE  /\ Onward /\ JobsOK' /\ jobs' \in Seq(Jobs) /\ DOMAIN jobs' = DOMAIN jobs
           /\ \A i \in DOMAIN jobs : /\ jobs'[i].act = jobs[i].act
                                     /\ Writing(i)' <=> Writing(i)
                                     /\ jobs'[i].phase = "gated" => jobs[i].phase = "gated"
<1> USE DEF IInv
<1>1. /\ jobs' \in Seq(Jobs) /\ DOMAIN jobs' = DOMAIN jobs
      /\ \A i \in DOMAIN jobs :
           /\ jobs'[i].pid = jobs[i].pid /\ jobs'[i].act = jobs[i].act
           /\ jobs'[i].phase = IF i = j THEN "left" ELSE jobs[i].phase
  BY PhaseMoves DEF Phases
<1>2. \A i \in DOMAIN jobs : /\ Over(i)' <=> Over(i)
                             /\ Writing(i)' <=> Writing(i)
                             /\ jobs'[i].phase = "gated" => jobs[i].phase = "gated"
  BY <1>1 DEF Over, Writing
<1>3. Onward
  BY <1>1, <1>2 DEF Onward
<1>4. JobsOK'
  <2>1. ASSUME NEW n \in Listed'
        PROVE  (/\ acts[n].job \in DOMAIN jobs /\ jobs[acts[n].job].act = n
                /\ acts[n].old => Over(acts[n].job))'
    BY <1>1, <1>2 DEF JobsOK
  <2> QED
    BY <1>1, <1>2, <2>1 DEF JobsOK
<1> QED
  BY <1>1, <1>2, <1>3, <1>4

\* An act is given an end.
LEMMA EndGiven ==
    ASSUME TypeOK, NEW n \in Listed, NEW end \in Ends,
           acts' = [acts EXCEPT ![n].end = IF @ = None THEN end ELSE @]
    PROVE  /\ acts' \in [Numbers -> Acts \cup {None}] /\ Listed' = Listed
           /\ \A m \in Listed : acts'[m].job = acts[m].job /\ acts'[m].old = acts[m].old
<1>1. acts[n] \in Acts /\ n \in Numbers
  BY DEF TypeOK, Listed
<1>2. PICK act \in Acts : /\ acts' = [acts EXCEPT ![n] = act] /\ act # None
                          /\ act.job = acts[n].job /\ act.old = acts[n].old
  <2> DEFINE act == [acts[n] EXCEPT !.end = IF @ = None THEN end ELSE @]
  <2>1. acts' = [acts EXCEPT ![n] = act]
    BY <1>1 DEF TypeOK
  <2>2. act \in Acts /\ act.job = acts[n].job /\ act.old = acts[n].old
    BY <1>1 DEF Acts
  <2> QED
    BY <2>1, <2>2, ActAssumption
<1> QED
  BY <1>1, <1>2 DEF TypeOK, Listed

LEMMA FinishKeeps ==
    ASSUME IInv, NEW j \in DOMAIN jobs, Finish(j) \/ Lost(j) PROVE IInv' /\ Onward
<1> USE DEF IInv
<1>1. /\ Writing(j) /\ jobs' = [jobs EXCEPT ![j].phase = "left"]
      /\ UNCHANGED <<holder, turn, known>> /\ jobs[j].act \in Numbers
  BY JobFacts DEF Finish, Lost, Writing
<1>2. /\ acts' \in [Numbers -> Acts \cup {None}] /\ Listed' = Listed
      /\ \A n \in Listed : acts'[n].job = acts[n].job /\ acts'[n].old = acts[n].old
  <2>1. CASE acts' = acts
    BY <2>1 DEF TypeOK, Listed
  <2>2. CASE jobs[j].act \in Listed /\
             acts' = [acts EXCEPT ![jobs[j].act].end = IF @ = None THEN "exit" ELSE @]
    BY <2>2, EndGiven DEF Ends
  <2> QED
    BY <1>1, <2>1, <2>2 DEF Finish, Lost, Listed
<1>3. /\ Onward /\ JobsOK' /\ jobs' \in Seq(Jobs) /\ DOMAIN jobs' = DOMAIN jobs
      /\ \A i \in DOMAIN jobs : /\ jobs'[i].act = jobs[i].act
                                /\ Writing(i)' <=> Writing(i)
                                /\ jobs'[i].phase = "gated" => jobs[i].phase = "gated"
  BY <1>1, <1>2, LeftKeeps
<1>4. TypeOK'
  BY <1>1, <1>2, <1>3 DEF TypeOK
<1>5. \A i \in DOMAIN jobs : Committed(i)' => Committed(i)
  BY <1>1, <1>3 DEF Committed
<1>6. NewestWrites'
  BY <1>2, <1>3, <1>5, NewestStays
<1> QED
  BY <1>1, <1>3, <1>4, <1>6, OthersMove

LEMMA GroupEndsKeeps ==
    ASSUME IInv, NEW j \in DOMAIN jobs, GroupEnds(j) PROVE IInv' /\ Onward
<1> USE DEF IInv
<1>1. /\ UNCHANGED <<acts, turn, known>>
      /\ \E P : GroupsOver(P)
  BY DEF GroupEnds
<1>2. /\ jobs' \in Seq(Jobs) /\ DOMAIN jobs' = DOMAIN jobs
      /\ holder' \in [Pids -> Nat \cup {Stranger}]
      /\ \A i \in DOMAIN jobs :
           /\ jobs'[i].pid = jobs[i].pid /\ jobs'[i].act = jobs[i].act
           /\ jobs'[i].phase \in {jobs[i].phase, "over"}
           /\ ~Over(i)' => holder'[jobs'[i].pid] = i
  BY <1>1, GroupsOverFacts
<1>3. TypeOK' /\ Onward /\ JobsOK'
  BY <1>1, <1>2 DEF TypeOK, Onward, JobsOK, Over, Listed
<1>4. \A i \in DOMAIN jobs : Committed(i)' => Committed(i)
  BY <1>1, <1>2 DEF Committed, Writing
<1>5. NewestWrites'
  BY <1>1, <1>2, <1>4, NewestStays DEF Listed
<1> QED
  BY <1>1, <1>3, <1>5, OthersMove

LEMMA StrangersKeep ==
    ASSUME IInv, NEW p \in Pids, StrangerComes(p) \/ StrangerGoes(p) PROVE IInv' /\ Onward
<1> USE DEF IInv
<1>1. /\ UNCHANGED <<acts, jobs, turn, known>> /\ holder[p] \in {Free, Stranger}
      /\ holder' \in [Pids -> Nat \cup {Stranger}]
      /\ \A q \in Pids \ {p} : holder'[q] = holder[q]
  BY DEF StrangerComes, StrangerGoes, Alive, TypeOK, Free
<1>2. \A j \in DOMAIN jobs : j # Free /\ j # Stranger /\ jobs[j].pid \in Pids
  BY JobFacts, ActAssumption DEF Free
<1>3. TypeOK' /\ Onward
  BY <1>1 DEF TypeOK, Onward, Over, Listed
<1>4. JobsOK'
  BY <1>1, <1>2 DEF JobsOK, Over, Listed
<1>5. NewestWrites'
  BY <1>1 DEF NewestWrites, Committed, Writing, IsNewest, Listed
<1> QED
  BY <1>1, <1>3, <1>4, <1>5, OthersMove

LEMMA RebootKeeps ==
    ASSUME IInv, Reboot PROVE IInv'
<1> USE DEF IInv
<1>1. /\ GroupsOver(Pids) /\ turn' = [d \in Daemons |-> Idle]
      /\ known' = [d \in Daemons |-> None]
      /\ acts' = [n \in Numbers |-> IF acts[n] = None THEN None
                                    ELSE [acts[n] EXCEPT !.old = TRUE]]
  BY DEF Reboot
<1>2. /\ jobs' \in Seq(Jobs) /\ DOMAIN jobs' = DOMAIN jobs
      /\ holder' \in [Pids -> Nat \cup {Stranger}]
      /\ \A i \in DOMAIN jobs :
           /\ jobs'[i].act = jobs[i].act
           /\ jobs'[i].phase \in {jobs[i].phase, "over"}
           /\ ~Over(i)' => holder'[jobs'[i].pid] = i
      /\ \A p \in Pids \cap Pids : \A i \in DOMAIN jobs : holder[p] = i => Over(i)'
  BY <1>1, GroupsOverFacts
<1>3. \A i \in DOMAIN jobs : jobs[i].pid \in Pids
  BY JobFacts
<1>4. \A i \in DOMAIN jobs : Over(i)'
  BY <1>2, <1>3, SMTT(30) DEF JobsOK, Over
<1>5. /\ acts' \in [Numbers -> Acts \cup {None}] /\ Listed' = Listed
      /\ \A n \in Listed : acts'[n].job = acts[n].job
  <2>1. \A n \in Listed : /\ acts[n] \in Acts
                          /\ [acts[n] EXCEPT !.old = TRUE] \in Acts
                          /\ [acts[n] EXCEPT !.old = TRUE].job = acts[n].job
    BY DEF TypeOK, Acts, Listed
  <2>2. \A n \in Listed : [acts[n] EXCEPT !.old = TRUE] # None
    BY <2>1, ActAssumption
  <2> QED
    BY <1>1, <2>1, <2>2 DEF Listed
<1>6. TypeOK'
  BY <1>1, <1>2, <1>5, IdleStands DEF TypeOK
<1>7. JobsOK'
  <2>1. ASSUME NEW n \in Listed'
        PROVE  (/\ acts[n].job \in DOMAIN jobs /\ jobs[acts[n].job].act = n
                /\ acts[n].old => Over(acts[n].job))'
    BY <1>2, <1>4, <1>5 DEF JobsOK
  <2> QED
    BY <1>2, <2>1 DEF JobsOK
<1>8. NewestWrites'
  <2>1. \A i \in DOMAIN jobs' : ~Committed(i)'
    BY <1>2, <1>4 DEF Committed, Writing, Over
  <2> QED
    BY <2>1 DEF NewestWrites
<1>9. \A d \in Daemons : Knows(d)' /\ Place(d)'
  BY <1>1, IdleStands DEF Knows
<1> QED
  BY <1>6, <1>7, <1>8, <1>9

\* A look that finds its budget spent ends the act's group.
LEMMA LookKeeps ==
    ASSUME IInv, NEW d \in Daemons, Look(d) PROVE IInv' /\ Onward
<1> USE DEF IInv
<1>1. /\ TypeOK /\ JobsOK /\ Place(d) /\ Rests(d) /\ known' = known /\ turn[d].at = "look"
      /\ turn[d] \in Turns
  BY DEF Look, TypeOK, At
<1>2. /\ turn' = [turn EXCEPT ![d] = Idle] /\ turn'[d] = Idle /\ Idle.at # "release"
      /\ known' = [known EXCEPT ![d] = known[d]] /\ known'[d] = known[d]
      /\ known[d] \in Readers \cup {None}
      /\ \A e \in Daemons \ {d} : turn'[e] = turn[e] /\ known'[e] = known[e]
  BY <1>1 DEF Rests, TypeOK, Idle
<1>3. CASE UNCHANGED <<acts, jobs, holder>>
  BY <1>2, <1>3, IdleStands, TurnMoves, KnowsStays
<1>4. CASE ~UNCHANGED <<acts, jobs, holder>>
  <2>1. PICK n \in Listed :
          /\ acts' = [acts EXCEPT ![n].end = IF @ = None THEN "timeout" ELSE @]
          /\ \/ \E P : GroupsOver(P)
             \/ /\ \E j \in DOMAIN jobs : Writing(j) /\ jobs' = [jobs EXCEPT ![j].phase = "left"]
                /\ UNCHANGED holder
             \/ UNCHANGED <<jobs, holder>>
    BY <1>1, <1>4 DEF Look, Place, Listed, Act
  <2>2. /\ acts' \in [Numbers -> Acts \cup {None}] /\ Listed' = Listed
        /\ \A m \in Listed : acts'[m].job = acts[m].job /\ acts'[m].old = acts[m].old
    BY <1>1, <2>1, EndGiven DEF Ends
  <2>3. /\ Onward /\ JobsOK' /\ jobs' \in Seq(Jobs) /\ DOMAIN jobs' = DOMAIN jobs
        /\ holder' \in [Pids -> Nat \cup {Stranger}]
        /\ \A i \in DOMAIN jobs : /\ jobs'[i].act = jobs[i].act
                                  /\ Writing(i)' => Writing(i)
                                  /\ jobs'[i].phase = "gated" => jobs[i].phase = "gated"
    <3>1. CASE \E P : GroupsOver(P)
      <4>1. /\ jobs' \in Seq(Jobs) /\ DOMAIN jobs' = DOMAIN jobs
            /\ holder' \in [Pids -> Nat \cup {Stranger}]
            /\ \A i \in DOMAIN jobs :
                 /\ jobs'[i].pid = jobs[i].pid /\ jobs'[i].act = jobs[i].act
                 /\ jobs'[i].phase \in {jobs[i].phase, "over"}
                 /\ ~Over(i)' => holder'[jobs'[i].pid] = i
        BY <1>1, <3>1, GroupsOverFacts
      <4>2. \A i \in DOMAIN jobs : Over(i) => Over(i)'
        BY <4>1 DEF Over
      <4>3. ASSUME NEW m \in Listed'
            PROVE  (/\ acts[m].job \in DOMAIN jobs /\ jobs[acts[m].job].act = m
                    /\ acts[m].old => Over(acts[m].job))'
        BY <1>1, <2>2, <4>1, <4>2 DEF JobsOK
      <4>4. JobsOK'
        BY <4>1, <4>3 DEF JobsOK
      <4>5. Onward
        BY <2>2, <4>1, <4>2 DEF Onward
      <4> QED
        BY <4>1, <4>4, <4>5 DEF Writing
    <3>2. CASE /\ \E j \in DOMAIN jobs : Writing(j) /\ jobs' = [jobs EXCEPT ![j].phase = "left"]
               /\ UNCHANGED holder
      BY <1>1, <2>2, <3>2, LeftKeeps DEF TypeOK
    <3>3. CASE UNCHANGED <<jobs, holder>>
      <4>1. ASSUME NEW m \in Listed'
            PROVE  (/\ acts[m].job \in DOMAIN jobs /\ jobs[acts[m].job].act = m
                    /\ acts[m].old => Over(acts[m].job))'
        BY <1>1, <2>2, <3>3 DEF JobsOK, Over
      <4> QED
        BY <1>1, <2>2, <3>3, <4>1 DEF TypeOK, Onward, JobsOK, Over, Writing
    <3> QED
      BY <2>1, <3>1, <3>2, <3>3
  <2>4. TypeOK'
    BY <1>1, <1>2, <2>2, <2>3, IdleStands DEF TypeOK
  <2>5. \A i \in DOMAIN jobs : Committed(i)' => Committed(i)
    BY <1>2, <2>3 DEF Committed
  <2>6. NewestWrites'
    BY <2>2, <2>3, <2>5, NewestStays
  <2>7. Knows(d)'
    <3>1. Knows(d)
      OBVIOUS
    <3> QED
      BY <1>2, <2>3, <3>1 DEF Knows, Onward
  <2> QED
    BY <1>2, <2>3, <2>4, <2>6, <2>7, IdleStands, DaemonMoves
<1> QED
  BY <1>3, <1>4

-----------------------------------------------------------------------------
LEMMA InitHolds == Init => IInv
<1> SUFFICES ASSUME Init PROVE IInv
  OBVIOUS
<1>1. TypeOK
  BY IdleStands DEF Init, TypeOK, Free
<1>2. JobsOK
  BY DEF Init, JobsOK, Listed
<1>3. NewestWrites
  BY DEF Init, NewestWrites
<1>4. ASSUME NEW d \in Daemons PROVE Knows(d) /\ Place(d)
  BY DEF Init, Knows, Place, Idle, Reading, Claiming, Pruning
<1> QED
  BY <1>1, <1>2, <1>3, <1>4 DEF IInv

LEMMA StepHolds ==
    ToldApart /\ IInv /\ [Next]_vars => IInv' /\ (Onward \/ Reboot)
<1> SUFFICES ASSUME ToldApart, IInv, [Next]_vars
             PROVE  IInv' /\ (Onward \/ Reboot)
  OBVIOUS
<1>1. CASE UNCHANGED vars
  <2>1. UNCHANGED <<turn, known>> /\ UNCHANGED <<acts, jobs, holder>>
    BY <1>1 DEF vars
  <2>2. TypeOK' /\ JobsOK' /\ NewestWrites' /\ Onward
    BY <2>1 DEF IInv, TypeOK, JobsOK, NewestWrites, Committed, Writing, IsNewest,
                Listed, Over, Onward
  <2> QED
    BY <2>1, <2>2, OthersMove
<1>2. ASSUME NEW d \in Daemons, Reads(d) PROVE IInv' /\ Onward
  BY <1>2, ListKeeps, ReadRecordKeeps, PsKeeps, AskAliveKeeps, ReadVerdictKeeps,
     ExistsKeeps DEF Reads
<1>3. ASSUME NEW d \in Daemons, Claims(d) PROVE IInv' /\ Onward
  BY <1>3, LaunchKeeps, StakeKeeps, RelistKeeps, UnstakeKeeps, ReleaseKeeps,
     ListOlderKeeps, PruneKeeps DEF Claims
<1>4. ASSUME NEW d \in Daemons, Look(d) \/ Stop(d) PROVE IInv' /\ Onward
  BY <1>4, LookKeeps, StopKeeps
<1>5. ASSUME NEW j \in DOMAIN jobs, Finish(j) \/ Lost(j) \/ GroupEnds(j) PROVE IInv' /\ Onward
  BY <1>5, FinishKeeps, GroupEndsKeeps
<1>6. ASSUME NEW p \in Pids, StrangerComes(p) \/ StrangerGoes(p) PROVE IInv' /\ Onward
  BY <1>6, StrangersKeep
<1> QED
  BY <1>1, <1>2, <1>3, <1>4, <1>5, <1>6, RebootKeeps DEF Next

\* The jobs that write are the newest act's, which has one.
LEMMA OnlyTheNewestWrites == IInv => OneWriter
<1> SUFFICES ASSUME IInv, NEW i \in DOMAIN jobs, NEW j \in DOMAIN jobs,
                    Writing(i), Writing(j)
             PROVE  i = j
  BY DEF OneWriter
<1>1. /\ IsNewest(jobs[i].act) /\ acts[jobs[i].act].job = i
      /\ IsNewest(jobs[j].act) /\ acts[jobs[j].act].job = j
  BY DEF IInv, NewestWrites, Committed
<1>2. jobs[i].act = jobs[j].act
  BY <1>1 DEF IsNewest, Listed, Numbers
<1> QED
  BY <1>1, <1>2

\* The invariant as long as the jobs can be told apart, and what keeps them.
ApartInv == jobs \in Seq(Jobs) /\ (ToldApart => IInv)

\* No two programs of the bundle's acts run at once, however many daemons stall,
\* die and start again between any two of their calls on the disk, however the ids
\* of processes are given again and whichever start `ps` did not tell, unless two
\* jobs of one id were both launched with a start it did not.
THEOREM ActsAreAlone == Spec => []OneWriter
<1>1. Init => ApartInv
  BY InitHolds DEF ApartInv, IInv, TypeOK
<1>2. ApartInv /\ [Next]_vars => ApartInv'
  BY StepHolds, ApartBefore, JobsAreKept DEF ApartInv, Kept
<1>3. ApartInv => OneWriter
  BY OnlyTheNewestWrites DEF ApartInv, OneWriter
<1> QED
  BY <1>1, <1>2, <1>3, PTL DEF Spec

-----------------------------------------------------------------------------
(* What a reader keeps.                                                    *)

\* The end e read of an act is the one it has, end, or none before a timeout.
EndTrue(e, end) == e # end => e = None /\ end = "timeout"

\* Read of job j's act a, e is true of it while it is the newest.
EndStands(a, j, e) ==
    Above(a) \/ (a \in Listed /\ acts[a].job = j /\ EndTrue(e, acts[a].end))

\* So are the facts a daemon keeps, and an end it read with the group gone.
KeptStands(d) ==
    known[d] # None /\ known[d].final # None =>
        EndStands(known[d].final.act, known[d].job, known[d].final.end)
ReadStands(d) ==
    turn[d].at = "exists" /\ ~known[d].ours =>
        EndStands(turn[d].act, known[d].job, turn[d].end)

EndInv == \A d \in Daemons : KeptStands(d) /\ ReadStands(d)

\* An act whose job is over is given no end but a timeout.
EndsOnward ==
    \A n \in Listed :
       n \in Listed' /\ Over(acts[n].job) =>
           acts'[n].end = acts[n].end \/ (acts[n].end = None /\ acts'[n].end = "timeout")

\* An act is given an end where it has none.
LEMMA EndIsGiven ==
    ASSUME TypeOK, NEW n \in Listed, NEW end,
           acts' = [acts EXCEPT ![n].end = IF @ = None THEN end ELSE @], NEW m \in Listed
    PROVE  acts'[m].end = IF m = n /\ acts[n].end = None THEN end ELSE acts[m].end
<1>1. acts[n] \in Acts /\ n \in Numbers /\ m \in Numbers
  BY DEF TypeOK, Listed
<1> DEFINE act == [acts[n] EXCEPT !.end = IF @ = None THEN end ELSE @]
<1>2. act.end = IF acts[n].end = None THEN end ELSE acts[n].end
  BY <1>1 DEF Acts
<1>3. acts' = [acts EXCEPT ![n] = act]
  BY <1>1 DEF TypeOK
<1> HIDE DEF act
<1>4. acts'[m] = IF m = n THEN act ELSE acts[m]
  BY <1>1, <1>3 DEF TypeOK
<1> QED
  BY <1>2, <1>4

LEMMA EndsGoOn ==
    ASSUME IInv, Next, ~Reboot
    PROVE  EndsOnward
<1> SUFFICES ASSUME NEW n \in Listed, n \in Listed', Over(acts[n].job),
                    acts'[n].end # acts[n].end
             PROVE  acts[n].end = None /\ acts'[n].end = "timeout"
  BY DEF EndsOnward
<1>1. TypeOK /\ n \in Numbers /\ acts[n] # None /\ acts'[n] # None /\ acts' # acts
  BY DEF IInv, Listed
<1>2. \A d \in Daemons : ~Reads(d) /\ ~Stop(d)
  BY <1>1 DEF Reads, List, ReadRecord, Ps, AskAlive, ReadVerdict, Exists, Stop
<1>3. ASSUME NEW d \in Daemons, Look(d)
      PROVE  acts[n].end = None /\ acts'[n].end = "timeout"
  <2>1. /\ acts[turn[d].act] # None /\ turn[d].act \in Numbers
        /\ acts' = [acts EXCEPT ![turn[d].act].end = IF @ = None THEN "timeout" ELSE @]
    BY <1>1, <1>3 DEF Look, Act, At, IInv, Place
  <2>2. turn[d].act \in Listed
    BY <2>1 DEF Listed
  <2> QED
    BY <1>1, <2>1, <2>2, EndIsGiven
<1>4. ASSUME NEW d \in Daemons, Claims(d) PROVE FALSE
  <2>1. \E c, act : /\ acts' = [acts EXCEPT ![c] = act]
                    /\ c = n => act = None \/ acts[c] = None
    <3>1. CASE Stake(d)
      BY <1>1, <3>1 DEF Stake
    <3>2. CASE Unstake(d)
      BY <3>2 DEF Unstake
    <3>3. CASE Prune(d)
      BY <1>1, <3>3 DEF Prune
    <3>4. Stake(d) \/ Unstake(d) \/ Prune(d)
      BY <1>1, <1>4 DEF Claims, Launch, Relist, Release, ListOlder
    <3> QED
      BY <3>1, <3>2, <3>3, <3>4
  <2> QED
    BY <1>1, <2>1 DEF TypeOK
<1>5. ASSUME NEW j \in DOMAIN jobs, Finish(j) \/ Lost(j) \/ GroupEnds(j) PROVE FALSE
  <2>1. /\ Writing(j) /\ acts[jobs[j].act] # None
        /\ acts' = [acts EXCEPT ![jobs[j].act].end = IF @ = None THEN "exit" ELSE @]
    BY <1>1, <1>5 DEF Finish, Lost, GroupEnds, Writing
  <2>2. jobs[j].act \in Listed /\ acts[jobs[j].act].job = j /\ ~Over(j)
    BY <2>1 DEF IInv, NewestWrites, Committed, IsNewest, Writing, Over
  <2>3. n # jobs[j].act
    BY <2>2
  <2> QED
    BY <1>1, <2>1, <2>2, <2>3, EndIsGiven
<1>6. ASSUME NEW p \in Pids, StrangerComes(p) \/ StrangerGoes(p) PROVE FALSE
  BY <1>1, <1>6 DEF StrangerComes, StrangerGoes
<1> QED
  BY <1>2, <1>3, <1>4, <1>5, <1>6 DEF Next

LEMMA EndStays ==
    ASSUME IInv, Onward, EndsOnward, NEW a \in Nat, NEW j \in DOMAIN jobs, Over(j), NEW e,
           EndStands(a, j, e)
    PROVE  EndStands(a, j, e)'
<1>1. CASE Above(a)
  BY <1>1, AboveStays DEF IInv, EndStands
<1>2. CASE a \in Listed /\ acts[a].job = j /\ EndTrue(e, acts[a].end)
  <2>1. CASE a \in Listed'
    <3>1. acts'[a].job = j
      BY <1>2, <2>1 DEF Onward
    <3>2. EndTrue(e, acts'[a].end)
      BY <1>2, <2>1 DEF EndsOnward, EndTrue
    <3> QED
      BY <2>1, <3>1, <3>2 DEF EndStands
  <2>2. CASE a \notin Listed'
    BY <1>2, <2>2 DEF Onward, Above, EndStands
  <2> QED
    BY <2>1, <2>2
<1> QED
  BY <1>1, <1>2 DEF EndStands

\* What a daemon knows and has read changes in a turn of its own.
KnowsNoMore(d) ==
    /\ \/ known'[d] = None
       \/ known'[d].final = None
       \/ known[d] # None /\ known'[d].job = known[d].job /\ known'[d].final = known[d].final
    /\ turn'[d].at = "exists" => turn'[d] = turn[d] /\ known'[d] = known[d]

LEMMA AnswersElsewhere ==
    ASSUME TypeOK, NEW d \in Daemons, NEW act, NEW alive, Answered(d, act, alive)
    PROVE  turn'[d].at # "exists" /\ \A e \in Daemons \ {d} : turn'[e] = turn[e]
<1> DEFINE t == [Idle EXCEPT !.at = IF alive THEN "look" ELSE "launch", !.act = act]
<1>1. t.at # "exists" /\ Idle.at # "exists"
  BY DEF Idle
<1>2. turn' = [turn EXCEPT ![d] = t] \/ turn' = [turn EXCEPT ![d] = Idle]
  BY DEF Answered, Rests
<1> HIDE DEF t
<1> QED
  BY <1>1, <1>2 DEF TypeOK

LEMMA VanishedElsewhere ==
    ASSUME TypeOK, NEW d \in Daemons, Vanished(d)
    PROVE  turn'[d].at # "exists" /\ \A e \in Daemons \ {d} : turn'[e] = turn[e]
<1>1. turn[d] \in Turns
  BY DEF TypeOK
<1> QED
  BY <1>1 DEF Vanished, TypeOK, Turns

LEMMA StepsElsewhere ==
    ASSUME TypeOK, NEW d \in Daemons, NEW where, Steps(d, where)
    PROVE  turn'[d].at = where /\ \A e \in Daemons \ {d} : turn'[e] = turn[e]
<1>1. turn[d] \in Turns
  BY DEF TypeOK
<1> QED
  BY <1>1 DEF Steps, TypeOK, Turns

LEMMA RestsElsewhere ==
    ASSUME TypeOK, NEW d \in Daemons, Rests(d)
    PROVE  turn'[d].at # "exists" /\ \A e \in Daemons \ {d} : turn'[e] = turn[e]
BY DEF Rests, Idle, TypeOK

\* A daemon's reads, but the last two, leave its facts as they are.
LEMMA ReadsKnowNoMore ==
    ASSUME IInv, NEW d \in Daemons,
           List(d) \/ ReadRecord(d) \/ Ps(d) \/ AskAlive(d)
    PROVE  \A e \in Daemons : KnowsNoMore(e)
<1>0. TypeOK /\ turn[d] \in Turns
  BY DEF IInv, TypeOK
<1>1. CASE List(d)
  <2>1. known' = known
    BY <1>1 DEF List
  <2>2. turn'[d].at # "exists" /\ \A e \in Daemons \ {d} : turn'[e] = turn[e]
    <3>1. CASE Answered(d, 0, FALSE)
      BY <1>0, <3>1, AnswersElsewhere
    <3>2. CASE Rests(d)
      BY <1>0, <3>2, RestsElsewhere
    <3>3. CASE \E n : turn' = [turn EXCEPT ![d] = [Idle EXCEPT !.at = "record", !.act = n]]
      BY <1>0, <3>3 DEF TypeOK, Idle
    <3> QED
      BY <1>1, <3>1, <3>2, <3>3 DEF List
  <2> QED
    BY <2>1, <2>2 DEF KnowsNoMore
<1>2. CASE ReadRecord(d)
  <2>1. \/ known' = known
        \/ \E r, o : known' = [known EXCEPT ![d] = [job |-> r, ours |-> o, final |-> None]]
    BY <1>2 DEF ReadRecord
  <2>2. /\ known'[d] = known[d] \/ known'[d].final = None
        /\ \A e \in Daemons \ {d} : known'[e] = known[e]
    BY <1>0, <2>1 DEF TypeOK
  <2>3. \/ Vanished(d)
        \/ \E n, b : Answered(d, n, b)
        \/ Steps(d, "alive") \/ Steps(d, "ps")
    BY <1>2 DEF ReadRecord
  <2>4. turn'[d].at # "exists" /\ \A e \in Daemons \ {d} : turn'[e] = turn[e]
    BY <1>0, <2>3, VanishedElsewhere, AnswersElsewhere, StepsElsewhere
  <2> QED
    BY <2>2, <2>4 DEF KnowsNoMore
<1>3. CASE Ps(d) \/ AskAlive(d)
  <2>1. known[d] # None /\ known[d] \in Readers
    BY <1>0, <1>3 DEF IInv, Place, Reading, Ps, AskAlive, At, TypeOK
  <2>2. \E b : known' = [known EXCEPT ![d].ours = b]
    BY <1>3 DEF Ps, AskAlive
  <2>3. /\ known'[d].job = known[d].job /\ known'[d].final = known[d].final
        /\ \A e \in Daemons \ {d} : known'[e] = known[e]
    BY <1>0, <2>1, <2>2 DEF TypeOK, Readers
  <2>4. Steps(d, "alive") \/ Steps(d, "verdict")
    BY <1>3 DEF Ps, AskAlive
  <2>5. turn'[d].at # "exists" /\ \A e \in Daemons \ {d} : turn'[e] = turn[e]
    BY <1>0, <2>4, StepsElsewhere
  <2> QED
    BY <2>1, <2>3, <2>5 DEF KnowsNoMore
<1> QED
  BY <1>1, <1>2, <1>3

\* So do its other steps, and the rest of the machine's.
LEMMA OthersKnowNoMore ==
    ASSUME IInv, Next, \A d \in Daemons : ~Reads(d)
    PROVE  \A e \in Daemons : KnowsNoMore(e)
<1>0. TypeOK /\ \A d \in Daemons : turn[d] \in Turns
  BY DEF IInv, TypeOK
<1>1. ASSUME NEW d \in Daemons, Look(d) \/ Claims(d)
      PROVE  \A e \in Daemons : KnowsNoMore(e)
  <2>1. known' = known
    BY <1>1 DEF Look, Claims, Launch, Stake, Relist, Unstake, Release, ListOlder, Prune
  <2>2. turn'[d].at # "exists" /\ \A e \in Daemons \ {d} : turn'[e] = turn[e]
    <3>1. CASE Look(d) \/ Unstake(d)
      BY <1>0, <3>1, RestsElsewhere DEF Look, Unstake
    <3>2. CASE Stake(d) \/ Relist(d)
      BY <1>0, <3>2, RestsElsewhere, StepsElsewhere DEF Stake, Relist
    <3>3. CASE Launch(d)
      BY <1>0, <3>3 DEF Launch, TypeOK, Turns
    <3>4. CASE Release(d)
      BY <1>0, <3>4 DEF Release, TypeOK, Turns
    <3>5. CASE ListOlder(d)
      BY <1>0, <3>5 DEF ListOlder, TypeOK, Turns
    <3>6. CASE Prune(d)
      <4>1. \/ Rests(d)
            \/ \E S : turn' = [turn EXCEPT ![d].prune = S]
        BY <3>6 DEF Prune
      <4>2. turn[d].at = "prune"
        BY <3>6 DEF Prune, At
      <4> QED
        BY <1>0, <4>1, <4>2, RestsElsewhere DEF TypeOK, Turns
    <3> QED
      BY <1>1, <3>1, <3>2, <3>3, <3>4, <3>5, <3>6 DEF Claims
  <2> QED
    BY <2>1, <2>2 DEF KnowsNoMore
<1>2. ASSUME NEW d \in Daemons, Stop(d) PROVE \A e \in Daemons : KnowsNoMore(e)
  <2>1. /\ known'[d] = None /\ turn'[d] = Idle
        /\ \A e \in Daemons \ {d} : turn'[e] = turn[e] /\ known'[e] = known[e]
    BY <1>0, <1>2 DEF Stop, TypeOK
  <2> QED
    BY <2>1 DEF KnowsNoMore, Idle
<1>3. CASE UNCHANGED <<turn, known>>
  BY <1>3 DEF KnowsNoMore
<1>4. CASE Reboot
  BY <1>4 DEF Reboot, KnowsNoMore, Idle
<1> QED
  BY <1>1, <1>2, <1>3, <1>4 DEF Next, Finish, Lost, GroupEnds, StrangerComes, StrangerGoes

\* What no step of its own adds to still stands.
LEMMA EndInvStays ==
    ASSUME IInv, EndInv, Onward, EndsOnward, NEW d \in Daemons, KnowsNoMore(d)
    PROVE  KeptStands(d)' /\ ReadStands(d)'
<1>1. Knows(d) /\ Place(d) /\ KeptStands(d) /\ ReadStands(d) /\ turn[d] \in Turns
      /\ known[d] \in Readers \cup {None}
  BY DEF IInv, EndInv, TypeOK
<1>2. KeptStands(d)'
  <2>1. CASE ~(known'[d] # None /\ known'[d].final # None)
    BY <2>1 DEF KeptStands
  <2>2. CASE known'[d] # None /\ known'[d].final # None
    <3>1. /\ known[d] # None /\ known'[d].job = known[d].job
          /\ known'[d].final = known[d].final
      BY <2>2 DEF KnowsNoMore
    <3>2. PICK n, j, e : n = known[d].final.act /\ j = known[d].job /\ e = known[d].final.end
      OBVIOUS
    <3>3. j \in DOMAIN jobs /\ Over(j) /\ n \in Nat
      BY <1>1, <2>2, <3>1, <3>2 DEF Knows, Readers, Facts
    <3>4. EndStands(n, j, e)
      BY <1>1, <2>2, <3>1, <3>2 DEF KeptStands
    <3>5. EndStands(n, j, e)'
      BY <3>3, <3>4, EndStays
    <3> QED
      BY <3>1, <3>2, <3>5 DEF KeptStands, EndStands, Above
  <2> QED
    BY <2>1, <2>2
<1>3. ReadStands(d)'
  <2>1. CASE ~(turn'[d].at = "exists" /\ ~known'[d].ours)
    BY <2>1 DEF ReadStands
  <2>2. CASE turn'[d].at = "exists" /\ ~known'[d].ours
    <3>1. turn'[d] = turn[d] /\ known'[d] = known[d]
      BY <2>2 DEF KnowsNoMore
    <3>2. PICK n, j, e : n = turn[d].act /\ j = known[d].job /\ e = turn[d].end
      OBVIOUS
    <3>3. j \in DOMAIN jobs /\ Over(j) /\ n \in Nat
      BY <1>1, <2>2, <3>1, <3>2 DEF Knows, Place, Reading, Turns
    <3>4. EndStands(n, j, e)
      BY <1>1, <2>2, <3>1, <3>2 DEF ReadStands
    <3>5. EndStands(n, j, e)'
      BY <3>3, <3>4, EndStays
    <3> QED
      BY <3>1, <3>2, <3>5 DEF ReadStands, EndStands, Above
  <2> QED
    BY <2>1, <2>2
<1> QED
  BY <1>2, <1>3

\* The verdict, read of the act's own record.
LEMMA ReadVerdictTells ==
    ASSUME IInv, EndInv, NEW d \in Daemons, ReadVerdict(d)
    PROVE  EndInv'
<1>1. /\ TypeOK /\ Place(d) /\ turn[d].at = "verdict" /\ turn[d] \in Turns
      /\ UNCHANGED <<acts, jobs, holder, known, others>>
      /\ turn' = [turn EXCEPT ![d].at = "exists",
                    ![d].end = IF acts[Act(d)] = None THEN None ELSE acts[Act(d)].end]
  BY DEF IInv, TypeOK, ReadVerdict, At
<1> DEFINE a == turn[d].act
           x == IF acts[a] = None THEN None ELSE acts[a].end
<1>2. turn'[d].act = a /\ turn'[d].end = x /\ \A e \in Daemons \ {d} : turn'[e] = turn[e]
  <2>1. turn' = [turn EXCEPT ![d].at = "exists", ![d].end = x]
    BY <1>1 DEF Act
  <2> HIDE DEF x
  <2> QED
    BY <1>1, <2>1 DEF TypeOK, Turns
<1>3. \A e \in Daemons : KeptStands(e)'
  BY <1>1 DEF EndInv, KeptStands, EndStands, Above, Listed
<1>4. EndStands(a, known[d].job, x)
  <2>1. Its(a, known[d].job)
    BY <1>1 DEF Place, Reading
  <2> QED
    BY <2>1 DEF Its, EndStands, EndTrue, Listed
<1>5. ReadStands(d)'
  BY <1>1, <1>2, <1>4 DEF ReadStands, EndStands, Above, Listed
<1>6. \A e \in Daemons \ {d} : ReadStands(e)'
  BY <1>1, <1>2 DEF EndInv, ReadStands, EndStands, Above, Listed
<1> QED
  BY <1>3, <1>5, <1>6 DEF EndInv

\* The facts of a group that is gone are kept of the end just read.
LEMMA ExistsTells ==
    ASSUME IInv, EndInv, NEW d \in Daemons, Exists(d)
    PROVE  EndInv'
<1>1. /\ TypeOK /\ Place(d) /\ turn[d].at = "exists" /\ UNCHANGED <<acts, jobs, holder>>
      /\ known[d] # None /\ known[d] \in Readers
  BY DEF IInv, TypeOK, Exists, At, Place, Reading
<1>2. turn'[d].at # "exists" /\ \A e \in Daemons \ {d} : turn'[e] = turn[e]
  BY <1>1, VanishedElsewhere, AnswersElsewhere DEF Exists
<1> DEFINE f == [act |-> turn[d].act, end |-> turn[d].end]
<1>3. \/ known' = known
      \/ ~known[d].ours /\ known' = [known EXCEPT ![d].final = f]
  BY DEF Exists, Act
<1>4. \A e \in Daemons : ReadStands(e)'
  <2>1. \A e \in Daemons \ {d} : known'[e] = known[e]
    BY <1>1, <1>3 DEF TypeOK
  <2> QED
    BY <1>1, <1>2, <2>1 DEF EndInv, ReadStands, EndStands, Above, Listed
<1>5. \A e \in Daemons : KeptStands(e)'
  <2>1. CASE known' = known
    BY <1>1, <2>1 DEF EndInv, KeptStands, EndStands, Above, Listed
  <2>2. CASE ~known[d].ours /\ known' = [known EXCEPT ![d].final = f]
    <3>1. known'[d].final = f /\ known'[d].job = known[d].job
          /\ \A e \in Daemons \ {d} : known'[e] = known[e]
      BY <1>1, <2>2 DEF TypeOK, Readers
    <3>2. EndStands(turn[d].act, known[d].job, turn[d].end)
      BY <1>1, <2>2 DEF EndInv, ReadStands
    <3>3. KeptStands(d)'
      BY <1>1, <3>1, <3>2 DEF KeptStands, EndStands, Above, Listed
    <3> QED
      BY <1>1, <3>1, <3>3 DEF EndInv, KeptStands, EndStands, Above, Listed
  <2> QED
    BY <1>3, <2>1, <2>2
<1> QED
  BY <1>4, <1>5 DEF EndInv

LEMMA EndStepHolds ==
    ToldApart /\ IInv /\ EndInv /\ [Next]_vars => EndInv'
<1> SUFFICES ASSUME ToldApart, IInv, EndInv, [Next]_vars PROVE EndInv'
  OBVIOUS
<1>1. CASE UNCHANGED vars
  BY <1>1 DEF vars, EndInv, KeptStands, ReadStands, EndStands, Above, Listed
<1>2. CASE Reboot
  BY <1>2 DEF Reboot, EndInv, KeptStands, ReadStands, Idle
<1>3. CASE \E d \in Daemons : ReadVerdict(d) \/ Exists(d)
  BY <1>3, ReadVerdictTells, ExistsTells
<1>4. CASE Next /\ ~Reboot /\ \A d \in Daemons : ~ReadVerdict(d) /\ ~Exists(d)
  <2>1. Onward /\ EndsOnward
    BY <1>4, StepHolds, EndsGoOn
  <2>2. \A e \in Daemons : KnowsNoMore(e)
    BY <1>4, ReadsKnowNoMore, OthersKnowNoMore DEF Reads
  <2> QED
    BY <2>1, <2>2, EndInvStays DEF EndInv
<1> QED
  BY <1>1, <1>2, <1>3, <1>4

EndsInv == jobs \in Seq(Jobs) /\ (ToldApart => IInv /\ EndInv)

\* The facts a reader keeps of the newest act are true, unless two jobs of one id
\* were both launched with a start `ps` did not tell: its group is gone, and its end
\* on the disk is the one kept, or a timeout another daemon gave an act that had
\* none (update-act.ts, readerOf).
THEOREM FactsAreFinal == Spec => []FinalIsFinal
<1>1. Init => EndsInv
  <2>1. Init => IInv /\ EndInv
    BY InitHolds DEF Init, EndInv, KeptStands, ReadStands, Idle
  <2> QED
    BY <2>1 DEF EndsInv, IInv, TypeOK
<1>2. EndsInv /\ [Next]_vars => EndsInv'
  BY StepHolds, EndStepHolds, ApartBefore, JobsAreKept DEF EndsInv, Kept
<1>3. IInv /\ EndInv => FinalIsFinal
  <2> SUFFICES ASSUME IInv, EndInv, NEW d \in Daemons, known[d] # None,
                      known[d].final # None, IsNewest(known[d].final.act),
                      NEW r \in {acts[known[d].final.act]}
               PROVE  /\ ~Writing(r.job)
                      /\ known[d].final.end # r.end =>
                            known[d].final.end = None /\ r.end = "timeout"
    BY DEF FinalIsFinal
  <2>1. EndStands(known[d].final.act, known[d].job, known[d].final.end)
    BY DEF EndInv, KeptStands
  <2>2. ~Above(known[d].final.act)
    BY DEF IsNewest, Above, Listed, Numbers
  <2>3. Over(known[d].job)
    BY DEF IInv, Knows
  <2> QED
    BY <2>1, <2>2, <2>3 DEF EndStands, EndTrue, Over, Writing
<1>4. EndsInv => FinalIsFinal
  BY <1>3 DEF EndsInv, FinalIsFinal
<1> QED
  BY <1>1, <1>2, <1>4, PTL DEF Spec

=============================================================================
