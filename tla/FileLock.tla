------------------------------ MODULE FileLock -------------------------------
(***************************************************************************)
(* The lock scripts/lib/file-lock.sh builds from a directory where the     *)
(* host has no flock: mkdir takes it, four small files in it say who did,  *)
(* rm -rf gives it back.  A process that finds the lock taken looks        *)
(* whether its maker is dead; if so it queues up in a Lamport bakery of    *)
(* its own, and the one process the bakery elects moves the dead lock away *)
(* before everybody tries mkdir again.                                     *)
(*                                                                         *)
(* One action per file-system call that others can observe.  Processes are *)
(* pids; a pid with its start token is never used twice, so a killed       *)
(* process stays dead.                                                     *)
(***************************************************************************)
EXTENDS Naturals, FiniteSets

CONSTANTS
  Proc,        \* pids of the processes that want the lock
  MaxMade,     \* bound: lock directories made
  MaxTicket,   \* bound: bakery tickets
  MaxKills,    \* bound: processes killed
  MaxLost,     \* bound: identity files whose write fails unnoticed
  Prompt,      \* TRUE: no live process is stopped for a minute between its
               \* mkdir and its identity, or in the middle of its rm -rf
  Brief        \* TRUE: the lock is given back within the lock timeout

ASSUME ConstantsAssumption ==
  /\ Proc \subseteq Nat \ {0}
  /\ {MaxMade, MaxTicket, MaxKills, MaxLost} \subseteq Nat
  /\ {Prompt, Brief} \subseteq BOOLEAN

VARIABLES
  dir,         \* the directory at the lock's path, with the files in it
  made,        \* lock directories made so far; they are numbered
  claim,       \* reclaim-queue: the bakery claim of each process
  up,          \* processes that are alive
  proc,        \* control point and shell variables of each process
  kills, lost  \* faults so far

vars == <<dir, made, claim, up, proc, kills, lost>>

-----------------------------------------------------------------------------
(* The directory.  gen is its inode, owner and pid the contents of the     *)
(* files of that name (0: no such file; process-start goes with pid), old  *)
(* says that the clock staleness goes by has run out.                      *)

Directory ==
  [gen: Nat, owner: Nat, pid: Proc \cup {0}, started: BOOLEAN, old: BOOLEAN]

NoDir == [gen |-> 0, owner |-> 0, pid |-> 0, started |-> FALSE, old |-> FALSE]

Present == dir.gen # 0

Empty == dir.owner = 0 /\ dir.pid = 0 /\ ~dir.started

\* Slip: a young directory without a pid is stale at once.
StaleAtOnce ==
  /\ Present
  /\ \/ dir.pid # 0 /\ ~up[dir.pid]
     \/ dir.pid = 0 /\ (dir.owner # 0 <=> dir.started)

\* oms_file_lock_mkdir_stale: a recorded process decides by itself; without
\* one, an old directory that is empty or has both owner and started.
Stale ==
  /\ Present
  /\ \/ dir.pid # 0 /\ ~up[dir.pid]
     \/ dir.pid = 0 /\ dir.old /\ (dir.owner # 0 <=> dir.started)

\* oms_file_lock_mkdir_generation: what tells one lock from the next.
Generation ==
  IF dir.owner # 0 THEN [kind |-> "owner", id |-> dir.owner]
                   ELSE [kind |-> IF Empty THEN "ownerless" ELSE "legacy", id |-> dir.gen]

NoGeneration == [kind |-> "none", id |-> 0]
GenerationType == [kind: {"none", "owner", "ownerless", "legacy"}, id: Nat]

-----------------------------------------------------------------------------
(* Processes.                                                              *)

Writing == {"owner", "pid", "started"}
Freeing == {"unlink", "rmdir"}
Elects == {"again", "stale", "move"}
Queued == {"announce", "relist", "elect"} \cup Elects
Bakery == {"list", "choose", "leave", "moved"} \cup Queued
Pcs == {"idle", "mkdir", "look", "generation", "claim", "wait", "critical", "release"}
         \cup Writing \cup Freeing \cup Bakery

Process ==
  [pc: Pcs,              \* the next call
   gen: Nat,             \* the directory its mkdir made, named in its owner id
   inode: Nat,           \* the directory its rm -rf has opened
   seen: GenerationType, \* generation=
   best: Nat,            \* max_ticket=
   todo: SUBSET Proc]    \* rest of: for other in "$reclaim_queue"/*

Fresh == [pc |-> "idle", gen |-> 0, inode |-> 0, seen |-> NoGeneration,
          best |-> 0, todo |-> {}]

Claim == [in: BOOLEAN, ticket: Nat, choosing: BOOLEAN]
NoClaim == [in |-> FALSE, ticket |-> 0, choosing |-> FALSE]

Init ==
  /\ dir = NoDir
  /\ made = 0
  /\ claim = [p \in Proc |-> NoClaim]
  /\ up = [p \in Proc |-> TRUE]
  /\ proc = [p \in Proc |-> Fresh]
  /\ kills = 0
  /\ lost = 0

At(p, pc) == up[p] /\ proc[p].pc = pc

Become(p, v) == proc' = [proc EXCEPT ![p] = v]

Go(p, pc) == Become(p, [proc[p] EXCEPT !.pc = pc])

\* The call returns: its local variables are gone.
Return(p, pc) == Become(p, [Fresh EXCEPT !.pc = pc])

\* rm -rf opens the directory at the path, whoever made it.
Open(p) == Become(p, [proc[p] EXCEPT !.pc = "unlink", !.inode = dir.gen])

-----------------------------------------------------------------------------
(* Acquisition and release.                                                *)

\* oms_with_file_lock, oms_try_file_lock, oms_hold_file_lock
Start(p) ==
  /\ At(p, "idle")
  /\ Go(p, "mkdir")
  /\ UNCHANGED <<dir, made, claim, up, kills, lost>>

\* mkdir makes the directory, or finds it made and looks closer.
Mkdir(p) ==
  /\ At(p, "mkdir")
  /\ \/ /\ ~Present
        /\ made < MaxMade
        /\ made' = made + 1
        /\ dir' = [NoDir EXCEPT !.gen = made + 1]
        /\ Become(p, [proc[p] EXCEPT !.pc = "owner", !.gen = made + 1])
     \/ /\ Present
        /\ Go(p, "look")
        /\ UNCHANGED <<dir, made>>
  /\ UNCHANGED <<claim, up, kills, lost>>

\* The identity is written by path: into the directory found there, if any.
\* Only the status of the last write counts.
Writes(p, file) ==
  \/ /\ Present
     /\ dir' = file
     /\ UNCHANGED lost
  \/ /\ ~Present
     /\ UNCHANGED <<dir, lost>>
  \/ /\ lost < MaxLost
     /\ lost' = lost + 1
     /\ UNCHANGED dir

WriteOwner(p) ==
  /\ At(p, "owner")
  /\ Writes(p, [dir EXCEPT !.owner = proc[p].gen, !.old = FALSE])
  /\ Go(p, "pid")
  /\ UNCHANGED <<made, claim, up, kills>>

WritePid(p) ==
  /\ At(p, "pid")
  /\ Writes(p, [dir EXCEPT !.pid = p, !.old = FALSE])
  /\ Go(p, "started")
  /\ UNCHANGED <<made, claim, up, kills>>

\* When the last write fails, whatever is at the path is removed.
WriteStarted(p) ==
  /\ At(p, "started")
  /\ \/ /\ Present
        /\ dir' = [dir EXCEPT !.started = TRUE, !.old = FALSE]
        /\ Go(p, "critical")
        /\ UNCHANGED lost
     \/ /\ ~Present
        /\ Return(p, "idle")
        /\ UNCHANGED <<dir, lost>>
     \/ /\ Present
        /\ lost < MaxLost
        /\ lost' = lost + 1
        /\ Open(p)
        /\ UNCHANGED dir
  /\ UNCHANGED <<made, claim, up, kills>>

\* The command under the lock ends, or a signal ends it and runs the trap.
Leave(p) ==
  /\ At(p, "critical")
  /\ Go(p, "release")
  /\ UNCHANGED <<dir, made, claim, up, kills, lost>>

\* oms_file_lock_mkdir_release: only the lock with its own owner id.
Release(p) ==
  /\ At(p, "release")
  /\ IF Present /\ dir.owner = proc[p].gen THEN Open(p) ELSE Return(p, "idle")
  /\ UNCHANGED <<dir, made, claim, up, kills, lost>>

\* Without its pid the lock is as old as started says: a lock held for longer
\* than the timeout is stale as soon as rm -rf has taken the pid.
Overdue == ~Brief /\ dir.owner # 0 /\ dir.started

\* rm -rf empties the directory it has opened, file by file in the order the
\* file system lists them ...
Unlink(p) ==
  /\ At(p, "unlink")
  /\ \/ /\ dir.gen = proc[p].inode
        /\ ~Empty
        /\ \/ dir.owner # 0 /\ dir' = [dir EXCEPT !.owner = 0, !.old = FALSE]
           \/ dir.pid # 0 /\ dir' = [dir EXCEPT !.pid = 0, !.old = FALSE]
           \/ dir.pid # 0 /\ Overdue /\ dir' = [dir EXCEPT !.pid = 0, !.old = TRUE]
           \/ dir.started /\ dir' = [dir EXCEPT !.started = FALSE, !.old = FALSE]
        /\ UNCHANGED proc
     \/ /\ dir.gen = proc[p].inode => Empty
        /\ Go(p, "rmdir")
        /\ UNCHANGED dir
  /\ UNCHANGED <<made, claim, up, kills, lost>>

\* ... and removes, by its path, an empty directory.
Rmdir(p) ==
  /\ At(p, "rmdir")
  /\ dir' = IF Empty THEN NoDir ELSE dir
  /\ Return(p, "idle")
  /\ UNCHANGED <<made, claim, up, kills, lost>>

-----------------------------------------------------------------------------
(* oms_file_lock_mkdir_reclaim.                                            *)

Look(p) ==
  /\ At(p, "look")
  /\ Go(p, IF Stale THEN "generation" ELSE "wait")
  /\ UNCHANGED <<dir, made, claim, up, kills, lost>>

ReadGeneration(p) ==
  /\ At(p, "generation")
  /\ IF Present THEN Become(p, [proc[p] EXCEPT !.pc = "claim", !.seen = Generation])
                ELSE Go(p, "wait")
  /\ UNCHANGED <<dir, made, claim, up, kills, lost>>

\* mkdir "$claim_dir"; choosing=1
MakeClaim(p) ==
  /\ At(p, "claim")
  /\ claim' = [claim EXCEPT ![p] = [in |-> TRUE, ticket |-> 0, choosing |-> TRUE]]
  /\ Become(p, [proc[p] EXCEPT !.pc = "list", !.best = 0])
  /\ UNCHANGED <<dir, made, up, kills, lost>>

\* for other in "$reclaim_queue"/*: the claims there are now, twice
List(p) ==
  /\ At(p, "list") \/ At(p, "relist")
  /\ Become(p, [proc[p] EXCEPT !.pc = IF @ = "list" THEN "choose" ELSE "elect",
                               !.todo = {q \in Proc \ {p}: claim[q].in}])
  /\ UNCHANGED <<dir, made, claim, up, kills, lost>>

\* Slip: the claims of the dead count too.
DeadCount(q) == claim[q].in

\* oms_file_lock_reclaim_claim_live: the claims of dead processes stay for
\* ever and count for nothing.
Counts(q) == claim[q].in /\ up[q]

\* The highest published ticket, and one more.
Choose(p, q) ==
  /\ At(p, "choose")
  /\ q \in proc[p].todo
  /\ Become(p, [proc[p] EXCEPT !.todo = @ \ {q},
       !.best = IF Counts(q) /\ claim[q].ticket > @ THEN claim[q].ticket ELSE @])
  /\ UNCHANGED <<dir, made, claim, up, kills, lost>>

Ticket(p) ==
  /\ At(p, "choose")
  /\ proc[p].todo = {}
  /\ proc[p].best < MaxTicket
  /\ claim' = [claim EXCEPT ![p].ticket = proc[p].best + 1]
  /\ Become(p, [proc[p] EXCEPT !.pc = "announce", !.best = 0])
  /\ UNCHANGED <<dir, made, up, kills, lost>>

Announce(p) ==
  /\ At(p, "announce")
  /\ claim' = [claim EXCEPT ![p].choosing = FALSE]
  /\ Go(p, "relist")
  /\ UNCHANGED <<dir, made, up, kills, lost>>

\* Slip: equal tickets are let through together.
TicketBefore(q, p) == claim[q].ticket < claim[p].ticket

\* A smaller ticket goes first, and of two equal ones the smaller pid.
Before(q, p) ==
  \/ claim[q].ticket < claim[p].ticket
  \/ claim[q].ticket = claim[p].ticket /\ q < p

\* Nobody waits in this bakery: whoever is not first gives up the attempt.
Blocks(q, p) == claim[q].ticket = 0 \/ claim[q].choosing \/ Before(q, p)

Elect(p, q) ==
  /\ At(p, "elect")
  /\ q \in proc[p].todo
  /\ Become(p, IF Counts(q) /\ Blocks(q, p)
               THEN [proc[p] EXCEPT !.pc = "leave", !.todo = {}]
               ELSE [proc[p] EXCEPT !.todo = @ \ {q}])
  /\ UNCHANGED <<dir, made, claim, up, kills, lost>>

\* The elected process reads the path again: the generation, then staleness.
Elected(p) ==
  /\ At(p, "elect")
  /\ proc[p].todo = {}
  /\ Go(p, "again")
  /\ UNCHANGED <<dir, made, claim, up, kills, lost>>

Again(p) ==
  /\ At(p, "again")
  /\ Go(p, IF Present /\ Generation = proc[p].seen THEN "stale" ELSE "leave")
  /\ UNCHANGED <<dir, made, claim, up, kills, lost>>

\* Slip: the elected process goes by the staleness it saw before.
MoveUnchecked(p) ==
  /\ At(p, "stale")
  /\ Become(p, [proc[p] EXCEPT !.pc = "move", !.seen = NoGeneration])
  /\ UNCHANGED <<dir, made, claim, up, kills, lost>>

StillStale(p) ==
  /\ At(p, "stale")
  /\ Become(p, [proc[p] EXCEPT !.pc = IF Stale THEN "move" ELSE "leave",
                               !.seen = NoGeneration])
  /\ UNCHANGED <<dir, made, claim, up, kills, lost>>

\* mv "$lock_dir" "$stale_dir"; the rm -rf of that private name is unseen.
Move(p) ==
  /\ At(p, "move")
  /\ dir' = NoDir
  /\ Go(p, IF Present THEN "moved" ELSE "leave")
  /\ UNCHANGED <<made, claim, up, kills, lost>>

\* rm -rf "$claim_dir"; having reclaimed, straight back to mkdir.
Unclaim(p) ==
  /\ up[p]
  /\ proc[p].pc \in {"leave", "moved"}
  /\ claim' = [claim EXCEPT ![p] = NoClaim]
  /\ Return(p, IF proc[p].pc = "moved" THEN "mkdir" ELSE "wait")
  /\ UNCHANGED <<dir, made, up, kills, lost>>

\* Sleep and try again ...
Retry(p) ==
  /\ At(p, "wait")
  /\ Go(p, "mkdir")
  /\ UNCHANGED <<dir, made, claim, up, kills, lost>>

\* ... or exit 75: the timeout is over, or the caller only tries.
GiveUp(p) ==
  /\ At(p, "wait")
  /\ Go(p, "idle")
  /\ UNCHANGED <<dir, made, claim, up, kills, lost>>

-----------------------------------------------------------------------------
(* The world.                                                              *)

\* SIGKILL or power loss, at any point.
Kill(p) ==
  /\ up[p]
  /\ proc[p].pc # "idle"
  /\ kills < MaxKills
  /\ kills' = kills + 1
  /\ up' = [up EXCEPT ![p] = FALSE]
  /\ Return(p, "idle")
  /\ UNCHANGED <<dir, made, claim, lost>>

\* A live process is in the middle of writing its identity into the
\* directory, or of removing it.
Busy == \E p \in Proc:
  /\ up[p]
  /\ \/ proc[p].pc \in Writing /\ proc[p].gen = dir.gen
     \/ proc[p].pc \in Freeing /\ proc[p].inode = dir.gen

\* A minute passes over an empty directory, the lock timeout over one with a
\* started file.  Where a pid is recorded no clock is looked at.
Age ==
  /\ Present
  /\ dir.pid = 0
  /\ ~dir.old
  /\ Prompt => ~Busy
  /\ dir' = [dir EXCEPT !.old = TRUE]
  /\ UNCHANGED <<made, claim, up, proc, kills, lost>>

AcquireStep(p) ==
  \/ Mkdir(p) \/ WriteOwner(p) \/ WritePid(p) \/ WriteStarted(p)
  \/ Leave(p) \/ Release(p) \/ Unlink(p) \/ Rmdir(p)

ReclaimStep(p) ==
  \/ Look(p) \/ ReadGeneration(p) \/ MakeClaim(p) \/ List(p)
  \/ \E q \in Proc: Choose(p, q) \/ Elect(p, q)
  \/ Ticket(p) \/ Announce(p) \/ Elected(p)
  \/ Again(p) \/ StillStale(p) \/ Move(p) \/ Unclaim(p) \/ Retry(p)

Next ==
  \/ \E p \in Proc: Start(p) \/ AcquireStep(p) \/ ReclaimStep(p) \/ GiveUp(p) \/ Kill(p)
  \/ Age

Spec == Init /\ [][Next]_vars

\* A process that runs goes on running and time passes; nobody has to ask
\* for the lock, to give up or to be killed.
Fairness ==
  /\ \A p \in Proc: WF_vars(AcquireStep(p) \/ ReclaimStep(p))
  /\ WF_vars(Age)

FairSpec == Spec /\ Fairness

-----------------------------------------------------------------------------
(* Properties.                                                             *)

TypeOK ==
  /\ dir \in Directory
  /\ made \in Nat
  /\ claim \in [Proc -> Claim]
  /\ up \in [Proc -> BOOLEAN]
  /\ proc \in [Proc -> Process]
  /\ kills \in Nat
  /\ lost \in Nat

\* A lock with a live holder is authoritative however old it is
\* (file-lock.sh:332): as long as a process is inside, the directory at the
\* path is the one it made and names it.
HolderKept == \A p \in Proc:
  At(p, "critical") => dir.gen = proc[p].gen /\ dir.owner = dir.gen /\ dir.pid = p

\* The bakery elects one live process at a time (file-lock.sh:413): no two
\* are between their election and the mv.
OneReclaimer == \A p, q \in Proc:
  /\ up[p] /\ proc[p].pc \in Elects
  /\ up[q] /\ proc[q].pc \in Elects
  => p = q

\* What the lock promises its users.
Mutex == INSTANCE FileMutex WITH inside <- {p \in Proc: At(p, "critical")}
MutexImplemented == Mutex!Spec

\* A process killed between two writes of its identity, or in the middle of
\* its rm -rf, leaves a directory with only one of owner and started and no
\* pid: nothing may ever reclaim it.
Wedged == Present /\ dir.pid = 0 /\ (dir.owner # 0 <=> ~dir.started)

Alone(p) ==
  /\ up[p]
  /\ proc[p].pc # "idle"
  /\ \A q \in Proc \ {p}: up[q] => proc[q].pc = "idle"

\* The bounds of the model, not the code, stop p.
AtBound(p) ==
  \/ proc[p].pc = "mkdir" /\ ~Present /\ made = MaxMade
  \/ proc[p].pc = "choose" /\ proc[p].best = MaxTicket

\* Killing a holder or an elected reclaimer does not wedge the lock
\* (file-lock.sh:381): a process that keeps trying, with nobody else trying,
\* gets in and out again, whatever the dead have left but that directory.
LoneContenderEnters == \A p \in Proc:
  Alone(p) ~> (~Alone(p) \/ Wedged \/ AtBound(p))

\* The same without the exception, as the comment puts it.  The code does
\* not keep it.
NothingWedges == \A p \in Proc: Alone(p) ~> (~Alone(p) \/ AtBound(p))

=============================================================================
