--------------------------- MODULE FileLockProofs ----------------------------
(***************************************************************************)
(* Theorems about the directory lock, for every set of processes and every *)
(* bound: the bakery elects one process at a time, whatever is killed,     *)
(* stopped or lost; and as long as no process is stopped and no write      *)
(* lost, a holder keeps its lock and FileLock implements FileMutex.        *)
(***************************************************************************)
EXTENDS FileLock, TLAPS

-----------------------------------------------------------------------------
(* Types.                                                                  *)

\* The control points by name.
LEMMA PcsByName ==
  Pcs = {"idle", "mkdir", "look", "generation", "claim", "wait", "critical", "release",
         "owner", "pid", "started", "unlink", "rmdir", "list", "choose", "announce",
         "relist", "elect", "again", "stale", "move", "leave", "moved"}
BY DEF Pcs, Writing, Freeing, Bakery, Queued, Elects

\* The record a return leaves behind is a process.
LEMMA FreshTyped == \A pc \in Pcs: [Fresh EXCEPT !.pc = pc] \in Process
<1>1. NoGeneration \in GenerationType
  BY DEF NoGeneration, GenerationType
<1> QED BY <1>1 DEF Fresh, Process

LEMMA DirectoryUpdated ==
  ASSUME NEW d \in Directory, NEW n \in Nat, NEW q \in Proc \cup {0}, NEW b \in BOOLEAN
  PROVE /\ [d EXCEPT !.owner = n, !.old = FALSE] \in Directory
        /\ [d EXCEPT !.pid = q, !.old = FALSE] \in Directory
        /\ [d EXCEPT !.started = b, !.old = FALSE] \in Directory
        /\ [d EXCEPT !.old = b] \in Directory
        /\ NoDir \in Directory
        /\ [NoDir EXCEPT !.gen = n] \in Directory
BY DEF Directory, NoDir

LEMMA TodoTyped ==
  ASSUME NEW v \in Process, NEW pc \in Pcs, NEW s \in SUBSET Proc
  PROVE [v EXCEPT !.pc = pc, !.todo = s] \in Process
BY DEF Process

\* What a directory is named by is typed.
LEMMA GenerationTyped == ASSUME TypeOK PROVE Generation \in GenerationType
BY DEF TypeOK, Directory, Generation, GenerationType

LEMMA BecomeTyped ==
  ASSUME TypeOK, NEW p \in Proc, NEW v \in Process, Become(p, v)
  PROVE proc' \in [Proc -> Process]
BY DEF TypeOK, Become

LEMMA GoTyped ==
  ASSUME TypeOK, NEW p \in Proc, NEW pc \in Pcs, Go(p, pc) \/ Return(p, pc)
  PROVE proc' \in [Proc -> Process]
<1>1. proc[p] \in Process
  BY DEF TypeOK
<1>2. /\ [proc[p] EXCEPT !.pc = pc] \in Process
      /\ [Fresh EXCEPT !.pc = pc] \in Process
  BY <1>1, FreshTyped DEF Process
<1> QED BY <1>2, BecomeTyped DEF Go, Return

\* TypeOK is inductive.
LEMMA TypeInit == ASSUME Init, ConstantsAssumption PROVE TypeOK
<1>1. Fresh \in Process
  BY PcsByName DEF Fresh, Process, NoGeneration, GenerationType
<1>2. NoDir \in Directory
  BY DEF Directory, NoDir
<1> QED BY <1>1, <1>2 DEF Init, TypeOK, NoClaim, Claim

LEMMA AcquireTyped ==
  ASSUME TypeOK, ConstantsAssumption, NEW p \in Proc, AcquireStep(p)
  PROVE TypeOK'
<1>p. proc[p] \in Process /\ proc[p].gen \in Nat /\ dir \in Directory /\ dir.gen \in Nat
      /\ p \in Nat /\ made \in Nat /\ lost \in Nat
  BY ConstantsAssumption DEF TypeOK, Process, Directory, ConstantsAssumption
<1>o. ASSUME Open(p) PROVE proc' \in [Proc -> Process]
  <2>1. [proc[p] EXCEPT !.pc = "unlink", !.inode = dir.gen] \in Process
    BY <1>p, PcsByName DEF Process
  <2> QED BY <1>o, <2>1, BecomeTyped DEF Open
<1>w. ASSUME NEW f \in Directory, Writes(p, f) PROVE dir' \in Directory /\ lost' \in Nat
  BY <1>w, <1>p DEF Writes
<1>1. CASE Mkdir(p)
  <2>1. made + 1 \in Nat
    BY <1>p
  <2>4. [NoDir EXCEPT !.gen = made + 1] \in Directory
    BY <2>1 DEF NoDir, Directory
  <2>2. [proc[p] EXCEPT !.pc = "owner", !.gen = made + 1] \in Process
    BY <1>p, <2>1, PcsByName DEF Process
  <2>3. proc' \in [Proc -> Process]
    BY <1>1, <2>2, BecomeTyped, GoTyped, PcsByName DEF Mkdir
  <2> QED BY <1>1, <2>1, <2>3, <2>4 DEF Mkdir, TypeOK
<1>2. CASE WriteOwner(p)
  <2>1. [dir EXCEPT !.owner = proc[p].gen, !.old = FALSE] \in Directory
    BY <1>p DEF Directory
  <2> QED BY <1>2, <1>w, <2>1, GoTyped, PcsByName DEF WriteOwner, TypeOK
<1>3. CASE WritePid(p)
  <2>1. [dir EXCEPT !.pid = p, !.old = FALSE] \in Directory
    BY <1>p DEF Directory
  <2> QED BY <1>3, <1>w, <2>1, GoTyped, PcsByName DEF WritePid, TypeOK
<1>4. CASE WriteStarted(p)
  <2>1. [dir EXCEPT !.started = TRUE, !.old = FALSE] \in Directory
    BY <1>p DEF Directory
  <2>2. proc' \in [Proc -> Process]
    BY <1>4, <1>o, GoTyped, PcsByName DEF WriteStarted
  <2> QED BY <1>4, <1>p, <2>1, <2>2 DEF WriteStarted, TypeOK
<1>5. CASE Leave(p)
  BY <1>5, GoTyped, PcsByName DEF Leave, TypeOK
<1>6. CASE Release(p)
  BY <1>6, <1>o, GoTyped, PcsByName DEF Release, TypeOK
<1>7. CASE Unlink(p)
  <2>1. /\ [dir EXCEPT !.owner = 0, !.old = FALSE] \in Directory
        /\ [dir EXCEPT !.pid = 0, !.old = FALSE] \in Directory
        /\ [dir EXCEPT !.pid = 0, !.old = TRUE] \in Directory
        /\ [dir EXCEPT !.started = FALSE, !.old = FALSE] \in Directory
    BY <1>p DEF Directory
  <2> QED BY <1>7, <2>1, GoTyped, PcsByName DEF Unlink, TypeOK
<1>8. CASE Rmdir(p)
  BY <1>8, <1>p, DirectoryUpdated, GoTyped, PcsByName DEF Rmdir, TypeOK
<1> QED BY <1>1, <1>2, <1>3, <1>4, <1>5, <1>6, <1>7, <1>8 DEF AcquireStep

LEMMA ReclaimTyped ==
  ASSUME TypeOK, ConstantsAssumption, NEW p \in Proc, ReclaimStep(p)
  PROVE TypeOK'
<1>p. /\ proc[p] \in Process
      /\ proc[p].best \in Nat
      /\ proc[p].todo \in SUBSET Proc
      /\ claim \in [Proc -> Claim]
      /\ \A q \in Proc: claim[q].ticket \in Nat
  BY DEF TypeOK, Process, Claim
<1>1. CASE Look(p)
  BY <1>1, GoTyped, PcsByName DEF Look, TypeOK
<1>2. CASE ReadGeneration(p)
  <2>1. [proc[p] EXCEPT !.pc = "claim", !.seen = Generation] \in Process
    BY <1>p, GenerationTyped, PcsByName DEF Process
  <2> QED BY <1>2, <2>1, BecomeTyped, GoTyped, PcsByName DEF ReadGeneration, TypeOK
<1>3. CASE MakeClaim(p)
  <2>1. [proc[p] EXCEPT !.pc = "list", !.best = 0] \in Process
    BY <1>p, PcsByName DEF Process
  <2> QED BY <1>3, <2>1, BecomeTyped DEF MakeClaim, TypeOK, Claim
<1>4. CASE List(p)
  <2>1. [proc[p] EXCEPT !.pc = IF proc[p].pc = "list" THEN "choose" ELSE "elect",
                        !.todo = {q \in Proc \ {p}: claim[q].in}] \in Process
    BY <1>p, PcsByName DEF Process
  <2> QED BY <1>4, <2>1, BecomeTyped DEF List, TypeOK
<1>5. ASSUME NEW q \in Proc, Choose(p, q) PROVE TypeOK'
  <2>1. [proc[p] EXCEPT !.todo = proc[p].todo \ {q},
           !.best = IF Counts(q) /\ claim[q].ticket > proc[p].best
                    THEN claim[q].ticket ELSE proc[p].best] \in Process
    BY <1>p DEF Process
  <2> QED BY <1>5, <2>1, BecomeTyped DEF Choose, TypeOK
<1>6. ASSUME NEW q \in Proc, Elect(p, q) PROVE TypeOK'
  <2>4. "leave" \in Pcs /\ {} \in SUBSET Proc
    BY PcsByName
  <2>1. [proc[p] EXCEPT !.pc = "leave", !.todo = {}] \in Process
    BY <1>p, <2>4, TodoTyped
  <2>2. proc[p].todo \ {q} \in SUBSET Proc
    BY <1>p
  <2>3. [proc[p] EXCEPT !.todo = proc[p].todo \ {q}] \in Process
    BY <1>p, <2>2 DEF Process
  <2> QED BY <1>6, <2>1, <2>3, BecomeTyped DEF Elect, TypeOK
<1>7. CASE Ticket(p)
  <2>1. [proc[p] EXCEPT !.pc = "announce", !.best = 0] \in Process
    BY <1>p, PcsByName DEF Process
  <2>3. proc[p].best + 1 \in Nat
    BY <1>p
  <2>2. claim' \in [Proc -> Claim]
    BY <1>7, <1>p, <2>3 DEF Ticket, Claim
  <2> QED BY <1>7, <2>1, <2>2, BecomeTyped DEF Ticket, TypeOK
<1>8. CASE Announce(p)
  <2>1. claim' \in [Proc -> Claim]
    BY <1>8, <1>p DEF Announce, Claim
  <2> QED BY <1>8, <2>1, GoTyped, PcsByName DEF Announce, TypeOK
<1>9. CASE Elected(p)
  BY <1>9, GoTyped, PcsByName DEF Elected, TypeOK
<1>10. CASE Again(p)
  BY <1>10, GoTyped, PcsByName DEF Again, TypeOK
<1>11. CASE StillStale(p)
  <2>1. [proc[p] EXCEPT !.pc = IF Stale THEN "move" ELSE "leave",
                        !.seen = NoGeneration] \in Process
    BY <1>p, PcsByName DEF Process, NoGeneration, GenerationType
  <2> QED BY <1>11, <2>1, BecomeTyped DEF StillStale, TypeOK
<1>12. CASE Move(p)
  <2>1. NoDir \in Directory
    BY DEF NoDir, Directory
  <2> QED BY <1>12, <2>1, GoTyped, PcsByName DEF Move, TypeOK
<1>13. CASE Unclaim(p)
  <2>1. claim' \in [Proc -> Claim]
    BY <1>13, <1>p DEF Unclaim, NoClaim, Claim
  <2> QED BY <1>13, <2>1, GoTyped, PcsByName DEF Unclaim, TypeOK
<1>14. CASE Retry(p)
  BY <1>14, GoTyped, PcsByName DEF Retry, TypeOK
<1> QED BY <1>1, <1>2, <1>3, <1>4, <1>5, <1>6, <1>7, <1>8, <1>9, <1>10, <1>11, <1>12,
           <1>13, <1>14 DEF ReclaimStep

LEMMA TypeStep == ASSUME TypeOK, ConstantsAssumption, [Next]_vars PROVE TypeOK'
<1>1. ASSUME NEW p \in Proc, Start(p) \/ GiveUp(p) PROVE TypeOK'
  BY <1>1, GoTyped, PcsByName DEF Start, GiveUp, TypeOK
<1>2. ASSUME NEW p \in Proc, Kill(p) PROVE TypeOK'
  BY <1>2, GoTyped, PcsByName DEF Kill, TypeOK
<1>3. CASE Age
  <2>1. [dir EXCEPT !.old = TRUE] \in Directory
    BY DEF TypeOK, Directory
  <2> QED BY <1>3, <2>1 DEF Age, TypeOK
<1>4. CASE UNCHANGED vars
  BY <1>4 DEF vars, TypeOK
<1> QED BY <1>1, <1>2, <1>3, <1>4, AcquireTyped, ReclaimTyped DEF Next

\* Every reachable state is typed.
THEOREM FileLockTypeCorrect == Spec => []TypeOK
<1>1. Init => TypeOK
  BY TypeInit, ConstantsAssumption
<1>2. TypeOK /\ [Next]_vars => TypeOK'
  BY TypeStep, ConstantsAssumption
<1> QED BY <1>1, <1>2, PTL DEF Spec

-----------------------------------------------------------------------------
(* The bakery.                                                             *)

\* p has looked at the claim of q and gone on, or has looked at them all.
Passed(p, q) ==
  \/ proc[p].pc = "elect" /\ q \notin proc[p].todo
  \/ proc[p].pc \in Elects

\* Then q is behind p: it is still to see the ticket of p, or has seen it, or
\* has taken a later one.
InFront(p, q) ==
  /\ proc[q].pc = "choose" => p \in proc[q].todo \/ claim[p].ticket <= proc[q].best
  /\ proc[q].pc \in Queued => Before(p, q)

ClaimInv(p) == up[p] =>
  /\ claim[p].in <=> proc[p].pc \in Bakery
  /\ proc[p].pc \in {"list", "choose", "announce"} => claim[p].choosing

PairInv(p, q) == up[p] /\ up[q] /\ p # q /\ Passed(p, q) => InFront(p, q)

BakeryInv ==
  /\ \A p \in Proc: ClaimInv(p)
  /\ \A p, q \in Proc: PairInv(p, q)

\* A step of r moves nobody else.
Alone1(r) == \A x \in Proc \ {r}:
  proc'[x] = proc[x] /\ claim'[x] = claim[x] /\ up'[x] = up[x]

LEMMA BakeryFrame ==
  ASSUME BakeryInv, NEW r \in Proc, Alone1(r), ClaimInv(r)',
         \A x \in Proc \ {r}: PairInv(r, x)' /\ PairInv(x, r)'
  PROVE BakeryInv'
<1>1. ASSUME NEW p \in Proc PROVE ClaimInv(p)'
  BY <1>1 DEF BakeryInv, Alone1, ClaimInv
<1>2. ASSUME NEW p \in Proc, NEW q \in Proc PROVE PairInv(p, q)'
  <2>1. CASE p # r /\ q # r
    BY <2>1 DEF BakeryInv, Alone1, PairInv, Passed, InFront, Before
  <2>2. CASE p = r /\ q = r
    BY <2>2 DEF PairInv
  <2> QED BY <2>1, <2>2
<1> QED BY <1>1, <1>2 DEF BakeryInv

\* What a step of r may do to its claim and control point as long as it does
\* not join or advance in the queue.
LEMMA BakeryQuiet ==
  ASSUME TypeOK, BakeryInv, NEW r \in Proc, Alone1(r),
         \/ ~up'[r]
         \/ /\ up'[r] = up[r]
            /\ claim'[r] = claim[r]
            /\ proc[r].pc \notin Bakery
            /\ proc'[r].pc \notin Bakery
         \/ /\ up'[r] = up[r]
            /\ claim'[r] = claim[r]
            /\ \/ proc[r].pc = "elect" /\ proc[r].todo = {}
               \/ proc[r].pc \in Elects
            /\ proc'[r].pc \in Elects \cup {"leave", "moved"}
         \/ /\ up'[r] = up[r]
            /\ claim'[r] = claim[r]
            /\ proc[r].pc \in Bakery
            /\ proc'[r].pc \in {"leave", "moved"}
         \/ /\ up'[r] = up[r]
            /\ claim'[r] = NoClaim
            /\ proc'[r].pc \notin Bakery
  PROVE BakeryInv'
<1>b. /\ Elects \subseteq Queued /\ "elect" \in Queued /\ Queued \subseteq Bakery
      /\ "leave" \in Bakery /\ "moved" \in Bakery /\ "leave" \notin Queued /\ "moved" \notin Queued
      /\ "list" \in Bakery /\ "choose" \in Bakery /\ "announce" \in Queued
      /\ "choose" \notin Queued /\ "list" \notin Queued
      /\ "elect" \notin Elects /\ "leave" \notin Elects /\ "moved" \notin Elects
      /\ "announce" \notin Elects /\ "choose" \notin Elects /\ "list" \notin Elects
  BY DEF Bakery, Queued, Elects
<1>1. ClaimInv(r)'
  <2>1. ClaimInv(r)
    BY DEF BakeryInv
  <2>2. NoClaim.in = FALSE
    BY DEF NoClaim
  <2>3. proc'[r].pc \in {"leave", "moved"} =>
          proc'[r].pc \in Bakery /\ proc'[r].pc \notin {"list", "choose", "announce"}
    BY <1>b
  <2>4. proc'[r].pc \in Elects \cup {"leave", "moved"} =>
          proc'[r].pc \in Bakery /\ proc'[r].pc \notin {"list", "choose", "announce"}
    BY <1>b
  <2>5. proc'[r].pc \notin Bakery => proc'[r].pc \notin {"list", "choose", "announce"}
    BY <1>b
  <2>6. proc[r].pc = "elect" \/ proc[r].pc \in Elects => proc[r].pc \in Bakery
    BY <1>b
  <2> QED BY <2>1, <2>2, <2>3, <2>4, <2>5, <2>6 DEF ClaimInv
<1>2. ASSUME NEW x \in Proc \ {r} PROVE PairInv(r, x)'
  <2>1. x \in Proc /\ PairInv(r, x)
    BY DEF BakeryInv
  <2>2. proc'[x] = proc[x] /\ claim'[x] = claim[x] /\ up'[x] = up[x]
    BY DEF Alone1
  <2> QED BY <1>b, <2>1, <2>2 DEF PairInv, Passed, InFront, Before
<1>3. ASSUME NEW x \in Proc \ {r} PROVE PairInv(x, r)'
  <2>1. x \in Proc /\ PairInv(x, r)
    BY DEF BakeryInv
  <2>2. proc'[x] = proc[x] /\ claim'[x] = claim[x] /\ up'[x] = up[x]
    BY DEF Alone1
  <2> QED BY <1>b, <2>1, <2>2 DEF PairInv, Passed, InFront, Before
<1> QED BY <1>1, <1>2, <1>3, BakeryFrame

\* A step of one process moves that process only.
LEMMA OneMoves ==
  ASSUME TypeOK, NEW r \in Proc,
         Start(r) \/ AcquireStep(r) \/ ReclaimStep(r) \/ GiveUp(r) \/ Kill(r)
  PROVE Alone1(r)
<1>1. ASSUME NEW v, Become(r, v) PROVE \A x \in Proc \ {r}: proc'[x] = proc[x]
  BY <1>1 DEF Become, TypeOK
<1>2. ASSUME NEW pc, Go(r, pc) \/ Return(r, pc) PROVE \A x \in Proc \ {r}: proc'[x] = proc[x]
  BY <1>2, <1>1 DEF Go, Return
<1>3. ASSUME Open(r) PROVE \A x \in Proc \ {r}: proc'[x] = proc[x]
  BY <1>3, <1>1 DEF Open
<1>4. CASE Start(r) \/ GiveUp(r)
  BY <1>4, <1>2 DEF Start, GiveUp, Alone1
<1>5. CASE AcquireStep(r)
  <2>1. UNCHANGED <<claim, up>>
    BY <1>5 DEF AcquireStep, Mkdir, WriteOwner, WritePid, WriteStarted, Leave, Release,
       Unlink, Rmdir
  <2>2. CASE Mkdir(r)
    BY <2>1, <2>2, <1>1, <1>2 DEF Mkdir, Alone1
  <2>3. CASE WriteStarted(r) \/ Release(r)
    BY <2>1, <2>3, <1>2, <1>3 DEF WriteStarted, Release, Alone1
  <2>4. CASE WriteOwner(r) \/ WritePid(r) \/ Leave(r) \/ Unlink(r) \/ Rmdir(r)
    BY <2>1, <2>4, <1>2 DEF WriteOwner, WritePid, Leave, Unlink, Rmdir, Alone1
  <2> QED BY <1>5, <2>2, <2>3, <2>4 DEF AcquireStep
<1>6. CASE ReclaimStep(r)
  <2>1. CASE Look(r) \/ Elected(r) \/ Again(r) \/ Move(r) \/ Retry(r)
    BY <2>1, <1>2 DEF Look, Elected, Again, Move, Retry, Alone1
  <2>2. CASE ReadGeneration(r) \/ StillStale(r) \/ List(r)
    BY <2>2, <1>1, <1>2 DEF ReadGeneration, StillStale, List, Alone1
  <2>3. CASE MakeClaim(r)
    BY <2>3, <1>1 DEF MakeClaim, Alone1, TypeOK
  <2>4. CASE \E q \in Proc: Choose(r, q) \/ Elect(r, q)
    BY <2>4, <1>1 DEF Choose, Elect, Alone1
  <2>5. CASE Ticket(r)
    BY <2>5, <1>1 DEF Ticket, Alone1, TypeOK
  <2>6. CASE Announce(r) \/ Unclaim(r)
    BY <2>6, <1>2 DEF Announce, Unclaim, Alone1, TypeOK
  <2> QED BY <1>6, <2>1, <2>2, <2>3, <2>4, <2>5, <2>6 DEF ReclaimStep
<1>7. CASE Kill(r)
  BY <1>7, <1>2 DEF Kill, Alone1, TypeOK
<1> QED BY <1>4, <1>5, <1>6, <1>7

\* BakeryInv is inductive, with types.
LEMMA BakeryStep ==
  ASSUME TypeOK, BakeryInv, ConstantsAssumption, [Next]_vars
  PROVE BakeryInv'
<1>t. \A r \in Proc: /\ proc[r] \in Process /\ proc[r].best \in Nat
                     /\ claim[r] \in Claim /\ claim[r].ticket \in Nat /\ r \in Nat
  BY ConstantsAssumption DEF TypeOK, Process, Claim, ConstantsAssumption
<1>o. {"idle", "mkdir", "look", "generation", "claim", "wait", "critical", "release",
       "owner", "pid", "started", "unlink", "rmdir"} \cap Bakery = {}
  BY DEF Bakery, Queued, Elects
<1>b. /\ Elects = {"again", "stale", "move"}
      /\ Queued = {"announce", "relist", "elect", "again", "stale", "move"}
      /\ Bakery = {"list", "choose", "leave", "moved", "announce", "relist", "elect",
                   "again", "stale", "move"}
  BY DEF Bakery, Queued, Elects
<1>g. ASSUME NEW r \in Proc, NEW pc, Go(r, pc) \/ Return(r, pc) PROVE proc'[r].pc = pc
  <2>1. [proc[r] EXCEPT !.pc = pc].pc = pc
    BY <1>t DEF Process
  <2>2. [Fresh EXCEPT !.pc = pc].pc = pc
    BY DEF Fresh
  <2> QED BY <1>g, <2>1, <2>2 DEF Go, Return, Become, TypeOK
<1>1. ASSUME NEW r \in Proc, Start(r) \/ GiveUp(r) PROVE BakeryInv'
  <2>1. Alone1(r)
    BY <1>1, OneMoves
  <2>2. UNCHANGED <<claim, up>> /\ proc[r].pc \in {"idle", "wait"} /\ proc'[r].pc \in {"idle", "mkdir"}
    BY <1>1, <1>g DEF Start, GiveUp, At
  <2> QED BY <2>1, <2>2, <1>o, BakeryQuiet
<1>2. ASSUME NEW r \in Proc, AcquireStep(r) PROVE BakeryInv'
  <2>1. Alone1(r)
    BY <1>2, OneMoves
  <2>2. UNCHANGED <<claim, up>>
    BY <1>2 DEF AcquireStep, Mkdir, WriteOwner, WritePid, WriteStarted, Leave, Release,
       Unlink, Rmdir
  <2>3. proc[r].pc \in {"mkdir", "owner", "pid", "started", "critical", "release", "unlink", "rmdir"}
    BY <1>2 DEF AcquireStep, Mkdir, WriteOwner, WritePid, WriteStarted, Leave, Release, Unlink,
                Rmdir, At
  <2>o. ASSUME Open(r) PROVE proc'[r].pc = "unlink"
    BY <2>o, <1>t DEF Open, Become, TypeOK, Process
  <2>m. CASE Mkdir(r)
    <3>1. [proc[r] EXCEPT !.pc = "owner", !.gen = made + 1].pc = "owner"
      BY <1>t DEF Process
    <3>2. proc'[r].pc \in {"owner", "look"}
      BY <2>m, <3>1, <1>g DEF Mkdir, Become, TypeOK
    <3> QED BY <3>2, <2>1, <2>2, <2>3, <1>o, BakeryQuiet
  <2>w. CASE WriteOwner(r) \/ WritePid(r) \/ WriteStarted(r)
    <3>1. proc'[r].pc \in {"pid", "started", "critical", "idle", "unlink"}
      BY <2>w, <1>g, <2>o DEF WriteOwner, WritePid, WriteStarted
    <3> QED BY <3>1, <2>1, <2>2, <2>3, <1>o, BakeryQuiet
  <2>r. CASE Leave(r) \/ Release(r) \/ Unlink(r) \/ Rmdir(r)
    <3>1. proc'[r].pc \in {"release", "unlink", "idle", "rmdir"}
      BY <2>r, <1>g, <2>o DEF Leave, Release, Unlink, Rmdir, At
    <3> QED BY <3>1, <2>1, <2>2, <2>3, <1>o, BakeryQuiet
  <2> QED BY <1>2, <2>m, <2>w, <2>r DEF AcquireStep
<1>3. ASSUME NEW r \in Proc, Kill(r) PROVE BakeryInv'
  <2>1. Alone1(r) /\ ~up'[r]
    BY <1>3, OneMoves DEF Kill, TypeOK
  <2> QED BY <2>1, BakeryQuiet
<1>4. ASSUME NEW r \in Proc, ReclaimStep(r) PROVE BakeryInv'
  <2>a. Alone1(r)
    BY <1>4, OneMoves
  <2>x. \A x \in Proc \ {r}: /\ x \in Proc /\ proc'[x] = proc[x] /\ claim'[x] = claim[x] /\ up'[x] = up[x]
                             /\ ClaimInv(x) /\ PairInv(x, r) /\ PairInv(r, x)
    BY <2>a DEF Alone1, BakeryInv
  <2>1. CASE Look(r) \/ ReadGeneration(r) \/ Retry(r)
    <3>1. [proc[r] EXCEPT !.pc = "claim", !.seen = Generation].pc = "claim"
      BY <1>t DEF Process
    <3>2. proc'[r].pc \in {"generation", "wait", "claim", "mkdir"}
      BY <2>1, <3>1, <1>g DEF Look, ReadGeneration, Retry, Become, TypeOK
    <3>3. UNCHANGED <<claim, up>> /\ proc[r].pc \in {"look", "generation", "wait"}
      BY <2>1 DEF Look, ReadGeneration, Retry, At
    <3> QED BY <3>2, <3>3, <2>a, <1>o, BakeryQuiet
  <2>2. CASE Elected(r) \/ Again(r)
    <3>1. proc'[r].pc \in Elects \cup {"leave", "moved"}
      BY <2>2, <1>g, <1>b DEF Elected, Again
    <3>2. /\ UNCHANGED <<claim, up>>
          /\ \/ proc[r].pc = "elect" /\ proc[r].todo = {}
             \/ proc[r].pc \in Elects
      BY <2>2, <1>b DEF Elected, Again, At
    <3> QED BY <3>1, <3>2, <2>a, BakeryQuiet
  <2>3. CASE StillStale(r)
    <3>1. [proc[r] EXCEPT !.pc = IF Stale THEN "move" ELSE "leave", !.seen = NoGeneration].pc
             \in {"move", "leave"}
      BY <1>t DEF Process
    <3>2. proc'[r].pc \in Elects \cup {"leave", "moved"}
      BY <2>3, <3>1, <1>b DEF StillStale, Become, TypeOK
    <3>3. UNCHANGED <<claim, up>> /\ proc[r].pc \in Elects
      BY <2>3, <1>b DEF StillStale, At
    <3> QED BY <3>2, <3>3, <2>a, BakeryQuiet
  <2>4. CASE Move(r)
    <3>1. proc'[r].pc \in {"leave", "moved"}
      BY <2>4, <1>g DEF Move
    <3>2. UNCHANGED <<claim, up>> /\ proc[r].pc \in Bakery
      BY <2>4, <1>b DEF Move, At
    <3> QED BY <3>1, <3>2, <2>a, BakeryQuiet
  <2>5. CASE Unclaim(r)
    <3>1. proc'[r].pc \in {"mkdir", "wait"}
      BY <2>5, <1>g DEF Unclaim
    <3>2. up'[r] = up[r] /\ claim'[r] = NoClaim
      BY <2>5 DEF Unclaim, TypeOK
    <3> QED BY <3>1, <3>2, <2>a, <1>o, BakeryQuiet
  <2>6. CASE MakeClaim(r)
    <3>1. [proc[r] EXCEPT !.pc = "list", !.best = 0].pc = "list"
      BY <1>t DEF Process
    <3>2. /\ proc'[r].pc = "list" /\ up'[r] = up[r]
          /\ claim'[r] = [in |-> TRUE, ticket |-> 0, choosing |-> TRUE]
      BY <2>6, <3>1 DEF MakeClaim, Become, TypeOK
    <3>3. ClaimInv(r)'
      BY <3>2, <1>b DEF ClaimInv
    <3>4. \A x \in Proc \ {r}: PairInv(r, x)' /\ PairInv(x, r)'
      BY <3>2, <1>b DEF PairInv, Passed, InFront
    <3> QED BY <3>3, <3>4, <2>a, BakeryFrame
  <2>7. CASE List(r)
    <3>1. /\ proc'[r].pc = IF proc[r].pc = "list" THEN "choose" ELSE "elect"
          /\ proc'[r].todo = {q \in Proc \ {r}: claim[q].in}
          /\ UNCHANGED <<claim, up>> /\ up[r]
          /\ proc[r].pc \in {"list", "relist"}
      BY <2>7, <1>t DEF List, Become, TypeOK, Process, At
    <3>2. ClaimInv(r)'
      <4>1. ClaimInv(r)
        BY DEF BakeryInv
      <4> QED BY <4>1, <3>1, <1>b DEF ClaimInv
    <3>3. ASSUME NEW x \in Proc \ {r} PROVE PairInv(r, x)'
      BY <3>1, <2>x, <1>b DEF PairInv, Passed, InFront, ClaimInv
    <3>4. ASSUME NEW x \in Proc \ {r} PROVE PairInv(x, r)'
      BY <3>1, <2>x, <1>b DEF PairInv, Passed, InFront, ClaimInv, Before
    <3> QED BY <3>2, <3>3, <3>4, <2>a, BakeryFrame
  <2>8. ASSUME NEW q \in Proc, Choose(r, q) PROVE BakeryInv'
    <3>1. /\ proc'[r].pc = "choose" /\ proc[r].pc = "choose"
          /\ proc'[r].todo = proc[r].todo \ {q}
          /\ proc'[r].best = IF Counts(q) /\ claim[q].ticket > proc[r].best
                             THEN claim[q].ticket ELSE proc[r].best
          /\ UNCHANGED <<claim, up>> /\ up[r]
      BY <2>8, <1>t DEF Choose, Become, TypeOK, Process, At
    <3>2. ClaimInv(r)'
      <4>1. ClaimInv(r)
        BY DEF BakeryInv
      <4> QED BY <4>1, <3>1, <1>b DEF ClaimInv
    <3>3. ASSUME NEW x \in Proc \ {r} PROVE PairInv(r, x)'
      BY <3>1, <1>b DEF PairInv, Passed
    <3>4. ASSUME NEW x \in Proc \ {r} PROVE PairInv(x, r)'
      <4>1. up[x] /\ Passed(x, r) => claim[x].in
        BY <2>x, <1>b DEF ClaimInv, Passed
      <4>2. claim[x].ticket \in Nat /\ proc[r].best \in Nat /\ claim[q].ticket \in Nat
        BY <1>t
      <4>5. SUFFICES ASSUME up[x], Passed(x, r)
                     PROVE x \in proc'[r].todo \/ claim[x].ticket <= proc'[r].best
        BY <3>1, <2>x, <1>b DEF PairInv, Passed, InFront
      <4>6. x \in proc[r].todo \/ claim[x].ticket <= proc[r].best
        BY <4>5, <3>1, <2>x DEF PairInv, InFront
      <4>3. CASE q = x
        <5>1. Counts(q)
          BY <4>1, <4>3, <4>5 DEF Counts
        <5> QED BY <5>1, <4>2, <4>3, <3>1
      <4>4. CASE q # x
        BY <4>2, <4>4, <4>6, <3>1
      <4> QED BY <4>3, <4>4
    <3> QED BY <3>2, <3>3, <3>4, <2>a, BakeryFrame
  <2>9. ASSUME NEW q \in Proc, Elect(r, q) PROVE BakeryInv'
    <3>1. CASE Counts(q) /\ Blocks(q, r)
      <4>1. [proc[r] EXCEPT !.pc = "leave", !.todo = {}].pc = "leave"
        BY <1>t DEF Process
      <4>2. proc'[r].pc = "leave" /\ UNCHANGED <<claim, up>> /\ proc[r].pc \in Bakery
        BY <2>9, <3>1, <4>1, <1>b DEF Elect, Become, TypeOK, At
      <4> QED BY <4>2, <2>a, BakeryQuiet
    <3>2. CASE ~(Counts(q) /\ Blocks(q, r))
      <4>1. /\ proc'[r].pc = "elect" /\ proc[r].pc = "elect"
            /\ proc'[r].todo = proc[r].todo \ {q}
            /\ UNCHANGED <<claim, up>> /\ up[r]
        BY <2>9, <3>2, <1>t DEF Elect, Become, TypeOK, Process, At
      <4>2. ClaimInv(r)'
        <5>1. ClaimInv(r)
          BY DEF BakeryInv
        <5> QED BY <5>1, <4>1, <1>b DEF ClaimInv
      <4>3. ASSUME NEW x \in Proc \ {r} PROVE PairInv(r, x)'
        <5>1. CASE x # q
          BY <5>1, <4>1, <2>x, <1>b DEF PairInv, Passed, InFront, Before
        <5>2. CASE x = q
          <6>1. claim[x].ticket \in Nat /\ claim[r].ticket \in Nat /\ x \in Nat /\ r \in Nat /\ x # r
            BY <1>t
          <6>2. up[x] => \/ proc[x].pc \notin Bakery
                         \/ proc[x].pc \notin {"choose"} /\ Before(r, x)
            BY <6>1, <5>2, <3>2, <2>x DEF Counts, Blocks, Before, ClaimInv
          <6> QED BY <6>2, <4>1, <2>x, <1>b DEF PairInv, Passed, InFront, Before
        <5> QED BY <5>1, <5>2
      <4>4. ASSUME NEW x \in Proc \ {r} PROVE PairInv(x, r)'
        BY <4>1, <2>x, <1>b DEF PairInv, Passed, InFront, Before
      <4> QED BY <4>2, <4>3, <4>4, <2>a, BakeryFrame
    <3> QED BY <3>1, <3>2
  <2>10. CASE Ticket(r)
    <3>1. [proc[r] EXCEPT !.pc = "announce", !.best = 0].pc = "announce"
      BY <1>t DEF Process
    <3>2. /\ proc'[r].pc = "announce" /\ proc[r].pc = "choose" /\ proc[r].todo = {}
          /\ claim'[r].ticket = proc[r].best + 1 /\ claim'[r].in = claim[r].in
          /\ claim'[r].choosing = claim[r].choosing
          /\ up' = up /\ up[r]
      BY <2>10, <3>1, <1>t DEF Ticket, Become, TypeOK, Claim, At
    <3>3. ClaimInv(r)'
      <4>1. ClaimInv(r)
        BY DEF BakeryInv
      <4> QED BY <4>1, <3>2, <1>b DEF ClaimInv
    <3>4. ASSUME NEW x \in Proc \ {r} PROVE PairInv(r, x)'
      BY <3>2, <1>b DEF PairInv, Passed
    <3>5. ASSUME NEW x \in Proc \ {r} PROVE PairInv(x, r)'
      <4>1. claim[x].ticket \in Nat /\ proc[r].best \in Nat
        BY <1>t
      <4> QED BY <4>1, <3>2, <2>x, <1>b DEF PairInv, Passed, InFront, Before
    <3> QED BY <3>3, <3>4, <3>5, <2>a, BakeryFrame
  <2>11. CASE Announce(r)
    <3>1. /\ proc'[r].pc = "relist" /\ proc[r].pc = "announce" /\ up' = up
          /\ claim'[r].ticket = claim[r].ticket /\ claim'[r].in = claim[r].in
      BY <2>11, <1>g, <1>t DEF Announce, TypeOK, Claim, At
    <3>2. ClaimInv(r)'
      <4>1. ClaimInv(r)
        BY DEF BakeryInv
      <4> QED BY <4>1, <3>1, <1>b DEF ClaimInv
    <3>3. ASSUME NEW x \in Proc \ {r} PROVE PairInv(r, x)' /\ PairInv(x, r)'
      BY <3>1, <2>x, <1>b DEF PairInv, Passed, InFront, Before
    <3> QED BY <3>2, <3>3, <2>a, BakeryFrame
  <2> QED BY <1>4, <2>1, <2>2, <2>3, <2>4, <2>5, <2>6, <2>7, <2>8, <2>9, <2>10, <2>11
          DEF ReclaimStep
<1>5. CASE Age \/ UNCHANGED vars
  BY <1>5 DEF Age, vars, BakeryInv, ClaimInv, PairInv, Passed, InFront, Before
<1> QED BY <1>1, <1>2, <1>3, <1>4, <1>5 DEF Next

\* Two elected processes would each be in front of the other.
LEMMA ElectedOne == ASSUME TypeOK, BakeryInv, ConstantsAssumption PROVE OneReclaimer
<1>1. ASSUME NEW p \in Proc, NEW q \in Proc, up[p], proc[p].pc \in Elects,
             up[q], proc[q].pc \in Elects, p # q
      PROVE FALSE
  <2>1. PairInv(p, q) /\ PairInv(q, p)
    BY DEF BakeryInv
  <2>2. Before(p, q) /\ Before(q, p)
    BY <2>1, <1>1 DEF PairInv, Passed, InFront, Queued
  <2>3. claim[p].ticket \in Nat /\ claim[q].ticket \in Nat /\ p \in Nat /\ q \in Nat
    BY ConstantsAssumption DEF TypeOK, Claim, ConstantsAssumption
  <2> QED BY <2>2, <2>3, <1>1 DEF Before
<1> QED BY <1>1 DEF OneReclaimer

LEMMA BakeryInit == Init => BakeryInv
BY DEF Init, BakeryInv, ClaimInv, PairInv, Passed, Fresh, NoClaim, Bakery, Queued, Elects

\* At most one live process is between its election and the mv, whatever is
\* killed, stopped or lost, and however old the lock is.
THEOREM OneReclaimerCorrect == Spec => []OneReclaimer
<1>1. Init => TypeOK /\ BakeryInv
  BY TypeInit, BakeryInit, ConstantsAssumption
<1>2. TypeOK /\ BakeryInv /\ [Next]_vars => (TypeOK /\ BakeryInv)'
  BY TypeStep, BakeryStep, ConstantsAssumption
<1>3. TypeOK /\ BakeryInv => OneReclaimer
  BY ElectedOne, ConstantsAssumption
<1> QED BY <1>1, <1>2, <1>3, PTL DEF Spec

-----------------------------------------------------------------------------
(* The holder.                                                             *)

\* No process is stopped at the wrong moment and no write of an identity is
\* lost.
Quiet == Prompt /\ Brief /\ MaxLost = 0

Owning == Writing \cup Freeing \cup {"critical", "release"}

\* From its mkdir to its rmdir a process has made the directory at the path.
Owns(p) == up[p] /\ proc[p].pc \in Owning

\* What is in it by then.
Stage(p) ==
  /\ Present
  /\ dir.gen = proc[p].gen
  /\ dir.pid \in {0, p}
  /\ dir.pid = 0 => ~dir.old
  /\ proc[p].pc = "owner" => Empty
  /\ proc[p].pc \in {"pid", "started", "critical", "release"} => dir.owner = dir.gen
  /\ proc[p].pc = "pid" => dir.pid = 0
  /\ proc[p].pc \in {"started", "critical", "release"} => dir.pid = p
  /\ proc[p].pc \in Freeing => proc[p].inode = dir.gen
  /\ proc[p].pc = "rmdir" => Empty

\* The directory belongs to one live process or to a dead one, and about to
\* be moved is only a dead one's.
HolderInv ==
  /\ \A p \in Proc: Owns(p) => Stage(p)
  /\ \A p, q \in Proc: Owns(p) /\ Owns(q) => p = q
  /\ \A p \in Proc: At(p, "move") => Present /\ \A q \in Proc: ~Owns(q)

LEMMA PcClasses ==
  /\ Owning = {"owner", "pid", "started", "critical", "release", "unlink", "rmdir"}
  /\ Freeing = {"unlink", "rmdir"} /\ Writing = {"owner", "pid", "started"}
  /\ Elects = {"again", "stale", "move"}
BY DEF Owning, Freeing, Writing, Elects

\* A lock with a live owner is never stale.
LEMMA OwnerNotStale ==
  ASSUME NEW p \in Proc, Owns(p), Stage(p), ConstantsAssumption
  PROVE ~Stale
BY DEF Owns, Stage, Stale, ConstantsAssumption

\* A step that leaves the directory alone and ends neither as an owner nor
\* about to move it.
LEMMA HolderQuiet ==
  ASSUME HolderInv, NEW r \in Proc, Alone1(r), dir' = dir,
         ~up'[r] \/ proc'[r].pc \notin Owning \cup {"move"}
  PROVE HolderInv'
<1>1. /\ ~Owns(r)' /\ ~At(r, "move")'
      /\ \A x \in Proc \ {r}: /\ Owns(x)' = Owns(x)
                              /\ Stage(x)' = Stage(x)
                              /\ At(x, "move")' = At(x, "move")
  BY DEF Alone1, Owns, Stage, At, Present, Empty
<1> QED BY <1>1 DEF HolderInv, Present

\* A step of the owner: only its own stage is in question.
LEMMA HolderOwn ==
  ASSUME HolderInv, NEW r \in Proc, Alone1(r), Owns(r),
         Owns(r)' => Stage(r)', proc'[r].pc # "move"
  PROVE HolderInv'
<1>1. /\ \A x \in Proc \ {r}: ~Owns(x)' /\ ~At(x, "move")'
      /\ ~At(r, "move")'
  BY DEF HolderInv, Alone1, Owns, At
<1> QED BY <1>1 DEF HolderInv

LEMMA HolderStep ==
  ASSUME TypeOK, OneReclaimer, HolderInv, ConstantsAssumption, Quiet, [Next]_vars
  PROVE HolderInv'
<1>t. /\ \A r \in Proc: proc[r] \in Process /\ proc[r].gen \in Nat /\ r \in Nat \ {0}
      /\ dir \in Directory /\ made \in Nat /\ lost \in Nat /\ ~(lost < MaxLost)
  BY ConstantsAssumption DEF TypeOK, Process, ConstantsAssumption, Quiet
<1>c. /\ Owning = {"owner", "pid", "started", "critical", "release", "unlink", "rmdir"}
      /\ Freeing = {"unlink", "rmdir"} /\ Elects = {"again", "stale", "move"}
      /\ Writing = {"owner", "pid", "started"}
  BY PcClasses
<1>g. ASSUME NEW r \in Proc, NEW pc, Go(r, pc)
      PROVE /\ proc'[r].pc = pc /\ proc'[r].gen = proc[r].gen
            /\ proc'[r].inode = proc[r].inode
  BY <1>g, <1>t DEF Go, Become, TypeOK, Process
<1>r. ASSUME NEW r \in Proc, NEW pc, Return(r, pc) PROVE proc'[r].pc = pc
  BY <1>r DEF Return, Become, TypeOK, Fresh
<1>p. ASSUME NEW r \in Proc, Open(r)
      PROVE proc'[r].pc = "unlink" /\ proc'[r].gen = proc[r].gen /\ proc'[r].inode = dir.gen
  BY <1>p, <1>t DEF Open, Become, TypeOK, Process
<1>1. ASSUME NEW r \in Proc, Start(r) \/ GiveUp(r) \/ Kill(r) PROVE HolderInv'
  <2>1. Alone1(r) /\ dir' = dir
    BY <1>1, OneMoves DEF Start, GiveUp, Kill
  <2>2. ~up'[r] \/ proc'[r].pc \in {"mkdir", "idle"}
    BY <1>1, <1>g, <1>r DEF Start, GiveUp, Kill, TypeOK
  <2> QED BY <2>1, <2>2, <1>c, HolderQuiet
<1>2. ASSUME NEW r \in Proc, Mkdir(r) PROVE HolderInv'
  <2>1. Alone1(r)
    BY <1>2, OneMoves DEF AcquireStep
  <2>2. CASE Present
    BY <2>1, <2>2, <1>2, <1>g, <1>c, HolderQuiet DEF Mkdir
  <2>3. CASE ~Present
    <3>1. \A x \in Proc: ~Owns(x) /\ ~At(x, "move")
      BY <2>3 DEF HolderInv, Stage
    <3>2. /\ proc'[r].pc = "owner" /\ proc'[r].gen = made + 1
          /\ dir'.gen = made + 1 /\ dir'.owner = 0 /\ dir'.pid = 0
          /\ dir'.started = FALSE /\ dir'.old = FALSE
      <4>1. [proc[r] EXCEPT !.pc = "owner", !.gen = made + 1].pc = "owner"
        BY <1>t DEF Process
      <4>2. [proc[r] EXCEPT !.pc = "owner", !.gen = made + 1].gen = made + 1
        BY <1>t DEF Process
      <4>3. /\ [NoDir EXCEPT !.gen = made + 1].gen = made + 1
            /\ [NoDir EXCEPT !.gen = made + 1].owner = 0
            /\ [NoDir EXCEPT !.gen = made + 1].pid = 0
            /\ [NoDir EXCEPT !.gen = made + 1].started = FALSE
            /\ [NoDir EXCEPT !.gen = made + 1].old = FALSE
        BY DEF NoDir
      <4> QED BY <4>1, <4>2, <4>3, <2>3, <1>2 DEF Mkdir, Become, TypeOK
    <3>3. Stage(r)'
      BY <3>2, <1>t, <1>c DEF Stage, Present, Empty
    <3>4. \A x \in Proc \ {r}: ~Owns(x)' /\ ~At(x, "move")'
      BY <3>1, <2>1 DEF Alone1, Owns, At
    <3>5. ~At(r, "move")'
      BY <3>2 DEF At
    <3> QED BY <3>3, <3>4, <3>5 DEF HolderInv
  <2> QED BY <2>2, <2>3
<1>3. ASSUME NEW r \in Proc,
             WriteOwner(r) \/ WritePid(r) \/ WriteStarted(r) \/ Leave(r) \/ Release(r)
             \/ Unlink(r) \/ Rmdir(r)
      PROVE HolderInv'
  <2>1. Alone1(r)
    BY <1>3, OneMoves DEF AcquireStep
  <2>2. Owns(r) /\ Stage(r)
    BY <1>3, <1>c DEF WriteOwner, WritePid, WriteStarted, Leave, Release, Unlink, Rmdir, At,
                      Owns, HolderInv
  <2>3. CASE WriteOwner(r)
    <3>1. /\ proc[r].pc = "owner" /\ proc'[r].pc = "pid" /\ proc'[r].gen = proc[r].gen
          /\ dir' = [dir EXCEPT !.owner = proc[r].gen, !.old = FALSE]
      BY <2>3, <2>2, <1>t, <1>g DEF WriteOwner, Writes, Stage, At
    <3>2. Stage(r)'
      BY <3>1, <2>2, <1>t, <1>c DEF Stage, Present, Empty, Directory
    <3> QED BY <3>1, <3>2, <2>1, <2>2, HolderOwn
  <2>4. CASE WritePid(r)
    <3>1. /\ proc[r].pc = "pid" /\ proc'[r].pc = "started" /\ proc'[r].gen = proc[r].gen
          /\ dir' = [dir EXCEPT !.pid = r, !.old = FALSE]
      BY <2>4, <2>2, <1>t, <1>g DEF WritePid, Writes, Stage, At
    <3>2. Stage(r)'
      BY <3>1, <2>2, <1>t, <1>c DEF Stage, Present, Empty, Directory
    <3> QED BY <3>1, <3>2, <2>1, <2>2, HolderOwn
  <2>5. CASE WriteStarted(r)
    <3>1. /\ proc[r].pc = "started" /\ proc'[r].pc = "critical" /\ proc'[r].gen = proc[r].gen
          /\ dir' = [dir EXCEPT !.started = TRUE, !.old = FALSE]
      BY <2>5, <2>2, <1>t, <1>g DEF WriteStarted, Stage, At
    <3>2. Stage(r)'
      BY <3>1, <2>2, <1>t, <1>c DEF Stage, Present, Empty, Directory
    <3> QED BY <3>1, <3>2, <2>1, <2>2, HolderOwn
  <2>6. CASE Leave(r)
    <3>1. /\ proc[r].pc = "critical" /\ proc'[r].pc = "release" /\ proc'[r].gen = proc[r].gen
          /\ dir' = dir
      BY <2>6, <1>g DEF Leave, At
    <3>2. Stage(r)'
      BY <3>1, <2>2, <1>c DEF Stage, Present, Empty
    <3> QED BY <3>1, <3>2, <2>1, <2>2, HolderOwn
  <2>7. CASE Release(r)
    <3>1. /\ proc[r].pc = "release" /\ proc'[r].pc = "unlink" /\ proc'[r].gen = proc[r].gen
          /\ proc'[r].inode = dir.gen /\ dir' = dir
      BY <2>7, <2>2, <1>p DEF Release, At, Stage
    <3>2. Stage(r)'
      BY <3>1, <2>2, <1>c DEF Stage, Present, Empty
    <3> QED BY <3>1, <3>2, <2>1, <2>2, HolderOwn
  <2>8. CASE Unlink(r)
    <3>1. proc[r].pc = "unlink" /\ dir.gen = proc[r].inode
      BY <2>8, <2>2, <1>c DEF Unlink, At, Stage
    <3>2. CASE proc' = proc
      <4>2. \/ proc'[r].pc = "rmdir"
            \/ /\ dir'.gen = dir.gen /\ ~dir'.old
               /\ dir'.pid \in {0, dir.pid}
        BY <3>2, <2>8, <1>t, <1>g DEF Unlink, Directory, Overdue, Quiet
      <4>3. proc'[r].pc # "rmdir"
        BY <3>1, <3>2
      <4>1. Stage(r)'
        BY <4>2, <4>3, <3>1, <3>2, <2>2 DEF Stage, Present
      <4> QED BY <4>1, <3>1, <3>2, <2>1, <2>2, HolderOwn
    <3>3. CASE Empty /\ dir' = dir /\ Go(r, "rmdir")
      <4>1. /\ proc'[r].pc = "rmdir" /\ proc'[r].gen = proc[r].gen
            /\ proc'[r].inode = proc[r].inode
        BY <3>3, <1>g
      <4>2. Stage(r)'
        BY <4>1, <3>1, <3>3, <2>2, <1>c DEF Stage, Present, Empty
      <4> QED BY <4>1, <4>2, <2>1, <2>2, HolderOwn
    <3> QED BY <3>1, <3>2, <3>3, <2>8 DEF Unlink
  <2>9. CASE Rmdir(r)
    <3>1. proc'[r].pc = "idle"
      BY <2>9, <1>r DEF Rmdir
    <3>2. ~Owns(r)'
      BY <3>1, <1>c DEF Owns
    <3> QED BY <3>1, <3>2, <2>1, <2>2, HolderOwn
  <2> QED BY <1>3, <2>3, <2>4, <2>5, <2>6, <2>7, <2>8, <2>9
<1>4. ASSUME NEW r \in Proc, ReclaimStep(r), ~Move(r), ~StillStale(r) PROVE HolderInv'
  <2>1. Alone1(r)
    BY <1>4, OneMoves
  <2>2. dir' = dir
    BY <1>4 DEF ReclaimStep, Look, ReadGeneration, MakeClaim, List, Choose, Elect, Ticket,
       Announce,
                Elected, Again, Unclaim, Retry
  <2>3. proc'[r].pc \notin Owning \cup {"move"}
    <3>1. CASE Look(r) \/ Announce(r) \/ Elected(r) \/ Again(r) \/ Retry(r)
      BY <3>1, <1>g, <1>c DEF Look, Announce, Elected, Again, Retry
    <3>2. CASE Unclaim(r)
      BY <3>2, <1>r, <1>c DEF Unclaim
    <3>3. CASE ReadGeneration(r)
      <4>1. [proc[r] EXCEPT !.pc = "claim", !.seen = Generation].pc = "claim"
        BY <1>t DEF Process
      <4>2. proc'[r].pc \in {"claim", "wait"}
        BY <3>3, <4>1, <1>g DEF ReadGeneration, Become, TypeOK
      <4> QED BY <4>2, <1>c
    <3>4. CASE MakeClaim(r)
      BY <3>4, <1>t, <1>c DEF MakeClaim, Become, TypeOK, Process
    <3>5. CASE List(r)
      BY <3>5, <1>t, <1>c DEF List, Become, TypeOK, Process
    <3>6. ASSUME NEW q \in Proc, Choose(r, q) PROVE proc'[r].pc \notin Owning \cup {"move"}
      BY <3>6, <1>t, <1>c DEF Choose, Become, TypeOK, Process, At
    <3>7. ASSUME NEW q \in Proc, Elect(r, q) PROVE proc'[r].pc \notin Owning \cup {"move"}
      BY <3>7, <1>t, <1>c DEF Elect, Become, TypeOK, Process, At
    <3>8. CASE Ticket(r)
      BY <3>8, <1>t, <1>c DEF Ticket, Become, TypeOK, Process
    <3> QED BY <1>4, <3>1, <3>2, <3>3, <3>4, <3>5, <3>6, <3>7, <3>8 DEF ReclaimStep
  <2> QED BY <2>1, <2>2, <2>3, HolderQuiet
<1>5. ASSUME NEW r \in Proc, StillStale(r) PROVE HolderInv'
  <2>1. Alone1(r) /\ dir' = dir /\ up' = up
    BY <1>5, OneMoves DEF ReclaimStep, StillStale
  <2>2. proc'[r].pc = IF Stale THEN "move" ELSE "leave"
    BY <1>5, <1>t DEF StillStale, Become, TypeOK, Process
  <2>3. CASE ~Stale
    BY <2>1, <2>2, <2>3, <1>c, HolderQuiet
  <2>4. CASE Stale
    <3>1. Present /\ \A x \in Proc: ~Owns(x)
      BY <2>4, OwnerNotStale, ConstantsAssumption DEF HolderInv, Stale
    <3>2. \A x \in Proc: ~Owns(x)'
      BY <3>1, <2>1, <2>2, <2>4, <1>c DEF Owns, Alone1
    <3> QED BY <3>1, <3>2, <2>1 DEF HolderInv, Present
  <2> QED BY <2>3, <2>4
<1>6. ASSUME NEW r \in Proc, Move(r) PROVE HolderInv'
  <2>1. Alone1(r) /\ up' = up
    BY <1>6, OneMoves DEF ReclaimStep, Move
  <2>2. proc'[r].pc \in {"moved", "leave"}
    BY <1>6, <1>g DEF Move
  <2>3. \A x \in Proc: ~Owns(x)
    BY <1>6 DEF HolderInv, Move
  <2>4. \A x \in Proc: ~Owns(x)'
    BY <2>1, <2>2, <2>3, <1>c DEF Owns, Alone1
  <2>5. \A x \in Proc \ {r}: ~At(x, "move")
    BY <1>6, <1>c DEF OneReclaimer, Move, At
  <2>6. \A x \in Proc: ~At(x, "move")'
    BY <2>1, <2>2, <2>5 DEF At, Alone1
  <2> QED BY <2>4, <2>6 DEF HolderInv
<1>7. CASE Age
  <2>1. \A x \in Proc: ~Owns(x)
    <3>1. SUFFICES ASSUME NEW x \in Proc, Owns(x) PROVE FALSE
      OBVIOUS
    <3>2. Stage(x) /\ dir.pid = 0 /\ x # 0
      BY <3>1, <1>7, <1>t DEF HolderInv, Age
    <3>3. \/ proc[x].pc \in Writing /\ proc[x].gen = dir.gen
          \/ proc[x].pc \in Freeing /\ proc[x].inode = dir.gen
      <4>1. proc[x].pc \notin {"started", "critical", "release"}
        BY <3>2 DEF Stage
      <4>2. proc[x].pc \in {"owner", "pid", "unlink", "rmdir"}
        BY <3>1, <4>1, <1>c DEF Owns
      <4>3. CASE proc[x].pc \in {"owner", "pid"}
        <5>1. dir.gen = proc[x].gen
          BY <4>3, <3>2, <1>c DEF Stage
        <5>2. proc[x].pc \in Writing
          BY <4>3, <1>c
        <5> QED BY <5>1, <5>2
      <4>4. CASE proc[x].pc \in {"unlink", "rmdir"}
        <5>1. dir.gen = proc[x].inode
          BY <4>4, <3>2, <1>c DEF Stage
        <5>2. proc[x].pc \in Freeing
          BY <4>4, <1>c
        <5> QED BY <5>1, <5>2
      <4> QED BY <4>2, <4>3, <4>4
    <3> QED BY <3>1, <3>3, <1>7 DEF Busy, Age, Quiet, Owns
  <2>2. \A x \in Proc: ~Owns(x)'
    BY <2>1, <1>7 DEF Age, Owns
  <2>3. Present' = Present /\ \A x \in Proc: At(x, "move")' = At(x, "move")
    BY <1>7, <1>t DEF Age, Present, At, Directory
  <2> QED BY <2>2, <2>3, <2>1 DEF HolderInv
<1>8. CASE UNCHANGED vars
  <2>1. /\ Present' = Present
        /\ \A x \in Proc: Owns(x)' = Owns(x) /\ Stage(x)' = Stage(x) /\ At(x, "move")' = At(x, "move")
    BY <1>8 DEF vars, Owns, Stage, Present, Empty, At
  <2> QED BY <2>1 DEF HolderInv
<1> QED BY <1>1, <1>2, <1>3, <1>4, <1>5, <1>6, <1>7, <1>8 DEF Next, AcquireStep

LEMMA HolderInit == Init => HolderInv
BY PcClasses DEF Init, HolderInv, Owns, At, Fresh

\* As long as a process is inside, the directory at the path is the one it
\* made and names it, however long it takes and whoever else dies.
THEOREM HolderKeptCorrect == ASSUME Quiet PROVE Spec => []HolderKept
<1>1. Init => TypeOK /\ BakeryInv /\ HolderInv
  BY TypeInit, BakeryInit, HolderInit, ConstantsAssumption
<1>2. TypeOK /\ BakeryInv /\ HolderInv /\ [Next]_vars => (TypeOK /\ BakeryInv /\ HolderInv)'
  BY TypeStep, BakeryStep, ElectedOne, HolderStep, ConstantsAssumption, Quiet
<1>3. HolderInv => HolderKept
  BY PcClasses DEF HolderInv, HolderKept, Owns, Stage, At
<1> QED BY <1>1, <1>2, <1>3, PTL DEF Spec

-----------------------------------------------------------------------------
(* Refinement.                                                             *)

Inside == {p \in Proc: At(p, "critical")}

\* What a step that does not reach or leave the critical section shows of it.
LEMMA SameInside ==
  ASSUME NEW r \in Proc, Alone1(r), At(r, "critical")' = At(r, "critical")
  PROVE Inside' = Inside
BY DEF Inside, Alone1, At

LEMMA MutexStep ==
  ASSUME TypeOK, HolderInv, HolderInv', ConstantsAssumption, Quiet, [Next]_vars
  PROVE [Mutex!Next]_Inside
<1>t. /\ \A r \in Proc: proc[r] \in Process
      /\ lost \in Nat /\ ~(lost < MaxLost)
  BY ConstantsAssumption DEF TypeOK, ConstantsAssumption, Quiet
<1>g. ASSUME NEW r \in Proc, NEW pc, Go(r, pc) \/ Return(r, pc) PROVE proc'[r].pc = pc
  <2>1. [proc[r] EXCEPT !.pc = pc].pc = pc
    BY <1>t DEF Process
  <2>2. [Fresh EXCEPT !.pc = pc].pc = pc
    BY DEF Fresh
  <2> QED BY <1>g, <2>1, <2>2 DEF Go, Return, Become, TypeOK
<1>u. ASSUME NEW r \in Proc PROVE Inside = {r} \/ ~At(r, "critical")
  <2>1. \A x \in Proc: At(x, "critical") /\ At(r, "critical") => x = r
    BY PcClasses DEF HolderInv, Owns, At
  <2> QED BY <2>1 DEF Inside
<1>1. ASSUME NEW r \in Proc, WriteStarted(r) PROVE [Mutex!Next]_Inside
  <2>1. Alone1(r)
    BY <1>1, OneMoves DEF AcquireStep
  <2>2. At(r, "started") /\ up' = up
    BY <1>1 DEF WriteStarted
  <2>3. Inside = {}
    BY <2>2, PcClasses DEF HolderInv, Owns, At, Inside
  <2>4. proc'[r].pc = "critical"
    BY <1>1, <1>t, <1>g, <2>2, PcClasses DEF WriteStarted, HolderInv, Owns, At, Stage
  <2>5. Inside' = {r}
    BY <2>1, <2>2, <2>3, <2>4 DEF Inside, At, Alone1
  <2> QED BY <2>3, <2>5 DEF Mutex!Next, Mutex!Enter, Inside
<1>2. ASSUME NEW r \in Proc, Leave(r) \/ Kill(r) PROVE [Mutex!Next]_Inside
  <2>1. Alone1(r)
    BY <1>2, OneMoves DEF AcquireStep
  <2>2. ~At(r, "critical")'
    BY <1>2, <1>g DEF Leave, Kill, At, TypeOK
  <2>3. CASE At(r, "critical")
    <3>1. Inside' = Inside \ {r} /\ r \in Inside
      BY <2>1, <2>2, <2>3 DEF Inside, Alone1, At
    <3> QED BY <3>1 DEF Mutex!Next, Mutex!Exit, Inside
  <2>4. CASE ~At(r, "critical")
    <3>1. Inside' = Inside
      BY <2>1, <2>2, <2>4 DEF Inside, Alone1, At
    <3> QED BY <3>1
  <2> QED BY <2>3, <2>4
<1>3. ASSUME NEW r \in Proc,
             Start(r) \/ GiveUp(r) \/ ReclaimStep(r) \/ Mkdir(r) \/ WriteOwner(r) \/ WritePid(r)
             \/ Release(r) \/ Unlink(r) \/ Rmdir(r)
      PROVE Inside' = Inside
  <2>1. Alone1(r)
    BY <1>3, OneMoves DEF AcquireStep
  <2>2. ~At(r, "critical")
    BY <1>3 DEF Start, GiveUp, ReclaimStep, Mkdir, WriteOwner, WritePid, Release, Unlink,
       Rmdir,
                Look, ReadGeneration, MakeClaim, List, Choose, Elect, Ticket, Announce, Elected,
                Again, StillStale, Move, Unclaim, Retry, At
  <2>3. proc'[r].pc # "critical"
    <3>1. CASE Start(r) \/ GiveUp(r) \/ WriteOwner(r) \/ WritePid(r) \/ Rmdir(r)
               \/ Look(r) \/ Announce(r) \/ Elected(r) \/ Again(r) \/ Move(r) \/ Unclaim(r) \/ Retry(r)
      BY <3>1, <1>g DEF Start, GiveUp, WriteOwner, WritePid, Rmdir, Look, Announce, Elected,
         Again,
                        Move, Unclaim, Retry
    <3>2. CASE Unlink(r)
      BY <3>2, <2>2, <1>g DEF Unlink, At
    <3>3. CASE Release(r)
      <4>1. [proc[r] EXCEPT !.pc = "unlink", !.inode = dir.gen].pc = "unlink"
        BY <1>t DEF Process
      <4>2. CASE Open(r)
        BY <4>1, <4>2 DEF Open, Become, TypeOK
      <4> QED BY <3>3, <4>2, <1>g DEF Release
    <3>4. CASE Mkdir(r)
      <4>1. [proc[r] EXCEPT !.pc = "owner", !.gen = made + 1].pc = "owner"
        BY <1>t DEF Process
      <4> QED BY <3>4, <4>1, <1>g DEF Mkdir, Become, TypeOK
    <3>5. CASE ReadGeneration(r)
      <4>1. [proc[r] EXCEPT !.pc = "claim", !.seen = Generation].pc = "claim"
        BY <1>t DEF Process
      <4> QED BY <3>5, <4>1, <1>g DEF ReadGeneration, Become, TypeOK
    <3>6. CASE MakeClaim(r)
      BY <3>6, <1>t DEF MakeClaim, Become, TypeOK, Process
    <3>7. CASE List(r)
      BY <3>7, <1>t DEF List, Become, TypeOK, Process
    <3>8. ASSUME NEW q \in Proc, Choose(r, q) PROVE proc'[r].pc # "critical"
      BY <3>8, <1>t DEF Choose, Become, TypeOK, Process, At
    <3>9. ASSUME NEW q \in Proc, Elect(r, q) PROVE proc'[r].pc # "critical"
      BY <3>9, <1>t DEF Elect, Become, TypeOK, Process, At
    <3>10. CASE Ticket(r)
      BY <3>10, <1>t DEF Ticket, Become, TypeOK, Process
    <3>11. CASE StillStale(r)
      BY <3>11, <1>t DEF StillStale, Become, TypeOK, Process
    <3> QED BY <1>3, <3>1, <3>2, <3>3, <3>4, <3>5, <3>6, <3>7, <3>8, <3>9, <3>10, <3>11
            DEF ReclaimStep
  <2> QED BY <2>1, <2>2, <2>3, SameInside DEF At
<1>4. CASE Age \/ UNCHANGED vars
  BY <1>4 DEF Age, vars, Inside, At
<1> QED BY <1>1, <1>2, <1>3, <1>4 DEF Next, AcquireStep

\* The directory, its identity files and the bakery implement what PlanRun
\* and PatchLanding take from a lock: one process inside, out again when it
\* releases the lock or dies.
THEOREM MutexCorrect == ASSUME Quiet PROVE Spec => MutexImplemented
<1>1. Init => TypeOK /\ BakeryInv /\ HolderInv
  BY TypeInit, BakeryInit, HolderInit, ConstantsAssumption
<1>2. TypeOK /\ BakeryInv /\ HolderInv /\ [Next]_vars => (TypeOK /\ BakeryInv /\ HolderInv)'
  BY TypeStep, BakeryStep, ElectedOne, HolderStep, ConstantsAssumption, Quiet
<1>3. Init => Mutex!Init
  BY DEF Init, Mutex!Init, At, Fresh
<1>4. TypeOK /\ HolderInv /\ HolderInv' /\ [Next]_vars => [Mutex!Next]_Inside
  BY MutexStep, ConstantsAssumption, Quiet
<1> QED BY <1>1, <1>2, <1>3, <1>4, PTL DEF Spec, MutexImplemented, Mutex!Spec, Inside

=============================================================================
