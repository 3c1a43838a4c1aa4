-------------------------- MODULE MediaLibraryProofs --------------------------
(***************************************************************************)
(* Proofs about MediaLibrary, for any assets, threads and bounds.  A       *)
(* thread acts on what it read; what it may still rely on is what no other *)
(* thread can undo.                                                        *)
(***************************************************************************)
EXTENDS MediaLibrary, WellFoundedInduction, TLAPS

USE LibraryAssumption

ImportOps  == {"copy import", "probe import", "commit import"}
DeleteOps  == {"unlink", "erase"}
PromoteOps == {"promote", "demote", "swap"}
NewOps     == ImportOps \cup {"register"}
PlainOps   == DeleteOps \cup {"register", "archive", "restore", "activate"}
OldOps     == (PlainOps \ NewOps) \cup PromoteOps \cup {"use"}

Requests ==
  {Idle}
  \cup [op : ImportOps, a : Assets, seen : 1..MaxSeq]
  \cup [op : PlainOps, a : Assets, seen : {None}]
  \cup [op : {"use"}, a : Assets, seen : {"clip", "version", "costume"}]
  \cup [op : PromoteOps, a : Assets, seen : Assets \cup {None}]
  \cup [op : {"scan"}, a : {None}, seen : SUBSET Assets]

TypeOK ==
  /\ row \in [Assets -> {"none", "live", "archived", "gone"}]
  /\ status \in [Assets -> {"ready", "stale", "missing"}]
  /\ name \in [Assets -> Names]
  /\ disk \in [Names -> Assets \cup {None}]
  /\ active \in Assets \cup {None}
  /\ uses \in SUBSET (Kinds \X Assets)
  /\ master \in Assets \cup {None}
  /\ req \in [Threads -> Requests]
  /\ overlapped \in BOOLEAN /\ clashed \in BOOLEAN
  /\ torn \in SUBSET Assets /\ revived \in SUBSET Assets

Present(a) == row[a] \in {"live", "archived"}
Erasing(a) == \E t \in Threads : At(t, "erase") /\ req[t].a = a

\* Every foreign key names a row.
KeysHold == \A a \in Assets : IsUsed(a, Kinds) => Present(a)

\* An import is of a numbered file, anything else of the file of its asset.
NamesOK ==
  \A a \in Assets : /\ name[a] = a \/ name[a] \in 1..MaxSeq
                    /\ row[a] = "none" => name[a] = a

\* Without a clash, no two rows share a file and each finds its own bytes.
FilesOK ==
  ~clashed => \A a \in Assets : Present(a) =>
    /\ \A b \in Assets : Present(b) /\ name[a] = name[b] => a = b
    /\ disk[name[a]] = a \/ a \in torn \/ Erasing(a)

(* What a thread knows of its asset.                                       *)
Knows(r) ==
  /\ r.op \in NewOps => row[r.a] = "none"
  /\ r.op \in OldOps => row[r.a] # "none"
  /\ r.op = "register" => disk[r.a] = r.a
  /\ r.op \in PromoteOps => IsUsed(r.a, {"version", "master"})

(* What it knows of its file as long as no requests have clashed.          *)
KnowsFile(r) ==
  /\ r.op \in DeleteOps => Present(r.a)
  /\ r.op \in ImportOps => \A b \in Assets : Present(b) => name[b] # r.seen
  /\ r.op \in {"probe import", "commit import"} => disk[r.seen] = r.a

Conflict(r, q) ==
  \/ r.op \in ImportOps /\ q.op \in ImportOps
  \/ r.op \in DeleteOps /\ q.op \in DeleteOps /\ r.a = q.a

ThreadsOK ==
  /\ \A t \in Threads : Knows(req[t])
  /\ \A t, u \in Threads : t # u /\ req[t].op \in NewOps /\ req[u].op \in NewOps => req[t].a # req[u].a
  /\ ~clashed => \A t \in Threads : KnowsFile(req[t])
  /\ ~clashed => \A t, u \in Threads : t # u => ~Conflict(req[t], req[u])

(* Requests that do not meet find what they have read.                     *)
IsThere(a) == row[a] = "live" \/ (row[a] = "archived" /\ a \in revived)

KnowsAll(r) ==
  /\ r.op \in DeleteOps \cup {"archive"} => ~IsBlocked(r.a)
  /\ r.op = "activate" => Present(r.a)
  /\ r.op = "use" => IsThere(r.a)

SoloOK ==
  ~overlapped =>
    /\ \A t, u \in Busy : t = u
    /\ \A t \in Threads : KnowsAll(req[t])

LibraryInv ==
  TypeOK /\ KeysHold /\ NamesOK /\ FilesOK /\ ThreadsOK /\ SoloOK /\ UsedAssetsExist

-----------------------------------------------------------------------------
(* Requests.                                                               *)

LEMMA IdleFacts == Idle \in Requests /\ Idle.op = "idle"
  BY DEF Idle, Requests

LEMMA RequestFacts ==
  ASSUME NEW r \in Requests
  PROVE  /\ r.op \in {"idle", "scan"} \cup NewOps \cup OldOps
         /\ r.op = "idle" => r = Idle
         /\ r.op \in NewOps \cup OldOps => r.a \in Assets
         /\ r.op \in ImportOps => r.seen \in 1..MaxSeq
         /\ r.op = "use" => r.seen \in {"clip", "version", "costume"}
         /\ r.op = "scan" => r.seen \in SUBSET Assets
  <1>1. CASE r = Idle
    BY <1>1 DEF Idle, NewOps, OldOps, ImportOps, DeleteOps, PromoteOps, PlainOps
  <1>2. CASE r # Idle
    BY <1>2 DEF Requests, NewOps, OldOps, ImportOps, DeleteOps, PromoteOps, PlainOps
  <1> QED  BY <1>1, <1>2

LEMMA NumbersAreNotAssets == 1..MaxSeq \subseteq Nat /\ \A n \in 1..MaxSeq : n \notin Assets
  <1>1. 1..MaxSeq \subseteq Nat
    OBVIOUS
  <1> QED  BY <1>1

LEMMA NextOp ==
  ASSUME NEW r \in Requests, NEW op,
         \/ r.op \in ImportOps /\ op \in ImportOps
         \/ r.op \in DeleteOps /\ op \in DeleteOps
         \/ r.op \in PromoteOps /\ op \in PromoteOps
  PROVE  /\ [r EXCEPT !.op = op] \in Requests
         /\ [r EXCEPT !.op = op].op = op
         /\ [r EXCEPT !.op = op].a = r.a /\ [r EXCEPT !.op = op].seen = r.seen
  <1>1. r # Idle
    BY IdleFacts DEF ImportOps, DeleteOps, PromoteOps
  <1> QED  BY <1>1 DEF Requests, ImportOps, DeleteOps, PromoteOps, PlainOps

\* An idle thread knows nothing and has no conflict.
LEMMA IdleKnows ==
  /\ Knows(Idle) /\ KnowsFile(Idle) /\ KnowsAll(Idle)
  /\ \A q : ~Conflict(Idle, q) /\ ~Conflict(q, Idle)
  BY IdleFacts DEF Knows, KnowsFile, KnowsAll, Conflict, NewOps, OldOps, ImportOps, DeleteOps, PromoteOps, PlainOps

-----------------------------------------------------------------------------
(* The sequence number of the next import.                                 *)

LEMMA MaxIsUpper ==
  ASSUME NEW bound \in Nat, NEW S \in SUBSET (0..bound), S # {}
  PROVE  Max(S) \in S /\ \A x \in S : Max(S) >= x
  <1> DEFINE T == {bound - x : x \in S}
  <1>1. T \subseteq Nat /\ T # {}
    <2>1. \A x \in S : bound - x \in Nat
      OBVIOUS
    <2>2. PICK x \in S : TRUE
      OBVIOUS
    <2>3. bound - x \in T
      BY <2>2
    <2> QED  BY <2>1, <2>3
  <1>2. PICK m \in T : \A y \in T : ~(<<y, m>> \in OpToRel(<, Nat))
    BY <1>1, NatLessThanWellFounded, WFMin
  <1>3. ASSUME NEW y \in T  PROVE y >= m
    <2>1. y \in Nat /\ m \in Nat
      BY <1>1, <1>2
    <2>2. CASE y < m
      <3>1. <<y, m>> \in Nat \X Nat /\ <<y, m>>[1] < <<y, m>>[2]
        BY <2>1, <2>2
      <3>2. <<y, m>> \in OpToRel(<, Nat)
        BY <3>1 DEF OpToRel
      <3> QED  BY <3>2, <1>2
    <2> QED  BY <2>1, <2>2
  <1>4. PICK x \in S : m = bound - x
    BY <1>2
  <1>5. \A y \in S : x >= y
    BY <1>3, <1>4
  <1> QED  BY <1>4, <1>5 DEF Max

LEMMA NextSeqIsFree ==
  ASSUME TypeOK, NamesOK
  PROVE  NextSeq \in Nat \ {0} /\ \A b \in Assets : Present(b) => name[b] # NextSeq
  <1> DEFINE taken == {name[a] : a \in {b \in Assets : row[b] \in {"live", "archived"} /\ name[b] # b}}
  <1>1. {0} \cup taken \in SUBSET (0..MaxSeq)
    BY DEF NamesOK
  <1>2. Max({0} \cup taken) \in 0..MaxSeq /\ \A x \in {0} \cup taken : Max({0} \cup taken) >= x
    BY <1>1, MaxIsUpper
  <1>3. NextSeq = 1 + Max({0} \cup taken)
    BY DEF NextSeq
  <1> HIDE DEF taken
  <1>4. NextSeq \in Nat \ {0}
    BY <1>2, <1>3
  <1>5. ASSUME NEW b \in Assets, Present(b)  PROVE name[b] # NextSeq
    <2>1. CASE name[b] = b
      BY <2>1, <1>4
    <2>2. CASE name[b] # b
      <3>1. name[b] \in taken
        BY <1>5, <2>2 DEF taken, Present
      <3>2. name[b] \in 0..MaxSeq
        BY <1>1, <3>1
      <3> QED  BY <3>1, <3>2, <1>2, <1>3
    <2> QED  BY <2>1, <2>2
  <1> QED  BY <1>4, <1>5

-----------------------------------------------------------------------------
(* Threads that begin, go on and end.                                      *)

\* A request that reads only.
LEMMA ReadKeeps ==
  ASSUME LibraryInv, NEW t \in Threads, NEW op, NEW a, NEW seen, NEW r,
         r = [op |-> op, a |-> a, seen |-> seen], r \in Requests,
         Begin(t, op, a, seen), UNCHANGED <<rows, disk, links, torn, revived>>,
         clashed' \in BOOLEAN, clashed => clashed',
         Knows(r), op \in NewOps => \A u \in Threads : req[u].a # a,
         ~clashed' => KnowsFile(r) /\ \A u \in Threads : ~Conflict(r, req[u]) /\ ~Conflict(req[u], r),
         Busy = {} /\ ~overlapped => KnowsAll(r)
  PROVE  LibraryInv'
  <1> USE DEF rows, links
  <1>1. /\ req' = [req EXCEPT ![t] = r] /\ req[t] = Idle
        /\ overlapped' = (overlapped \/ Busy # {})
        /\ r.op = op /\ r.a = a
    BY DEF Begin
  <1>2. TypeOK'
    BY <1>1 DEF LibraryInv, TypeOK
  <1>3. KeysHold' /\ NamesOK'
    BY DEF LibraryInv, KeysHold, NamesOK, IsUsed, Present
  <1>4. \A b \in Assets : Erasing(b) => Erasing(b)'
    BY <1>1, IdleFacts DEF Erasing, At, LibraryInv, TypeOK
  <1>5. FilesOK'
    BY <1>4 DEF LibraryInv, FilesOK, Present
  <1>6. \A q : (Knows(q)' <=> Knows(q)) /\ (KnowsFile(q)' <=> KnowsFile(q)) /\ (KnowsAll(q)' <=> KnowsAll(q))
    BY DEF Knows, KnowsFile, KnowsAll, IsUsed, Present, IsBlocked, IsThere
  <1>7. \A u \in Threads : req'[u] = r \/ req'[u] = req[u]
    BY <1>1 DEF LibraryInv, TypeOK
  <1>8. \A u \in Threads : Knows(req[u])'
    BY <1>6, <1>7 DEF LibraryInv, ThreadsOK
  <1>9. \A u, v \in Threads : u # v /\ req'[u].op \in NewOps /\ req'[v].op \in NewOps => req'[u].a # req'[v].a
    <2> SUFFICES ASSUME NEW u \in Threads, NEW v \in Threads, u # v, req'[u].op \in NewOps, req'[v].op \in NewOps
                 PROVE  req'[u].a # req'[v].a
      OBVIOUS
    <2>1. /\ req'[u] = IF u = t THEN r ELSE req[u]
          /\ req'[v] = IF v = t THEN r ELSE req[v]
      BY <1>1 DEF LibraryInv, TypeOK
    <2> QED  BY <2>1, <1>1 DEF LibraryInv, ThreadsOK
  <1>10. ~clashed' => \A u \in Threads : KnowsFile(req[u])'
    BY <1>6, <1>7 DEF LibraryInv, ThreadsOK
  <1>11. ~clashed' => \A u, v \in Threads : u # v => ~Conflict(req'[u], req'[v])
    <2> SUFFICES ASSUME ~clashed', NEW u \in Threads, NEW v \in Threads, u # v
                 PROVE  ~Conflict(req'[u], req'[v])
      OBVIOUS
    <2>1. /\ req'[u] = IF u = t THEN r ELSE req[u]
          /\ req'[v] = IF v = t THEN r ELSE req[v]
      BY <1>1 DEF LibraryInv, TypeOK
    <2> QED  BY <2>1 DEF LibraryInv, ThreadsOK
  <1>12. ThreadsOK'
    BY <1>8, <1>9, <1>10, <1>11 DEF ThreadsOK, Conflict
  <1>13. SoloOK'
    <2> SUFFICES ASSUME ~overlapped'  PROVE /\ \A u, v \in Busy' : u = v
                                            /\ \A u \in Threads : KnowsAll(req[u])'
      BY DEF SoloOK
    <2>1. Busy = {} /\ ~overlapped
      BY <1>1
    <2>2. \A u \in Threads : u # t => req'[u] = Idle
      BY <1>1, <2>1 DEF LibraryInv, TypeOK, Busy
    <2>3. Busy' \subseteq {t}
      BY <2>2 DEF Busy
    <2>4. \A u \in Threads : req'[u] = r \/ req'[u] = Idle
      BY <1>1, <1>7, <2>2
    <2> QED  BY <2>1, <2>3, <2>4, <1>6, IdleKnows
  <1>14. UsedAssetsExist'
    BY <1>1 DEF LibraryInv, UsedAssetsExist, IsUsed
  <1> QED  BY <1>2, <1>3, <1>5, <1>12, <1>13, <1>14 DEF LibraryInv

\* A request goes on with the same asset, or ends.
LEMMA ThreadsMove ==
  ASSUME LibraryInv, NEW t \in Threads, NEW r \in Requests,
         req' = [req EXCEPT ![t] = r], clashed' = clashed,
         \/ r = Idle
         \/ /\ r.a = req[t].a
            /\ r.op \in NewOps => req[t].op \in NewOps
            /\ r.op \in ImportOps => req[t].op \in ImportOps
            /\ r.op \in DeleteOps => req[t].op \in DeleteOps,
         Knows(r)', ~clashed => KnowsFile(r)',
         \A u \in Threads : \A q : u # t /\ q = req[u] => Knows(q)' /\ (~clashed => KnowsFile(q)')
  PROVE  ThreadsOK'
  <1>1. \A u \in Threads : req'[u] = IF u = t THEN r ELSE req[u]
    BY DEF LibraryInv, TypeOK
  <1>2. \A u \in Threads : Knows(req[u])' /\ (~clashed' => KnowsFile(req[u])')
    BY <1>1
  <1>3. \A u, v \in Threads : u # v /\ req'[u].op \in NewOps /\ req'[v].op \in NewOps => req'[u].a # req'[v].a
    <2> SUFFICES ASSUME NEW u \in Threads, NEW v \in Threads, u # v, req'[u].op \in NewOps, req'[v].op \in NewOps
                 PROVE  req'[u].a # req'[v].a
      OBVIOUS
    <2>1. /\ req'[u] = IF u = t THEN r ELSE req[u]
          /\ req'[v] = IF v = t THEN r ELSE req[v]
      BY <1>1
    <2>2. Idle.op \notin NewOps
      BY IdleFacts DEF NewOps, ImportOps
    <2>3. /\ req[u].op \in NewOps /\ req'[u].a = req[u].a
          /\ req[v].op \in NewOps /\ req'[v].a = req[v].a
      BY <2>1, <2>2
    <2> QED  BY <2>3 DEF LibraryInv, ThreadsOK
  <1>4. ~clashed' => \A u, v \in Threads : u # v => ~Conflict(req'[u], req'[v])
    <2> SUFFICES ASSUME ~clashed', NEW u \in Threads, NEW v \in Threads, u # v
                 PROVE  ~Conflict(req'[u], req'[v])
      OBVIOUS
    <2>1. /\ req'[u] = IF u = t THEN r ELSE req[u]
          /\ req'[v] = IF v = t THEN r ELSE req[v]
      BY <1>1
    <2>2. ~Conflict(req[u], req[v])
      BY DEF LibraryInv, ThreadsOK
    <2>3. Idle.op \notin ImportOps \cup DeleteOps
      BY IdleFacts DEF ImportOps, DeleteOps
    <2> QED  BY <2>1, <2>2, <2>3 DEF Conflict
  <1> QED  BY <1>2, <1>3, <1>4 DEF ThreadsOK, Conflict

LEMMA ThreadsStay ==
  ASSUME LibraryInv, req' = req, clashed' = clashed,
         \A u \in Threads : \A q : q = req[u] => Knows(q)' /\ (~clashed => KnowsFile(q)')
  PROVE  ThreadsOK'
  BY DEF LibraryInv, ThreadsOK, Conflict

\* The only request goes on, or ends: what else there is, is idle.
LEMMA SoloMoves ==
  ASSUME LibraryInv, NEW t \in Threads, NEW r \in Requests,
         req' = [req EXCEPT ![t] = r], overlapped' = overlapped, req[t] # Idle,
         ~overlapped => KnowsAll(r)'
  PROVE  SoloOK'
  <1> SUFFICES ASSUME ~overlapped  PROVE /\ \A u, v \in Busy' : u = v
                                         /\ \A u \in Threads : KnowsAll(req[u])'
    BY DEF SoloOK
  <1>1. \A u \in Threads : req'[u] = IF u = t THEN r ELSE req[u]
    BY DEF LibraryInv, TypeOK
  <1>2. \A u \in Threads : u # t => req[u] = Idle
    BY DEF LibraryInv, SoloOK, Busy
  <1>3. KnowsAll(Idle)'
    BY IdleFacts DEF KnowsAll, DeleteOps
  <1> QED  BY <1>1, <1>2, <1>3 DEF Busy

LEMMA SoloStays ==
  ASSUME LibraryInv, req' = req, overlapped' = overlapped,
         ~overlapped => \A u \in Threads : \A q : q = req[u] => KnowsAll(q)'
  PROVE  SoloOK'
  BY DEF LibraryInv, SoloOK, Busy

-----------------------------------------------------------------------------
(* The actions.  First those that only read.                               *)

LEMMA InitOK ==
  ASSUME LibraryInit
  PROVE  LibraryInv
  <1> USE DEF LibraryInit
  <1>1. \A t \in Threads : req[t] = Idle
    OBVIOUS
  <1>2. TypeOK
    BY IdleFacts DEF TypeOK, Names
  <1>3. KeysHold /\ NamesOK /\ FilesOK /\ UsedAssetsExist
    BY DEF KeysHold, IsUsed, NamesOK, FilesOK, Present, UsedAssetsExist
  <1>4. ThreadsOK /\ SoloOK
    BY <1>1, IdleKnows, IdleFacts DEF ThreadsOK, SoloOK, Busy, NewOps, ImportOps
  <1> QED  BY <1>2, <1>3, <1>4 DEF LibraryInv

LEMMA StutterOK ==
  ASSUME LibraryInv, UNCHANGED libraryVars
  PROVE  LibraryInv'
  <1> USE DEF libraryVars, rows, links, history
  <1>1. TypeOK' /\ KeysHold' /\ NamesOK'
    BY DEF LibraryInv, TypeOK, KeysHold, NamesOK, IsUsed, Present
  <1>2. FilesOK' /\ UsedAssetsExist'
    BY DEF LibraryInv, FilesOK, UsedAssetsExist, Present, Erasing, At, IsUsed
  <1>3. ThreadsOK'
    BY DEF LibraryInv, ThreadsOK, Knows, KnowsFile, Conflict, Present, IsUsed
  <1>4. SoloOK'
    BY DEF LibraryInv, SoloOK, Busy, KnowsAll, Present, IsThere, IsBlocked, IsUsed
  <1> QED  BY <1>1, <1>2, <1>3, <1>4 DEF LibraryInv

LEMMA ImportReadsOK ==
  ASSUME LibraryInv, NEW t \in Threads, NEW a \in Assets, ImportReads(t, a)
  PROVE  LibraryInv'
  <1> DEFINE r == [op |-> "copy import", a |-> a, seen |-> NextSeq]
  <1>1. NextSeq \in 1..MaxSeq /\ \A b \in Assets : Present(b) => name[b] # NextSeq
    <2>1. TypeOK /\ NamesOK
      BY DEF LibraryInv
    <2>2. NextSeq \in Nat \ {0} /\ \A b \in Assets : Present(b) => name[b] # NextSeq
      BY <2>1, NextSeqIsFree
    <2>3. NextSeq <= MaxSeq
      BY DEF ImportReads
    <2> QED  BY <2>2, <2>3
  <1>2. r \in Requests
    BY <1>1 DEF Requests, ImportOps
  <1>3. Knows(r) /\ KnowsFile(r) /\ KnowsAll(r)
    BY <1>1 DEF Knows, KnowsFile, KnowsAll, ImportReads, IsFree, OldOps, NewOps, ImportOps, DeleteOps, PlainOps, PromoteOps
  <1>4. ~clashed' => \A u \in Threads : ~Conflict(r, req[u]) /\ ~Conflict(req[u], r)
    BY DEF ImportReads, Importing, Conflict, ImportOps, DeleteOps
  <1>5. clashed' \in BOOLEAN /\ (clashed => clashed')
    BY DEF ImportReads, LibraryInv, TypeOK
  <1>6. /\ Begin(t, "copy import", a, NextSeq) /\ UNCHANGED <<rows, disk, links, torn, revived>>
        /\ \A u \in Threads : req[u].a # a
    BY DEF ImportReads, IsFree
  <1> HIDE DEF r
  <1>7. r = [op |-> "copy import", a |-> a, seen |-> NextSeq]
    BY DEF r
  <1> QED  BY ONLY LibraryInv, t \in Threads, <1>2, <1>3, <1>4, <1>5, <1>6, <1>7, ReadKeeps

\* The other reading steps meet nothing: no clash is made.
LEMMA PlainRead ==
  ASSUME LibraryInv, NEW t \in Threads, NEW op \in {"archive", "restore", "activate", "use", "promote", "scan"},
         NEW a, NEW seen, NEW r, r = [op |-> op, a |-> a, seen |-> seen], r \in Requests,
         Begin(t, op, a, seen), UNCHANGED <<rows, disk, links, history>>,
         op # "scan" => row[a] # "none",
         op = "promote" => IsUsed(a, {"version", "master"}),
         Busy = {} /\ ~overlapped => KnowsAll(r)
  PROVE  LibraryInv'
  <1>1. Knows(r) /\ KnowsFile(r)
    BY DEF Knows, KnowsFile, OldOps, NewOps, ImportOps, DeleteOps, PlainOps, PromoteOps
  <1>2. \A q : ~Conflict(r, q) /\ ~Conflict(q, r)
    BY DEF Conflict, ImportOps, DeleteOps
  <1>3. op \notin NewOps
    BY DEF NewOps, ImportOps
  <1>4. clashed' = clashed /\ clashed \in BOOLEAN /\ UNCHANGED <<rows, disk, links, torn, revived>>
    BY DEF history, LibraryInv, TypeOK
  <1> QED  BY <1>1, <1>2, <1>3, <1>4, ReadKeeps

LEMMA ArchiveReadsOK ==
  ASSUME LibraryInv, NEW t \in Threads, NEW a \in Assets, ArchiveReads(t, a)
  PROVE  LibraryInv'
  <1> DEFINE r == [op |-> "archive", a |-> a, seen |-> None]
  <1>1. r \in Requests /\ KnowsAll(r)
    BY DEF Requests, PlainOps, KnowsAll, DeleteOps, ArchiveReads
  <1> QED  BY <1>1, PlainRead DEF ArchiveReads

LEMMA RestoreReadsOK ==
  ASSUME LibraryInv, NEW t \in Threads, NEW a \in Assets, RestoreReads(t, a)
  PROVE  LibraryInv'
  <1> DEFINE r == [op |-> "restore", a |-> a, seen |-> None]
  <1>1. r \in Requests /\ KnowsAll(r)
    BY DEF Requests, PlainOps, KnowsAll, DeleteOps
  <1> QED  BY <1>1, PlainRead DEF RestoreReads

LEMMA ActivateReadsOK ==
  ASSUME LibraryInv, NEW t \in Threads, NEW a \in Assets, ActivateReads(t, a)
  PROVE  LibraryInv'
  <1> DEFINE r == [op |-> "activate", a |-> a, seen |-> None]
  <1>1. r \in Requests /\ KnowsAll(r)
    BY DEF Requests, PlainOps, KnowsAll, DeleteOps, ActivateReads, Present
  <1> QED  BY <1>1, PlainRead DEF ActivateReads

LEMMA PromoteReadsOK ==
  ASSUME LibraryInv, NEW t \in Threads, NEW a \in Assets, PromoteReads(t, a)
  PROVE  LibraryInv'
  <1> DEFINE r == [op |-> "promote", a |-> a, seen |-> master]
  <1>1. r \in Requests /\ KnowsAll(r)
    BY DEF Requests, PromoteOps, KnowsAll, DeleteOps, LibraryInv, TypeOK
  <1>2. row[a] # "none"
    BY DEF PromoteReads, LibraryInv, KeysHold, IsUsed, Kinds, Present
  <1> QED  BY <1>1, <1>2, PlainRead DEF PromoteReads

LEMMA ScanReadsOK ==
  ASSUME LibraryInv, NEW t \in Threads, ScanReads(t)
  PROVE  LibraryInv'
  <1> DEFINE seen == {a \in Assets : row[a] = "live" /\ status[a] = "ready"}
             r == [op |-> "scan", a |-> None, seen |-> seen]
  <1>1. r \in Requests /\ KnowsAll(r)
    BY DEF Requests, KnowsAll, DeleteOps
  <1> QED  BY <1>1, PlainRead DEF ScanReads

LEMMA UseReadsOK ==
  ASSUME LibraryInv, NEW t \in Threads, NEW a \in Assets, NEW kind \in Kinds, UseReads(t, kind, a)
  PROVE  LibraryInv'
  <1> DEFINE r == [op |-> "use", a |-> a, seen |-> kind]
  <1>1. r \in Requests /\ KnowsAll(r)
    BY DEF Requests, KnowsAll, DeleteOps, UseReads, IsThere
  <1> QED  BY <1>1, PlainRead DEF UseReads

LEMMA DeleteReadsOK ==
  ASSUME LibraryInv, NEW t \in Threads, NEW a \in Assets, DeleteReads(t, a)
  PROVE  LibraryInv'
  <1> DEFINE r == [op |-> "unlink", a |-> a, seen |-> None]
  <1>1. r \in Requests
    BY DEF Requests, PlainOps, DeleteOps
  <1>2. Knows(r) /\ KnowsFile(r) /\ KnowsAll(r)
    BY DEF DeleteReads, Knows, KnowsFile, KnowsAll, Present, OldOps, NewOps, ImportOps, DeleteOps, PlainOps, PromoteOps
  <1>3. ~clashed' => \A u \in Threads : ~Conflict(r, req[u]) /\ ~Conflict(req[u], r)
    BY DEF DeleteReads, Conflict, ImportOps, DeleteOps
  <1>4. clashed' \in BOOLEAN /\ (clashed => clashed')
    BY DEF DeleteReads, LibraryInv, TypeOK
  <1>5. /\ Begin(t, "unlink", a, None) /\ UNCHANGED <<rows, disk, links, torn, revived>>
        /\ "unlink" \notin NewOps
    BY DEF DeleteReads, NewOps, ImportOps
  <1> QED  BY <1>1, <1>2, <1>3, <1>4, <1>5, ReadKeeps

-----------------------------------------------------------------------------
(* Imports and generations: steps on files and new rows.                   *)

\* What a step of a thread on the files leaves alone.
LEMMA FileStep ==
  ASSUME LibraryInv, NEW t \in Threads, NEW r \in Requests,
         req' = [req EXCEPT ![t] = r], disk' \in [Names -> Assets \cup {None}],
         UNCHANGED <<rows, links, overlapped, clashed, torn, revived>>
  PROVE  TypeOK' /\ KeysHold' /\ NamesOK' /\ UsedAssetsExist'
  <1> USE DEF rows, links
  <1>1. TypeOK'
    BY DEF LibraryInv, TypeOK
  <1>2. KeysHold' /\ NamesOK' /\ UsedAssetsExist'
    BY DEF LibraryInv, KeysHold, NamesOK, IsUsed, Present, UsedAssetsExist
  <1> QED  BY <1>1, <1>2

LEMMA ImportCopiesOK ==
  ASSUME LibraryInv, NEW t \in Threads, ImportCopies(t)
  PROVE  LibraryInv'
  <1>1. req[t] \in Requests /\ req[t].op = "copy import" /\ req[t] # Idle
    BY IdleFacts DEF LibraryInv, TypeOK, ImportCopies, At
  <1>2. req[t].a \in Assets /\ req[t].seen \in 1..MaxSeq /\ req[t].seen \in Names
    BY <1>1, RequestFacts DEF ImportOps, NewOps, Names
  <1> PICK r : r = [req[t] EXCEPT !.op = "probe import"]
    OBVIOUS
  <1>3. r \in Requests /\ r.op = "probe import" /\ r.a = req[t].a /\ r.seen = req[t].seen
    BY <1>1, NextOp DEF ImportOps
  <1>4. /\ req' = [req EXCEPT ![t] = r] /\ disk' = [disk EXCEPT ![req[t].seen] = req[t].a]
        /\ UNCHANGED <<rows, links, overlapped, clashed, torn, revived>>
    BY DEF ImportCopies, Goes, history
  <1>5. disk' \in [Names -> Assets \cup {None}] /\ disk'[req[t].seen] = req[t].a
        /\ \A n \in Names : n # req[t].seen => disk'[n] = disk[n]
    BY <1>2, <1>4 DEF LibraryInv, TypeOK
  <1>6. TypeOK' /\ KeysHold' /\ NamesOK' /\ UsedAssetsExist'
    BY <1>3, <1>4, <1>5, FileStep
  <1>7. ~clashed => \A b \in Assets : Present(b) => name[b] # req[t].seen
    BY <1>1 DEF LibraryInv, ThreadsOK, KnowsFile, ImportOps
  <1>8. \A b \in Assets : Erasing(b) => Erasing(b)'
    BY <1>1, <1>4 DEF Erasing, At, LibraryInv, TypeOK
  <1>9. FilesOK'
    <2>1. \A b \in Assets : name[b] \in Names
      BY DEF LibraryInv, TypeOK
    <2> QED  BY <1>4, <1>5, <1>7, <1>8, <2>1 DEF LibraryInv, FilesOK, Present, rows
  <1>10. Knows(r)' /\ (~clashed => KnowsFile(r)')
    <2>1. Knows(req[t])
      BY DEF LibraryInv, ThreadsOK
    <2> QED  BY <1>1, <1>3, <1>4, <1>5, <1>7, <2>1
             DEF Knows, KnowsFile, Present, rows, NewOps, OldOps, ImportOps, DeleteOps, PlainOps, PromoteOps
  <1>11. ASSUME NEW u \in Threads, NEW q, u # t, q = req[u]
         PROVE  Knows(q)' /\ (~clashed => KnowsFile(q)')
    <2>1. Knows(q) /\ q \in Requests /\ (~clashed => KnowsFile(q))
      BY <1>11 DEF LibraryInv, ThreadsOK, TypeOK
    <2>2. q.op = "register" => q.a \in Names /\ q.a # req[t].seen
      <3>1. q.op = "register" => q.a \in Assets
        BY <2>1, RequestFacts DEF NewOps
      <3>2. req[t].seen \in Nat
        BY <1>2, NumbersAreNotAssets
      <3> QED  BY <3>1, <3>2 DEF Names
    <2>3. Knows(q)'
      BY <1>4, <1>5, <2>1, <2>2 DEF Knows, IsUsed, rows, links
    <2>4. ~clashed => q.op \notin ImportOps
      BY <1>1, <1>11 DEF LibraryInv, ThreadsOK, Conflict, ImportOps
    <2>5. ~clashed => KnowsFile(q)'
      BY <1>4, <2>1, <2>4 DEF KnowsFile, Present, rows, ImportOps
    <2> QED  BY <2>3, <2>5
  <1>12. ThreadsOK'
    <2>1. /\ r.op \in NewOps => req[t].op \in NewOps
          /\ r.op \in ImportOps => req[t].op \in ImportOps
          /\ r.op \in DeleteOps => req[t].op \in DeleteOps
      BY <1>1, <1>3 DEF NewOps, ImportOps, DeleteOps
    <2> QED  BY <1>3, <1>4, <1>10, <1>11, <2>1, ThreadsMove
  <1>13. SoloOK'
    <2>1. KnowsAll(r)'
      BY <1>3 DEF KnowsAll, DeleteOps
    <2> QED  BY <1>1, <1>3, <1>4, <2>1, SoloMoves
  <1> QED  BY <1>6, <1>9, <1>12, <1>13 DEF LibraryInv

\* A file is removed that belongs to no row yet.
LEMMA RemovesNewFile ==
  ASSUME LibraryInv, NEW t \in Threads, NEW n \in Names,
         \/ req[t].op \in ImportOps /\ n = req[t].seen
         \/ req[t].op = "register" /\ n = req[t].a,
         disk' = [disk EXCEPT ![n] = None], req' = [req EXCEPT ![t] = Idle],
         UNCHANGED <<rows, links, overlapped, clashed, torn, revived>>
  PROVE  LibraryInv'
  <1>1. req[t] \in Requests /\ Idle \in Requests /\ req[t] # Idle
    BY IdleFacts DEF LibraryInv, TypeOK, ImportOps
  <1>2. /\ disk' \in [Names -> Assets \cup {None}]
        /\ \A m \in Names : m # n => disk'[m] = disk[m]
    BY DEF LibraryInv, TypeOK
  <1>3. TypeOK' /\ KeysHold' /\ NamesOK' /\ UsedAssetsExist'
    BY <1>1, <1>2, FileStep
  <1>4. req[t].op = "register" => req[t].a \in Assets /\ row[req[t].a] = "none"
    BY <1>1, RequestFacts DEF LibraryInv, ThreadsOK, Knows, NewOps
  <1>5. ~clashed => \A b \in Assets : Present(b) => name[b] # n
    <2>1. CASE req[t].op \in ImportOps /\ n = req[t].seen
      BY <2>1 DEF LibraryInv, ThreadsOK, KnowsFile
    <2>2. CASE req[t].op = "register" /\ n = req[t].a
      <3>1. ASSUME NEW b \in Assets, Present(b)  PROVE name[b] # n
        <4>1. b # n
          BY <3>1, <2>2, <1>4 DEF Present
        <4>2. name[b] = b \/ name[b] \in Nat
          BY DEF LibraryInv, NamesOK
        <4>3. n \notin Nat
          BY <2>2, <1>4
        <4> QED  BY <4>1, <4>2, <4>3
      <3> QED  BY <3>1
    <2> QED  BY <2>1, <2>2
  <1>6. \A b \in Assets : Erasing(b) => Erasing(b)'
    BY DEF Erasing, At, LibraryInv, TypeOK, ImportOps
  <1>7. FilesOK'
    <2>1. \A b \in Assets : name[b] \in Names
      BY DEF LibraryInv, TypeOK
    <2> QED  BY <1>2, <1>5, <1>6, <2>1 DEF LibraryInv, FilesOK, Present, rows
  <1>8. ASSUME NEW u \in Threads, NEW q, u # t, q = req[u]
        PROVE  Knows(q)' /\ (~clashed => KnowsFile(q)')
    <2>1. Knows(q) /\ q \in Requests /\ (~clashed => KnowsFile(q))
      BY <1>8 DEF LibraryInv, ThreadsOK, TypeOK
    <2>2. q.op = "register" => q.a \in Names /\ q.a # n
      <3>1. CASE req[t].op \in ImportOps /\ n = req[t].seen
        BY <3>1, <1>1, <2>1, RequestFacts DEF NewOps, Names
      <3>2. CASE req[t].op = "register" /\ n = req[t].a
        BY <3>2, <1>8, <2>1, RequestFacts DEF NewOps, Names, LibraryInv, ThreadsOK
      <3> QED  BY <3>1, <3>2
    <2>3. Knows(q)'
      BY <1>2, <2>1, <2>2 DEF Knows, IsUsed, rows, links
    <2>4. ~clashed /\ q.op \in ImportOps => q.seen \in Names /\ q.seen # n
      <3>1. CASE req[t].op \in ImportOps /\ n = req[t].seen
        BY <3>1, <1>8 DEF LibraryInv, ThreadsOK, Conflict
      <3>2. CASE req[t].op = "register" /\ n = req[t].a
        BY <3>2, <1>4, <2>1, RequestFacts DEF Names
      <3> QED  BY <3>1, <3>2
    <2>5. ~clashed => KnowsFile(q)'
      BY <1>2, <2>1, <2>4 DEF KnowsFile, Present, rows, ImportOps
    <2> QED  BY <2>3, <2>5
  <1>9. Knows(Idle)' /\ KnowsFile(Idle)' /\ KnowsAll(Idle)'
    BY IdleFacts DEF Knows, KnowsFile, KnowsAll, NewOps, OldOps, ImportOps, DeleteOps, PlainOps, PromoteOps
  <1>10. ThreadsOK'
    BY <1>1, <1>8, <1>9, ThreadsMove
  <1>11. SoloOK'
    BY <1>1, <1>9, SoloMoves
  <1> QED  BY <1>3, <1>7, <1>10, <1>11 DEF LibraryInv

LEMMA ImportProbesOK ==
  ASSUME LibraryInv, NEW t \in Threads, ImportProbes(t)
  PROVE  LibraryInv'
  <1>1. req[t] \in Requests /\ req[t].op = "probe import" /\ req[t] # Idle
    BY IdleFacts DEF LibraryInv, TypeOK, ImportProbes, At
  <1>2. req[t].seen \in Names
    BY <1>1, RequestFacts DEF ImportOps, Names
  <1>3. CASE Ends(t) /\ disk' = [disk EXCEPT ![req[t].seen] = None]
    <2>1. /\ req' = [req EXCEPT ![t] = Idle] /\ req[t].op \in ImportOps
          /\ UNCHANGED <<rows, links, overlapped, clashed, torn, revived>>
      BY <1>1, <1>3 DEF ImportProbes, Ends, history, ImportOps
    <2> QED  BY <1>2, <1>3, <2>1, RemovesNewFile
  <1>4. CASE Goes(t, "commit import") /\ UNCHANGED disk
    <2> PICK r : r = [req[t] EXCEPT !.op = "commit import"]
      OBVIOUS
    <2>1. r \in Requests /\ r.op = "commit import" /\ r.a = req[t].a /\ r.seen = req[t].seen
      BY <1>1, NextOp DEF ImportOps
    <2>2. /\ req' = [req EXCEPT ![t] = r]
          /\ UNCHANGED <<rows, links, overlapped, clashed, torn, revived, disk>>
      BY <1>4 DEF ImportProbes, Goes, history
    <2>3. TypeOK' /\ KeysHold' /\ NamesOK' /\ UsedAssetsExist'
      BY <2>1, <2>2, FileStep DEF LibraryInv, TypeOK
    <2>4. FilesOK'
      <3>1. \A b \in Assets : Erasing(b) => Erasing(b)'
        BY <1>1, <2>2 DEF Erasing, At, LibraryInv, TypeOK
      <3> QED  BY <2>2, <3>1 DEF LibraryInv, FilesOK, Present, rows
    <2>5. \A q : (Knows(q)' <=> Knows(q)) /\ (KnowsFile(q)' <=> KnowsFile(q))
      BY <2>2 DEF Knows, KnowsFile, IsUsed, Present, rows, links
    <2>6. Knows(r) /\ (~clashed => KnowsFile(r))
      <3>1. Knows(req[t]) /\ (~clashed => KnowsFile(req[t]))
        BY DEF LibraryInv, ThreadsOK
      <3> QED  BY <1>1, <2>1, <3>1
               DEF Knows, KnowsFile, NewOps, OldOps, ImportOps, DeleteOps, PlainOps, PromoteOps
    <2>7. ThreadsOK'
      <3>1. /\ r.op \in NewOps => req[t].op \in NewOps
            /\ r.op \in ImportOps => req[t].op \in ImportOps
            /\ r.op \in DeleteOps => req[t].op \in DeleteOps
        BY <1>1, <2>1 DEF NewOps, ImportOps, DeleteOps
      <3>2. \A u \in Threads : \A q : u # t /\ q = req[u] => Knows(q)' /\ (~clashed => KnowsFile(q)')
        BY <2>5 DEF LibraryInv, ThreadsOK
      <3> QED  BY <2>1, <2>2, <2>5, <2>6, <3>1, <3>2, ThreadsMove
    <2>8. SoloOK'
      <3>1. KnowsAll(r)'
        BY <2>1 DEF KnowsAll, DeleteOps
      <3> QED  BY <1>1, <2>1, <2>2, <3>1, SoloMoves
    <2> QED  BY <2>3, <2>4, <2>7, <2>8 DEF LibraryInv
  <1> QED  BY <1>3, <1>4 DEF ImportProbes

LEMMA CompensatesOK ==
  ASSUME LibraryInv, NEW t \in Threads, Compensates(t)
  PROVE  LibraryInv'
  <1>1. req[t].a \in Names /\ req[t].op = "register"
    BY RequestFacts DEF LibraryInv, TypeOK, Compensates, At, NewOps, Names
  <1>2. /\ req' = [req EXCEPT ![t] = Idle] /\ disk' = [disk EXCEPT ![req[t].a] = None]
        /\ UNCHANGED <<rows, links, overlapped, clashed, torn, revived>>
    BY DEF Compensates, Ends, history
  <1> QED  BY <1>1, <1>2, RemovesNewFile

\* A new row takes the file its thread has written.
LEMMA RowIsAdded ==
  ASSUME LibraryInv, NEW t \in Threads, NEW a, a = req[t].a, NEW n \in Names,
         \/ req[t].op = "commit import" /\ n = req[t].seen
         \/ req[t].op = "register" /\ n = a,
         row' = [row EXCEPT ![a] = "live"], name' = [name EXCEPT ![a] = n],
         active' \in {active, a}, req' = [req EXCEPT ![t] = Idle],
         UNCHANGED <<status, disk, uses, master, overlapped, history>>
  PROVE  LibraryInv'
  <1> USE DEF history
  <1>1. req[t] \in Requests /\ Idle \in Requests /\ req[t] # Idle /\ req[t].op \in NewOps
    BY IdleFacts DEF LibraryInv, TypeOK, NewOps, ImportOps
  <1>2. a \in Assets /\ row[a] = "none"
    BY <1>1, RequestFacts DEF LibraryInv, ThreadsOK, Knows
  <1>3. /\ row'[a] = "live" /\ name'[a] = n
        /\ \A b \in Assets : b # a => row'[b] = row[b] /\ name'[b] = name[b]
        /\ \A b \in Assets : Present(b)' <=> (b = a \/ Present(b))
    BY <1>2 DEF LibraryInv, TypeOK, Present
  <1>4. n = a \/ n \in 1..MaxSeq
    BY <1>1, RequestFacts DEF ImportOps
  <1>5. TypeOK'
    BY <1>1, <1>2 DEF LibraryInv, TypeOK
  <1>6. KeysHold'
    BY <1>3 DEF LibraryInv, KeysHold, IsUsed
  <1>7. NamesOK'
    BY <1>3, <1>4 DEF LibraryInv, NamesOK
  <1>8. ~clashed => disk[n] = a /\ \A b \in Assets : Present(b) => name[b] # n
    <2>1. CASE req[t].op = "commit import" /\ n = req[t].seen
      BY <2>1 DEF LibraryInv, ThreadsOK, KnowsFile, ImportOps
    <2>2. CASE req[t].op = "register" /\ n = a
      <3>1. disk[a] = a
        BY <2>2 DEF LibraryInv, ThreadsOK, Knows
      <3>2. ASSUME NEW b \in Assets, Present(b)  PROVE name[b] # a
        <4>1. b # a
          BY <3>2, <1>2 DEF Present
        <4>2. name[b] = b \/ name[b] \in Nat
          BY NumbersAreNotAssets DEF LibraryInv, NamesOK
        <4> QED  BY <4>1, <4>2, <1>2
      <3> QED  BY <2>2, <3>1, <3>2
    <2> QED  BY <2>1, <2>2
  <1>9. \A b \in Assets : Erasing(b) => Erasing(b)'
    BY <1>1 DEF Erasing, At, LibraryInv, TypeOK, NewOps, ImportOps
  <1>10. FilesOK'
    <2> SUFFICES ASSUME ~clashed, NEW b \in Assets, Present(b)'
                 PROVE  /\ \A c \in Assets : Present(c)' /\ name'[b] = name'[c] => b = c
                        /\ disk[name'[b]] = b \/ b \in torn \/ Erasing(b)'
      BY DEF FilesOK
    <2>1. CASE b = a
      <3>1. disk[name'[b]] = b
        BY <2>1, <1>3, <1>8
      <3>2. ASSUME NEW c \in Assets, Present(c)', name'[b] = name'[c], c # a  PROVE FALSE
        <4>1. Present(c) /\ name[c] = n
          BY <3>2, <2>1, <1>3
        <4> QED  BY <4>1, <1>8
      <3> QED  BY <2>1, <3>1, <3>2
    <2>2. CASE b # a
      BY <2>2, <1>3, <1>8, <1>9 DEF LibraryInv, FilesOK
    <2> QED  BY <2>1, <2>2
  <1>11. ASSUME NEW u \in Threads, NEW q, u # t, q = req[u]
         PROVE  Knows(q)' /\ (~clashed => KnowsFile(q)')
    <2>1. Knows(q) /\ q \in Requests /\ (~clashed => KnowsFile(q))
      BY <1>11 DEF LibraryInv, ThreadsOK, TypeOK
    <2>2. q.op \in NewOps => q.a \in Assets /\ q.a # a
      BY <1>1, <1>11, <2>1, RequestFacts DEF LibraryInv, ThreadsOK
    <2>3. q.op \in OldOps => q.a \in Assets
      BY <2>1, RequestFacts
    <2>4. Knows(q)'
      BY <1>3, <2>1, <2>2, <2>3 DEF Knows, IsUsed
    <2>5. ~clashed /\ q.op \in DeleteOps => q.a \in Assets
      BY <2>1, RequestFacts DEF OldOps, PlainOps, NewOps, ImportOps, DeleteOps
    <2>6. ~clashed /\ q.op \in ImportOps => q.seen # n
      <3>1. CASE req[t].op = "commit import"
        BY <3>1, <1>11 DEF LibraryInv, ThreadsOK, Conflict, ImportOps
      <3>2. CASE req[t].op = "register" /\ n = a
        BY <3>2, <1>2, <2>1, RequestFacts
      <3> QED  BY <3>1, <3>2
    <2>7. ~clashed => KnowsFile(q)'
      BY <1>3, <2>1, <2>5, <2>6 DEF KnowsFile
    <2> QED  BY <2>4, <2>7
  <1>12. Knows(Idle)' /\ KnowsFile(Idle)' /\ KnowsAll(Idle)'
    BY IdleFacts DEF Knows, KnowsFile, KnowsAll, NewOps, OldOps, ImportOps, DeleteOps, PlainOps, PromoteOps
  <1>13. ThreadsOK'
    BY <1>1, <1>11, <1>12, ThreadsMove
  <1>14. SoloOK'
    BY <1>1, <1>12, SoloMoves
  <1>15. UsedAssetsExist'
    BY <1>2, <1>3 DEF LibraryInv, UsedAssetsExist, IsUsed
  <1> QED  BY <1>5, <1>6, <1>7, <1>10, <1>13, <1>14, <1>15 DEF LibraryInv

LEMMA ImportCommitsOK ==
  ASSUME LibraryInv, NEW t \in Threads, ImportCommits(t)
  PROVE  LibraryInv'
  <1>1. req[t].seen \in Names
    BY RequestFacts DEF LibraryInv, TypeOK, ImportCommits, At, ImportOps, Names
  <1> QED  BY <1>1, RowIsAdded DEF ImportCommits, At, Ends, NewRow, links

LEMMA RegistersOK ==
  ASSUME LibraryInv, NEW t \in Threads, Registers(t)
  PROVE  LibraryInv'
  <1>1. req[t] \in Requests /\ req[t].op = "register"
    BY DEF LibraryInv, TypeOK, Registers, At
  <1>2. req[t].a \in Assets /\ req[t].a \in Names
    BY <1>1, RequestFacts DEF NewOps, Names
  <1>3. name[req[t].a] = req[t].a
    BY <1>1, <1>2 DEF LibraryInv, ThreadsOK, Knows, NamesOK, NewOps
  <1>4. name' = [name EXCEPT ![req[t].a] = req[t].a]
    BY <1>2, <1>3 DEF Registers, LibraryInv, TypeOK
  <1> QED  BY <1>1, <1>2, <1>4, RowIsAdded DEF Registers, Ends, NewRow

LEMMA CopiesOK ==
  ASSUME LibraryInv, NEW t \in Threads, NEW a \in Assets, Copies(t, a)
  PROVE  LibraryInv'
  <1> PICK r : r = [op |-> "register", a |-> a, seen |-> None]
    OBVIOUS
  <1>1. r \in Requests /\ r.op = "register" /\ r.a = a
    BY DEF Requests, PlainOps
  <1>2. /\ req' = [req EXCEPT ![t] = r] /\ req[t] = Idle /\ disk' = [disk EXCEPT ![a] = a]
        /\ overlapped' = (overlapped \/ Busy # {})
        /\ row[a] = "none" /\ \A u \in Threads : req[u].a # a
        /\ UNCHANGED <<rows, links, clashed, torn, revived>>
    BY DEF Copies, IsFree, Begin, history
  <1>3. /\ a \in Names /\ disk' \in [Names -> Assets \cup {None}] /\ disk'[a] = a
        /\ \A m \in Names : m # a => disk'[m] = disk[m]
    BY <1>2 DEF LibraryInv, TypeOK, Names
  <1>4. TypeOK'
    BY <1>1, <1>2, <1>3 DEF LibraryInv, TypeOK, rows, links
  <1>5. KeysHold' /\ NamesOK' /\ UsedAssetsExist'
    BY <1>2 DEF LibraryInv, KeysHold, NamesOK, IsUsed, Present, UsedAssetsExist, rows, links
  <1>6. \A b \in Assets : Present(b) => name[b] \in Names /\ name[b] # a
    BY <1>2 DEF LibraryInv, NamesOK, Present, TypeOK
  <1>7. FilesOK'
    <2>1. \A b \in Assets : Erasing(b) => Erasing(b)'
      BY <1>2, IdleFacts DEF Erasing, At, LibraryInv, TypeOK
    <2> QED  BY <1>2, <1>3, <1>6, <2>1 DEF LibraryInv, FilesOK, Present, rows
  <1>8. Knows(r)' /\ KnowsFile(r)'
    BY <1>1, <1>2, <1>3 DEF Knows, KnowsFile, rows, NewOps, OldOps, ImportOps, DeleteOps, PlainOps, PromoteOps
  <1>9. ASSUME NEW u \in Threads, NEW q, u # t, q = req[u]
        PROVE  Knows(q)' /\ (~clashed => KnowsFile(q)')
    <2>1. Knows(q) /\ q \in Requests /\ (~clashed => KnowsFile(q)) /\ q.a # a
      BY <1>2, <1>9 DEF LibraryInv, ThreadsOK, TypeOK
    <2>2. q.op = "register" => q.a \in Names
      BY <2>1, RequestFacts DEF NewOps, Names
    <2>3. q.op \in ImportOps => q.seen \in Names /\ q.seen # a
      BY <2>1, RequestFacts DEF Names
    <2>4. Knows(q)'
      BY <1>2, <1>3, <2>1, <2>2 DEF Knows, IsUsed, rows, links
    <2>5. ~clashed => KnowsFile(q)'
      BY <1>2, <1>3, <2>1, <2>3 DEF KnowsFile, Present, rows, ImportOps
    <2> QED  BY <2>4, <2>5
  <1>10. \A u \in Threads : req'[u] = IF u = t THEN r ELSE req[u]
    BY <1>2 DEF LibraryInv, TypeOK
  <1>11. ThreadsOK'
    <2>1. \A u \in Threads : Knows(req[u])' /\ (~clashed' => KnowsFile(req[u])')
      BY <1>2, <1>8, <1>9, <1>10
    <2>2. \A u, v \in Threads : u # v /\ req'[u].op \in NewOps /\ req'[v].op \in NewOps => req'[u].a # req'[v].a
      BY <1>1, <1>2, <1>10 DEF LibraryInv, ThreadsOK
    <2>3. \A q : ~Conflict(r, q) /\ ~Conflict(q, r)
      BY <1>1 DEF Conflict, ImportOps, DeleteOps
    <2>4. ~clashed' => \A u, v \in Threads : u # v => ~Conflict(req'[u], req'[v])
      BY <1>2, <1>10, <2>3 DEF LibraryInv, ThreadsOK
    <2> QED  BY <2>1, <2>2, <2>4 DEF ThreadsOK, Conflict
  <1>12. SoloOK'
    <2> SUFFICES ASSUME ~overlapped'  PROVE /\ \A u, v \in Busy' : u = v
                                            /\ \A u \in Threads : KnowsAll(req[u])'
      BY DEF SoloOK
    <2>1. \A u \in Threads : req[u] = Idle
      BY <1>2 DEF Busy
    <2>2. KnowsAll(Idle)' /\ KnowsAll(r)'
      BY <1>1, IdleFacts DEF KnowsAll, DeleteOps
    <2> QED  BY <1>10, <2>1, <2>2 DEF Busy
  <1> QED  BY <1>4, <1>5, <1>7, <1>11, <1>12 DEF LibraryInv

-----------------------------------------------------------------------------
(* Requests on rows there are: they commit and end.                        *)

LEMMA EndKeeps ==
  ASSUME LibraryInv, NEW t \in Threads, req[t] # Idle, req' = [req EXCEPT ![t] = Idle],
         UNCHANGED <<name, disk, overlapped, clashed>>,
         \A b \in Assets : (row'[b] = "none") = (row[b] = "none"),
         \A b \in Assets : Present(b)' => Present(b),
         \A b \in Assets : IsUsed(b, {"version", "master"}) => IsUsed(b, {"version", "master"})',
         ~clashed => \A u \in Threads, b \in Assets : u # t /\ req[u].op \in DeleteOps /\ b = req[u].a => Present(b)',
         \A b \in Assets : Present(b)' /\ b \in torn => b \in torn',
         \A b \in Assets : Present(b)' /\ req[t].op = "erase" /\ req[t].a = b => b \in torn'
  PROVE  NamesOK' /\ FilesOK' /\ ThreadsOK' /\ SoloOK'
  <1>1. NamesOK'
    BY DEF LibraryInv, NamesOK
  <1>2. \A b \in Assets : Present(b)' /\ Erasing(b) => b \in torn' \/ Erasing(b)'
    BY DEF Erasing, At, LibraryInv, TypeOK
  <1>3. FilesOK'
    <2> SUFFICES ASSUME ~clashed, NEW b \in Assets, Present(b)'
                 PROVE  /\ \A c \in Assets : Present(c)' /\ name[b] = name[c] => b = c
                        /\ disk[name[b]] = b \/ b \in torn' \/ Erasing(b)'
      BY DEF FilesOK
    <2>1. Present(b)
      OBVIOUS
    <2> QED  BY <2>1, <1>2 DEF LibraryInv, FilesOK
  <1>4. ASSUME NEW u \in Threads, NEW q, u # t, q = req[u]
        PROVE  Knows(q)' /\ (~clashed => KnowsFile(q)')
    <2>1. Knows(q) /\ q \in Requests /\ (~clashed => KnowsFile(q))
      BY <1>4 DEF LibraryInv, ThreadsOK, TypeOK
    <2>2. q.op \in NewOps \cup OldOps => q.a \in Assets
      BY <2>1, RequestFacts
    <2>3. Knows(q)'
      BY <2>1, <2>2 DEF Knows, NewOps, OldOps
    <2>4. q.op \in DeleteOps => q.a \in Assets
      BY <2>2 DEF OldOps, PlainOps, NewOps, ImportOps, DeleteOps
    <2>5. ~clashed /\ q.op \in DeleteOps => Present(q.a)'
      BY <1>4, <2>4
    <2>6. ~clashed => KnowsFile(q)'
      BY <2>1, <2>5 DEF KnowsFile
    <2> QED  BY <2>3, <2>6
  <1>5. Knows(Idle)' /\ KnowsFile(Idle)' /\ KnowsAll(Idle)'
    BY IdleFacts DEF Knows, KnowsFile, KnowsAll, NewOps, OldOps, ImportOps, DeleteOps, PlainOps, PromoteOps
  <1>6. ThreadsOK'
    BY <1>4, <1>5, IdleFacts, ThreadsMove
  <1>7. SoloOK'
    BY <1>5, IdleFacts, SoloMoves
  <1> QED  BY <1>1, <1>3, <1>6, <1>7

LEMMA ArchiveCommitsOK ==
  ASSUME LibraryInv, NEW t \in Threads, ArchiveCommits(t)
  PROVE  LibraryInv'
  <1> PICK a : a = req[t].a
    OBVIOUS
  <1>1. req[t] \in Requests /\ req[t].op = "archive" /\ req[t] # Idle
    BY IdleFacts DEF LibraryInv, TypeOK, ArchiveCommits, At
  <1>2. a \in Assets /\ row[a] # "none"
    BY <1>1, RequestFacts DEF LibraryInv, ThreadsOK, Knows, OldOps, PlainOps, NewOps, ImportOps
  <1>3. /\ req' = [req EXCEPT ![t] = Idle]
        /\ row' = IF row[a] = "gone" THEN row ELSE [row EXCEPT ![a] = "archived"]
        /\ UNCHANGED <<status, number, name, disk, active, uses, master, overlapped, clashed, torn, revived>>
    BY DEF ArchiveCommits, Ends, history, links
  <1>4. /\ \A b \in Assets : b # a => row'[b] = row[b]
        /\ row'[a] = IF row[a] = "gone" THEN "gone" ELSE "archived"
    BY <1>2, <1>3 DEF LibraryInv, TypeOK
  <1>5. \A b \in Assets : (row'[b] = "none") = (row[b] = "none") /\ Present(b)' = Present(b)
    <2>1. row[a] \in {"live", "archived", "gone"}
      BY <1>2 DEF LibraryInv, TypeOK
    <2> QED  BY <1>2, <1>4, <2>1 DEF Present
  <1>6. ~clashed => \A u \in Threads, b \in Assets : u # t /\ req[u].op \in DeleteOps /\ b = req[u].a => Present(b)'
    <2> SUFFICES ASSUME ~clashed, NEW u \in Threads, req[u].op \in DeleteOps, NEW b \in Assets, b = req[u].a
                 PROVE  Present(b)'
      OBVIOUS
    <2>1. b \in Assets /\ Present(b)
      BY RequestFacts DEF LibraryInv, TypeOK, ThreadsOK, KnowsFile, OldOps, PlainOps, NewOps, ImportOps, DeleteOps
    <2> QED  BY <2>1, <1>5
  <1>7. TypeOK'
    BY <1>2, <1>3, IdleFacts DEF LibraryInv, TypeOK
  <1>8. KeysHold'
    BY <1>3, <1>5 DEF LibraryInv, KeysHold, IsUsed
  <1>9. UsedAssetsExist'
    <2>1. ~overlapped => ~IsBlocked(a)
      BY <1>1 DEF LibraryInv, SoloOK, KnowsAll
    <2> QED  BY <1>3, <1>4, <2>1 DEF LibraryInv, UsedAssetsExist, IsUsed, IsBlocked
  <1>10. NamesOK' /\ FilesOK' /\ ThreadsOK' /\ SoloOK'
    BY <1>1, <1>3, <1>5, <1>6, EndKeeps DEF IsUsed
  <1> QED  BY <1>7, <1>8, <1>9, <1>10 DEF LibraryInv

LEMMA RestoreCommitsOK ==
  ASSUME LibraryInv, NEW t \in Threads, RestoreCommits(t)
  PROVE  LibraryInv'
  <1> PICK a : a = req[t].a
    OBVIOUS
  <1>1. req[t] \in Requests /\ req[t].op = "restore" /\ req[t] # Idle
    BY IdleFacts DEF LibraryInv, TypeOK, RestoreCommits, At
  <1>2. a \in Assets /\ row[a] # "none"
    BY <1>1, RequestFacts DEF LibraryInv, ThreadsOK, Knows, OldOps, PlainOps, NewOps, ImportOps
  <1>3. /\ req' = [req EXCEPT ![t] = Idle]
        /\ \/ UNCHANGED <<row, revived>>
           \/ row[a] # "gone" /\ row' = [row EXCEPT ![a] = "live"] /\ revived' = revived \ {a}
        /\ UNCHANGED <<status, number, name, disk, active, uses, master, overlapped, clashed, torn>>
    BY DEF RestoreCommits, Ends, links
  <1>4. \A b \in Assets : \/ row'[b] = row[b] /\ (b \in revived' <=> b \in revived)
                          \/ b = a /\ row[b] # "gone" /\ row'[b] = "live"
    BY <1>2, <1>3 DEF LibraryInv, TypeOK
  <1>5. \A b \in Assets : (row'[b] = "none") = (row[b] = "none") /\ Present(b)' = Present(b)
    <2>1. row[a] \in {"live", "archived", "gone"}
      BY <1>2 DEF LibraryInv, TypeOK
    <2> QED  BY <1>2, <1>4, <2>1 DEF Present
  <1>6. ~clashed => \A u \in Threads, b \in Assets : u # t /\ req[u].op \in DeleteOps /\ b = req[u].a => Present(b)'
    <2> SUFFICES ASSUME ~clashed, NEW u \in Threads, req[u].op \in DeleteOps, NEW b \in Assets, b = req[u].a
                 PROVE  Present(b)'
      OBVIOUS
    <2>1. b \in Assets /\ Present(b)
      BY RequestFacts DEF LibraryInv, TypeOK, ThreadsOK, KnowsFile, OldOps, PlainOps, NewOps, ImportOps, DeleteOps
    <2> QED  BY <2>1, <1>5
  <1>7. TypeOK'
    BY <1>2, <1>3, IdleFacts DEF LibraryInv, TypeOK
  <1>8. KeysHold'
    BY <1>3, <1>5 DEF LibraryInv, KeysHold, IsUsed
  <1>9. UsedAssetsExist'
    BY <1>3, <1>4 DEF LibraryInv, UsedAssetsExist, IsUsed
  <1>10. NamesOK' /\ FilesOK' /\ ThreadsOK' /\ SoloOK'
    BY <1>1, <1>3, <1>5, <1>6, EndKeeps DEF IsUsed
  <1> QED  BY <1>7, <1>8, <1>9, <1>10 DEF LibraryInv

\* Requests that end without touching rows, names or files.
LEMMA RowsStay ==
  ASSUME LibraryInv, NEW t \in Threads, req[t] # Idle, req[t].op # "erase", req' = [req EXCEPT ![t] = Idle],
         UNCHANGED <<row, name, disk, overlapped, clashed, torn>>,
         \A b \in Assets : IsUsed(b, {"version", "master"}) => IsUsed(b, {"version", "master"})'
  PROVE  NamesOK' /\ FilesOK' /\ ThreadsOK' /\ SoloOK'
  <1>1. \A b \in Assets : (row'[b] = "none") = (row[b] = "none") /\ (Present(b)' <=> Present(b))
    BY DEF Present
  <1>2. ~clashed => \A u \in Threads, b \in Assets : u # t /\ req[u].op \in DeleteOps /\ b = req[u].a => Present(b)'
    <2> SUFFICES ASSUME ~clashed, NEW u \in Threads, req[u].op \in DeleteOps, NEW b \in Assets, b = req[u].a
                 PROVE  Present(b)'
      OBVIOUS
    <2> QED  BY DEF LibraryInv, ThreadsOK, KnowsFile, Present
  <1> QED  BY <1>1, <1>2, EndKeeps

LEMMA ActivateCommitsOK ==
  ASSUME LibraryInv, NEW t \in Threads, ActivateCommits(t)
  PROVE  LibraryInv'
  <1> PICK a : a = req[t].a
    OBVIOUS
  <1>1. req[t] \in Requests /\ req[t].op = "activate" /\ req[t] # Idle
    BY IdleFacts DEF LibraryInv, TypeOK, ActivateCommits, At
  <1>2. a \in Assets
    BY <1>1, RequestFacts DEF OldOps, PlainOps, NewOps, ImportOps
  <1>3. /\ req' = [req EXCEPT ![t] = Idle] /\ active' = a
        /\ revived' = (IF row[a] = "archived" THEN revived \cup {a} ELSE revived)
        /\ UNCHANGED <<row, status, number, name, disk, uses, master, overlapped, clashed, torn>>
    BY DEF ActivateCommits, Ends, rows
  <1>4. TypeOK' /\ KeysHold'
    BY <1>2, <1>3, IdleFacts DEF LibraryInv, TypeOK, KeysHold, IsUsed, Present
  <1>5. UsedAssetsExist'
    <2>1. ~overlapped => Present(a)
      BY <1>1 DEF LibraryInv, SoloOK, KnowsAll
    <2> QED  BY <1>3, <2>1 DEF LibraryInv, UsedAssetsExist, IsUsed, Present
  <1>6. NamesOK' /\ FilesOK' /\ ThreadsOK' /\ SoloOK'
    BY <1>1, <1>3, RowsStay DEF IsUsed
  <1> QED  BY <1>4, <1>5, <1>6 DEF LibraryInv

LEMMA ScanCommitsOK ==
  ASSUME LibraryInv, NEW t \in Threads, ScanCommits(t)
  PROVE  LibraryInv'
  <1>1. req[t].op = "scan" /\ req[t] # Idle
    BY IdleFacts DEF ScanCommits, At
  <1>2. /\ req' = [req EXCEPT ![t] = Idle]
        /\ status' \in [Assets -> {"ready", "stale", "missing"}]
        /\ UNCHANGED <<row, number, name, disk, active, uses, master, overlapped, clashed, torn, revived>>
    BY DEF ScanCommits, Ends, links, history, LibraryInv, TypeOK
  <1>3. TypeOK' /\ KeysHold' /\ UsedAssetsExist'
    BY <1>2, IdleFacts DEF LibraryInv, TypeOK, KeysHold, IsUsed, Present, UsedAssetsExist
  <1>4. NamesOK' /\ FilesOK' /\ ThreadsOK' /\ SoloOK'
    BY <1>1, <1>2, RowsStay DEF IsUsed
  <1> QED  BY <1>3, <1>4 DEF LibraryInv

LEMMA UseCommitsOK ==
  ASSUME LibraryInv, NEW t \in Threads, NEW replaced \in Assets \cup {None}, UseCommits(t, replaced)
  PROVE  LibraryInv'
  <1> PICK a, kind : a = req[t].a /\ kind = req[t].seen
    OBVIOUS
  <1>1. req[t] \in Requests /\ req[t].op = "use" /\ req[t] # Idle
    BY IdleFacts DEF LibraryInv, TypeOK, UseCommits, At
  <1>2. a \in Assets /\ row[a] # "none" /\ kind \in {"clip", "version", "costume"}
    BY <1>1, RequestFacts DEF LibraryInv, ThreadsOK, Knows, OldOps
  <1>3. /\ req' = [req EXCEPT ![t] = Idle]
        /\ uses' = IF row[a] = "gone" THEN uses ELSE (uses \cup {<<kind, a>>}) \ {<<"clip", replaced>>}
        /\ UNCHANGED <<row, status, number, name, disk, active, master, overlapped, clashed, torn, revived>>
    BY DEF UseCommits, Ends, rows, history
  <1>4. \A k, b : <<k, b>> \in uses' => <<k, b>> \in uses \/ (k = kind /\ b = a /\ Present(a))
    BY <1>2, <1>3 DEF LibraryInv, TypeOK, Present
  <1>5. \A k, b : <<k, b>> \in uses /\ k # "clip" => <<k, b>> \in uses'
    BY <1>3
  <1>6. TypeOK'
    <2>1. <<kind, a>> \in Kinds \X Assets
      BY <1>2 DEF Kinds
    <2>2. uses' \in SUBSET (Kinds \X Assets)
      BY <1>3, <2>1 DEF LibraryInv, TypeOK
    <2> QED  BY <1>3, <2>2, IdleFacts DEF LibraryInv, TypeOK
  <1>7. KeysHold'
    BY <1>3, <1>4 DEF LibraryInv, KeysHold, IsUsed, Present
  <1>8. UsedAssetsExist'
    <2>1. ~overlapped => IsThere(a)
      BY <1>1 DEF LibraryInv, SoloOK, KnowsAll
    <2> QED  BY <1>3, <1>4, <2>1 DEF LibraryInv, UsedAssetsExist, IsUsed, IsThere
  <1>9. \A b \in Assets : IsUsed(b, {"version", "master"}) => IsUsed(b, {"version", "master"})'
    BY <1>5 DEF IsUsed
  <1>10. NamesOK' /\ FilesOK' /\ ThreadsOK' /\ SoloOK'
    BY <1>1, <1>3, <1>9, RowsStay
  <1> QED  BY <1>6, <1>7, <1>8, <1>10 DEF LibraryInv

-----------------------------------------------------------------------------
(* Steps beside the requests: they block no asset that was not blocked.    *)

LEMMA BesideKeeps ==
  ASSUME LibraryInv, UNCHANGED <<row, name, disk, req, active, revived, overlapped, clashed, torn>>,
         \A b : IsUsed(b, {"version", "master"}) => IsUsed(b, {"version", "master"})',
         \A b : IsBlocked(b)' => IsBlocked(b)
  PROVE  NamesOK' /\ FilesOK' /\ ThreadsOK' /\ SoloOK' /\ UsedAssetsExist'
  <1>1. NamesOK' /\ FilesOK'
    BY DEF LibraryInv, NamesOK, FilesOK, Present, Erasing, At
  <1>2. \A q : (Knows(q) => Knows(q)') /\ (KnowsFile(q) => KnowsFile(q)') /\ (KnowsAll(q) => KnowsAll(q)')
    BY DEF Knows, KnowsFile, KnowsAll, Present, IsThere
  <1>3. ThreadsOK'
    BY <1>2, ThreadsStay DEF LibraryInv, ThreadsOK
  <1>4. SoloOK'
    BY <1>2, SoloStays DEF LibraryInv, SoloOK
  <1>5. UsedAssetsExist'
    BY DEF LibraryInv, UsedAssetsExist, IsBlocked
  <1> QED  BY <1>1, <1>3, <1>4, <1>5

LEMMA MarksStaleOK ==
  ASSUME LibraryInv, NEW a \in Assets, MarksStale(a)
  PROVE  LibraryInv'
  <1>1. /\ status' = [status EXCEPT ![a] = "stale"]
        /\ UNCHANGED <<row, number, name, disk, active, uses, master, req, overlapped, clashed, torn, revived>>
    BY DEF MarksStale, links, history
  <1>2. TypeOK' /\ KeysHold'
    BY <1>1 DEF LibraryInv, TypeOK, KeysHold, IsUsed, Present
  <1>3. \A b : /\ IsUsed(b, {"version", "master"}) => IsUsed(b, {"version", "master"})'
               /\ IsBlocked(b)' => IsBlocked(b)
    BY <1>1 DEF IsUsed, IsBlocked
  <1>4. NamesOK' /\ FilesOK' /\ ThreadsOK' /\ SoloOK' /\ UsedAssetsExist'
    BY <1>1, <1>3, BesideKeeps
  <1> QED  BY <1>2, <1>4 DEF LibraryInv

LEMMA DeletesUseOK ==
  ASSUME LibraryInv, NEW a \in Assets, NEW kind \in Kinds, DeletesUse(kind, a)
  PROVE  LibraryInv'
  <1>1. /\ kind \in {"clip", "costume"} /\ <<kind, a>> \in uses
        /\ \A k, b : <<k, b>> \in uses' => <<k, b>> \in uses \/ (k = "deleted costume" /\ b = a)
        /\ \A k, b : <<k, b>> \in uses /\ k \notin {"clip", "costume"} => <<k, b>> \in uses'
        /\ uses' \subseteq uses \cup {<<"deleted costume", a>>}
        /\ UNCHANGED <<row, status, number, name, disk, active, master, req, overlapped, clashed, torn, revived>>
    BY DEF DeletesUse, rows, history
  <1>2. TypeOK'
    <2>1. <<"deleted costume", a>> \in Kinds \X Assets
      BY DEF Kinds
    <2>2. uses' \in SUBSET (Kinds \X Assets)
      BY <1>1, <2>1 DEF LibraryInv, TypeOK
    <2> QED  BY <1>1, <2>2 DEF LibraryInv, TypeOK
  <1>3. KeysHold'
    BY <1>1 DEF LibraryInv, KeysHold, IsUsed, Present
  <1>4. \A b : /\ IsUsed(b, {"version", "master"}) => IsUsed(b, {"version", "master"})'
               /\ IsBlocked(b)' => IsBlocked(b)
    BY <1>1 DEF IsUsed, IsBlocked
  <1>5. NamesOK' /\ FilesOK' /\ ThreadsOK' /\ SoloOK' /\ UsedAssetsExist'
    BY <1>1, <1>4, BesideKeeps
  <1> QED  BY <1>2, <1>3, <1>5 DEF LibraryInv

LEMMA ArrangeReadsOK ==
  ASSUME LibraryInv, NEW t \in Threads, ArrangeReads(t)
  PROVE  LibraryInv'
  <1> DEFINE clips == {u \in uses : u[1] = "clip"}
  <1>1. active \in Assets /\ Present(active)
    BY DEF ArrangeReads, LibraryInv, TypeOK, Present
  <1>2. CASE clips = {}
    <2> DEFINE r == [op |-> "use", a |-> active, seen |-> "clip"]
    <2>1. Begin(t, "use", active, "clip") /\ UNCHANGED <<rows, disk, links, history>>
      BY <1>2 DEF ArrangeReads, links
    <2>2. r \in Requests
      BY <1>1 DEF Requests
    <2>3. ~overlapped => KnowsAll(r)
      BY <1>1 DEF KnowsAll, DeleteOps, LibraryInv, UsedAssetsExist, IsThere
    <2>4. row[active] # "none"
      BY <1>1 DEF Present
    <2> QED  BY <2>1, <2>2, <2>3, <2>4, PlainRead
  <1>3. CASE clips # {}
    <2>1. /\ uses' = (uses \ clips) \cup {<<"clip", active>>}
          /\ UNCHANGED <<row, status, number, name, disk, active, master, req, overlapped, clashed, torn, revived>>
      BY <1>3 DEF ArrangeReads, rows, history
    <2>2. /\ \A k, b : <<k, b>> \in uses' => <<k, b>> \in uses \/ (k = "clip" /\ b = active)
          /\ \A k, b : <<k, b>> \in uses /\ k # "clip" => <<k, b>> \in uses'
      BY <2>1
    <2>3. TypeOK'
      <3>1. <<"clip", active>> \in Kinds \X Assets
        BY <1>1 DEF Kinds
      <3>2. uses' \in SUBSET (Kinds \X Assets)
        BY <2>1, <3>1 DEF LibraryInv, TypeOK
      <3> QED  BY <2>1, <3>2 DEF LibraryInv, TypeOK
    <2>4. KeysHold'
      BY <1>1, <2>1, <2>2 DEF LibraryInv, KeysHold, IsUsed, Present
    <2>5. \A b : /\ IsUsed(b, {"version", "master"}) => IsUsed(b, {"version", "master"})'
                 /\ IsBlocked(b)' => IsBlocked(b)
      BY <2>1, <2>2 DEF IsUsed, IsBlocked
    <2>6. NamesOK' /\ FilesOK' /\ ThreadsOK' /\ SoloOK' /\ UsedAssetsExist'
      BY <2>1, <2>5, BesideKeeps
    <2> QED  BY <2>3, <2>4, <2>6 DEF LibraryInv
  <1> QED  BY <1>2, <1>3

-----------------------------------------------------------------------------
(* The master version.                                                     *)

LEMMA PromoteLooksOK ==
  ASSUME LibraryInv, NEW t \in Threads, PromoteLooks(t)
  PROVE  LibraryInv'
  <1>1. req[t] \in Requests /\ req[t].op = "promote" /\ req[t] # Idle
    BY IdleFacts DEF LibraryInv, TypeOK, PromoteLooks, At
  <1>2. /\ \/ req' = [req EXCEPT ![t] = Idle]
           \/ \E op \in {"demote", "swap"} : req' = [req EXCEPT ![t] = [req[t] EXCEPT !.op = op]]
        /\ UNCHANGED <<rows, disk, links, overlapped, clashed, torn, revived>>
    BY DEF PromoteLooks, Ends, Goes, history
  <1>3. CASE req' = [req EXCEPT ![t] = Idle]
    <2>1. TypeOK' /\ KeysHold' /\ UsedAssetsExist'
      BY <1>2, <1>3, IdleFacts, FileStep DEF LibraryInv, TypeOK
    <2>2. NamesOK' /\ FilesOK' /\ ThreadsOK' /\ SoloOK'
      BY <1>1, <1>2, <1>3, RowsStay DEF IsUsed, rows, links
    <2> QED  BY <2>1, <2>2 DEF LibraryInv
  <1>4. ASSUME NEW op \in {"demote", "swap"}, req' = [req EXCEPT ![t] = [req[t] EXCEPT !.op = op]]
        PROVE  LibraryInv'
    <2> PICK r : r = [req[t] EXCEPT !.op = op]
      OBVIOUS
    <2>1. r \in Requests /\ r.op = op /\ r.a = req[t].a /\ req' = [req EXCEPT ![t] = r]
      BY <1>1, <1>4, NextOp DEF PromoteOps
    <2>2. TypeOK' /\ KeysHold' /\ NamesOK' /\ UsedAssetsExist'
      BY <1>2, <2>1, FileStep DEF LibraryInv, TypeOK
    <2>3. FilesOK'
      <3>1. \A b \in Assets : Erasing(b) => Erasing(b)'
        BY <1>1, <2>1 DEF Erasing, At, LibraryInv, TypeOK
      <3> QED  BY <1>2, <3>1 DEF LibraryInv, FilesOK, Present, rows
    <2>4. \A q : (Knows(q)' <=> Knows(q)) /\ (KnowsFile(q)' <=> KnowsFile(q))
      BY <1>2 DEF Knows, KnowsFile, IsUsed, Present, rows, links
    <2>5. Knows(r) /\ KnowsFile(r) /\ r.op \notin NewOps \cup ImportOps \cup DeleteOps
      <3>1. Knows(req[t])
        BY DEF LibraryInv, ThreadsOK
      <3> QED  BY <1>1, <2>1, <3>1
               DEF Knows, KnowsFile, NewOps, OldOps, ImportOps, DeleteOps, PlainOps, PromoteOps
    <2>6. ThreadsOK'
      <3>1. \A u \in Threads : \A q : u # t /\ q = req[u] => Knows(q)' /\ (~clashed => KnowsFile(q)')
        BY <2>4 DEF LibraryInv, ThreadsOK
      <3> QED  BY <1>2, <2>1, <2>4, <2>5, <3>1, ThreadsMove
    <2>7. SoloOK'
      <3>1. KnowsAll(r)'
        BY <2>1 DEF KnowsAll, DeleteOps
      <3> QED  BY <1>1, <1>2, <2>1, <3>1, SoloMoves
    <2> QED  BY <2>2, <2>3, <2>6, <2>7 DEF LibraryInv
  <1> QED  BY <1>2, <1>3, <1>4

LEMMA PromoteCommitsOK ==
  ASSUME LibraryInv, NEW t \in Threads, PromoteCommits(t)
  PROVE  LibraryInv'
  <1> PICK a : a = req[t].a
    OBVIOUS
  <1> DEFINE demoted == {<<IF u[1] = "master" THEN "version" ELSE u[1], u[2]>> : u \in uses}
  <1>1. req[t] \in Requests /\ req[t].op \in {"demote", "swap"} /\ req[t] # Idle
    BY IdleFacts DEF LibraryInv, TypeOK, PromoteCommits, At
  <1>2. a \in Assets /\ IsUsed(a, {"version", "master"})
    BY <1>1, RequestFacts DEF LibraryInv, ThreadsOK, Knows, OldOps, PromoteOps
  <1>3. Present(a)
    BY <1>2 DEF LibraryInv, KeysHold, IsUsed, Kinds
  <1>4. /\ req' = [req EXCEPT ![t] = Idle]
        /\ uses' \in {demoted, (demoted \ {<<"version", a>>}) \cup {<<"master", a>>}}
        /\ master' \in {master, a}
        /\ revived' = (IF row[a] = "archived" THEN revived \cup {a} ELSE revived)
        /\ UNCHANGED <<row, status, number, name, disk, active, overlapped, clashed, torn>>
    BY DEF PromoteCommits, Ends, rows
  <1>5. \A k, b : <<k, b>> \in demoted <=>
                    \/ k = "version" /\ (<<"version", b>> \in uses \/ <<"master", b>> \in uses)
                    \/ k \notin {"version", "master"} /\ <<k, b>> \in uses
    <2>1. uses \subseteq Kinds \X Assets
      BY DEF LibraryInv, TypeOK
    <2> QED  BY <2>1
  <1>6. demoted \in SUBSET (Kinds \X Assets)
    <2>1. \A u \in uses : <<IF u[1] = "master" THEN "version" ELSE u[1], u[2]>> \in Kinds \X Assets
      BY DEF LibraryInv, TypeOK, Kinds
    <2> QED  BY <2>1
  <1> HIDE DEF demoted
  <1>7. TypeOK'
    <2>1. <<"master", a>> \in Kinds \X Assets
      BY <1>2 DEF Kinds
    <2>2. uses' \in SUBSET (Kinds \X Assets)
      BY <1>4, <1>6, <2>1
    <2> QED  BY <1>2, <1>4, <2>2, IdleFacts DEF LibraryInv, TypeOK
  <1>8. /\ \A k, b : <<k, b>> \in uses' => b = a \/ \E j \in {k, "master", "version"} : <<j, b>> \in uses
        /\ \A b : <<"master", b>> \in uses' => b = a
        /\ \A b, k : k \in {"clip", "costume"} /\ <<k, b>> \in uses' => <<k, b>> \in uses
    BY <1>4, <1>5
  <1>9. KeysHold' /\ UsedAssetsExist'
    <2>1. KeysHold'
      <3> SUFFICES ASSUME NEW b \in Assets, NEW k \in Kinds, <<k, b>> \in uses'
                   PROVE  Present(b)'
        BY DEF KeysHold, IsUsed
      <3>1. b = a \/ \E j \in Kinds : <<j, b>> \in uses
        BY <1>8 DEF Kinds
      <3>2. Present(b)
        BY <1>3, <3>1 DEF LibraryInv, KeysHold, IsUsed
      <3> QED  BY <1>4, <3>2 DEF Present
    <2>2. UsedAssetsExist'
      <3> SUFFICES ASSUME ~overlapped, NEW b \in Assets, IsUsed(b, {"clip", "master", "costume"})' \/ active = b
                   PROVE  row[b] = "live" \/ (row[b] = "archived" /\ b \in revived')
        BY <1>4 DEF UsedAssetsExist
      <3>1. b = a \/ IsUsed(b, {"clip", "master", "costume"}) \/ active = b
        BY <1>8 DEF IsUsed
      <3> QED  BY <1>3, <1>4, <3>1 DEF Present, LibraryInv, UsedAssetsExist
    <2> QED  BY <2>1, <2>2
  <1>10. \A b \in Assets : IsUsed(b, {"version", "master"}) => IsUsed(b, {"version", "master"})'
    BY <1>4, <1>5 DEF IsUsed
  <1>11. NamesOK' /\ FilesOK' /\ ThreadsOK' /\ SoloOK'
    BY <1>1, <1>4, <1>10, RowsStay
  <1> QED  BY <1>7, <1>9, <1>11 DEF LibraryInv

-----------------------------------------------------------------------------
(* The physical delete.                                                    *)

LEMMA UnlinksOK ==
  ASSUME LibraryInv, NEW t \in Threads, Unlinks(t)
  PROVE  LibraryInv'
  <1> PICK a, r : a = req[t].a /\ r = [req[t] EXCEPT !.op = "erase"]
    OBVIOUS
  <1>1. req[t] \in Requests /\ req[t].op = "unlink" /\ req[t] # Idle
    BY IdleFacts DEF LibraryInv, TypeOK, Unlinks, At
  <1>2. a \in Assets /\ name[a] \in Names /\ row[a] # "none" /\ (~clashed => Present(a))
    BY <1>1, RequestFacts DEF LibraryInv, TypeOK, ThreadsOK, Knows, KnowsFile, OldOps, PlainOps, NewOps, ImportOps, DeleteOps
  <1>3. r \in Requests /\ r.op = "erase" /\ r.a = a
    BY <1>1, NextOp DEF DeleteOps
  <1>4. /\ req' = [req EXCEPT ![t] = r] /\ disk' = [disk EXCEPT ![name[a]] = None]
        /\ UNCHANGED <<rows, links, overlapped, clashed, torn, revived>>
    BY DEF Unlinks, Goes, history
  <1>5. /\ disk' \in [Names -> Assets \cup {None}]
        /\ \A n \in Names : n # name[a] => disk'[n] = disk[n]
    BY <1>2, <1>4 DEF LibraryInv, TypeOK
  <1>6. TypeOK' /\ KeysHold' /\ NamesOK' /\ UsedAssetsExist'
    BY <1>3, <1>4, <1>5, FileStep
  <1>7. /\ Erasing(a)'
        /\ \A b \in Assets : Erasing(b) => Erasing(b)'
    BY <1>1, <1>3, <1>4 DEF Erasing, At, LibraryInv, TypeOK
  <1>8. FilesOK'
    <2> SUFFICES ASSUME ~clashed, NEW b \in Assets, Present(b)
                 PROVE  /\ \A c \in Assets : Present(c) /\ name[b] = name[c] => b = c
                        /\ disk'[name[b]] = b \/ b \in torn \/ Erasing(b)'
      BY <1>4 DEF FilesOK, Present, rows
    <2>1. /\ \A c \in Assets : Present(c) /\ name[b] = name[c] => b = c
          /\ disk[name[b]] = b \/ b \in torn \/ Erasing(b)
      BY DEF LibraryInv, FilesOK
    <2>2. CASE b = a
      BY <2>1, <2>2, <1>7
    <2>3. CASE b # a
      <3>1. name[b] # name[a] /\ name[b] \in Names
        BY <2>1, <2>3, <1>2 DEF LibraryInv, TypeOK
      <3> QED  BY <2>1, <3>1, <1>5, <1>7
    <2> QED  BY <2>2, <2>3
  <1>9. Knows(r)' /\ (~clashed => KnowsFile(r)')
    BY <1>2, <1>3, <1>4
       DEF Knows, KnowsFile, Present, rows, NewOps, OldOps, ImportOps, DeleteOps, PlainOps, PromoteOps
  <1>10. ASSUME NEW u \in Threads, NEW q, u # t, q = req[u]
         PROVE  Knows(q)' /\ (~clashed => KnowsFile(q)')
    <2>1. Knows(q) /\ q \in Requests /\ (~clashed => KnowsFile(q))
      BY <1>10 DEF LibraryInv, ThreadsOK, TypeOK
    <2>2. q.op = "register" => q.a \in Names /\ q.a # name[a]
      <3> SUFFICES ASSUME q.op = "register"  PROVE q.a \in Names /\ q.a # name[a]
        OBVIOUS
      <3>1. q.a \in Assets /\ row[q.a] = "none"
        BY <2>1, RequestFacts DEF NewOps, Knows
      <3>2. q.a # a /\ (name[a] = a \/ name[a] \in Nat)
        BY <1>2, <3>1, NumbersAreNotAssets DEF LibraryInv, NamesOK
      <3> QED  BY <3>1, <3>2 DEF Names
    <2>3. Knows(q)'
      BY <1>4, <1>5, <2>1, <2>2 DEF Knows, IsUsed, rows, links
    <2>4. ~clashed /\ q.op \in ImportOps => q.seen \in Names /\ q.seen # name[a]
      BY <1>2, <2>1, RequestFacts DEF KnowsFile, Names
    <2>5. ~clashed => KnowsFile(q)'
      BY <1>4, <1>5, <2>1, <2>4 DEF KnowsFile, Present, rows, ImportOps
    <2> QED  BY <2>3, <2>5
  <1>11. ThreadsOK'
    <2>1. /\ r.a = req[t].a /\ r.op \notin NewOps \cup ImportOps /\ req[t].op \in DeleteOps
          /\ clashed' = clashed
      BY <1>1, <1>3, <1>4 DEF NewOps, ImportOps, DeleteOps
    <2> QED  BY <1>3, <1>4, <1>9, <1>10, <2>1, ThreadsMove
  <1>12. SoloOK'
    <2>1. ~overlapped => ~IsBlocked(a)
      BY <1>1 DEF LibraryInv, SoloOK, KnowsAll, DeleteOps
    <2>2. IsBlocked(a)' = IsBlocked(a)
      BY <1>4 DEF IsBlocked, IsUsed, links
    <2>3. ~overlapped => KnowsAll(r)'
      BY <1>3, <2>1, <2>2 DEF KnowsAll, DeleteOps
    <2>4. overlapped' = overlapped
      BY <1>4
    <2> QED  BY <1>1, <1>3, <1>4, <2>3, <2>4, SoloMoves
  <1> QED  BY <1>6, <1>8, <1>11, <1>12 DEF LibraryInv

LEMMA ErasesOK ==
  ASSUME LibraryInv, NEW t \in Threads, Erases(t)
  PROVE  LibraryInv'
  <1> PICK a : a = req[t].a
    OBVIOUS
  <1>1. req[t] \in Requests /\ req[t].op = "erase" /\ req[t] # Idle
    BY IdleFacts DEF LibraryInv, TypeOK, Erases, At
  <1>2. a \in Assets /\ row[a] # "none"
    BY <1>1, RequestFacts DEF LibraryInv, ThreadsOK, Knows, OldOps, PlainOps, NewOps, ImportOps, DeleteOps
  <1>3. /\ req' = [req EXCEPT ![t] = Idle]
        /\ \/ torn' = torn \cup {a} /\ UNCHANGED row
           \/ ~IsUsed(a, Kinds) /\ row' = [row EXCEPT ![a] = "gone"] /\ UNCHANGED torn
        /\ UNCHANGED <<status, number, name, disk, active, uses, master, overlapped, clashed, revived>>
    BY DEF Erases, Ends, links
  <1>4. /\ \A b \in Assets : b # a => row'[b] = row[b]
        /\ \/ row'[a] = row[a] /\ a \in torn'
           \/ row'[a] = "gone" /\ ~IsUsed(a, Kinds)
        /\ torn \subseteq torn'
    BY <1>2, <1>3 DEF LibraryInv, TypeOK
  <1>5. /\ \A b \in Assets : (row'[b] = "none") = (row[b] = "none")
        /\ \A b \in Assets : Present(b)' => Present(b) /\ (b = a => b \in torn')
        /\ \A b \in Assets : Present(b) /\ b # a => Present(b)'
    BY <1>2, <1>4 DEF Present
  <1>6. ~clashed => \A u \in Threads, b \in Assets : u # t /\ req[u].op \in DeleteOps /\ b = req[u].a => Present(b)'
    <2> SUFFICES ASSUME ~clashed, NEW u \in Threads, u # t, req[u].op \in DeleteOps, NEW b \in Assets, b = req[u].a
                 PROVE  Present(b)'
      OBVIOUS
    <2>1. Present(b)
      BY DEF LibraryInv, ThreadsOK, KnowsFile
    <2>2. b # a
      BY <1>1 DEF LibraryInv, ThreadsOK, Conflict, DeleteOps
    <2> QED  BY <2>1, <2>2, <1>5
  <1>7. TypeOK'
    BY <1>2, <1>3, IdleFacts DEF LibraryInv, TypeOK
  <1>8. KeysHold'
    BY <1>3, <1>4 DEF LibraryInv, KeysHold, IsUsed, Present
  <1>9. UsedAssetsExist'
    <2>1. ~overlapped => ~IsBlocked(a)
      BY <1>1 DEF LibraryInv, SoloOK, KnowsAll, DeleteOps
    <2> QED  BY <1>3, <1>4, <2>1 DEF LibraryInv, UsedAssetsExist, IsUsed, IsBlocked
  <1>10. NamesOK' /\ FilesOK' /\ ThreadsOK' /\ SoloOK'
    <2>1. \A b \in Assets : IsUsed(b, {"version", "master"}) => IsUsed(b, {"version", "master"})'
      BY <1>3 DEF IsUsed
    <2>2. \A b \in Assets : Present(b)' /\ b \in torn => b \in torn'
      BY <1>4
    <2>3. \A b \in Assets : Present(b)' /\ req[t].op = "erase" /\ req[t].a = b => b \in torn'
      BY <1>5
    <2> QED  BY <1>1, <1>3, <1>5, <1>6, <2>1, <2>2, <2>3, EndKeeps
  <1> QED  BY <1>7, <1>8, <1>9, <1>10 DEF LibraryInv

-----------------------------------------------------------------------------
(* The process dies; what has unlinked files stays as a delete that failed.*)

LEMMA CrashOK ==
  ASSUME LibraryInv, Crash
  PROVE  LibraryInv'
  <1>1. /\ req' = [t \in Threads |-> Idle] /\ \A t \in Threads : req'[t] = Idle
        /\ torn' = torn \cup {req[t].a : t \in {u \in Threads : At(u, "erase")}}
        /\ UNCHANGED <<row, status, number, name, disk, active, uses, master, overlapped, clashed, revived>>
    BY DEF Crash, rows, links
  <1>2. \A t \in Threads : At(t, "erase") => req[t].a \in Assets
    BY RequestFacts DEF At, LibraryInv, TypeOK, OldOps, PlainOps, NewOps, ImportOps, DeleteOps
  <1>3. TypeOK'
    BY <1>1, <1>2, IdleFacts DEF LibraryInv, TypeOK
  <1>4. KeysHold' /\ NamesOK' /\ UsedAssetsExist'
    BY <1>1 DEF LibraryInv, KeysHold, NamesOK, UsedAssetsExist, IsUsed, Present
  <1>5. FilesOK'
    <2>1. \A b \in Assets : b \in torn \/ Erasing(b) => b \in torn'
      BY <1>1 DEF Erasing
    <2> QED  BY <1>1, <2>1 DEF LibraryInv, FilesOK, Present
  <1>6. Knows(Idle)' /\ KnowsFile(Idle)' /\ KnowsAll(Idle)'
    BY IdleFacts DEF Knows, KnowsFile, KnowsAll, NewOps, OldOps, ImportOps, DeleteOps, PlainOps, PromoteOps
  <1>7. ThreadsOK'
    <2>1. Idle.op \notin NewOps
      BY IdleFacts DEF NewOps, ImportOps
    <2> QED  BY <1>1, <1>6, <2>1, IdleKnows DEF ThreadsOK, Conflict
  <1>8. SoloOK'
    BY <1>1, <1>6 DEF SoloOK, Busy
  <1> QED  BY <1>3, <1>4, <1>5, <1>7, <1>8 DEF LibraryInv

-----------------------------------------------------------------------------
(* The theorems.                                                           *)

LEMMA StepOK == LibraryInv /\ [LibraryNext]_libraryVars => LibraryInv'
  <1> SUFFICES ASSUME LibraryInv, [LibraryNext]_libraryVars  PROVE LibraryInv'
    OBVIOUS
  <1>1. ASSUME NEW t \in Threads, NEW a \in Assets,
               \/ ImportReads(t, a) \/ Copies(t, a)
               \/ ArchiveReads(t, a) \/ RestoreReads(t, a) \/ DeleteReads(t, a)
               \/ ActivateReads(t, a) \/ PromoteReads(t, a)
               \/ \E kind \in Kinds : UseReads(t, kind, a)
        PROVE  LibraryInv'
    BY <1>1, ImportReadsOK, CopiesOK, ArchiveReadsOK, RestoreReadsOK, DeleteReadsOK, ActivateReadsOK, PromoteReadsOK, UseReadsOK
  <1>2. ASSUME NEW t \in Threads,
               \/ ImportCopies(t) \/ ImportProbes(t) \/ ImportCommits(t)
               \/ Registers(t) \/ Compensates(t)
        PROVE  LibraryInv'
    BY <1>2, ImportCopiesOK, ImportProbesOK, ImportCommitsOK, RegistersOK, CompensatesOK
  <1>3. ASSUME NEW t \in Threads,
               \/ ArchiveCommits(t) \/ RestoreCommits(t) \/ Unlinks(t) \/ Erases(t)
               \/ ActivateCommits(t) \/ ScanReads(t) \/ ScanCommits(t)
        PROVE  LibraryInv'
    BY <1>3, ArchiveCommitsOK, RestoreCommitsOK, UnlinksOK, ErasesOK, ActivateCommitsOK, ScanReadsOK, ScanCommitsOK
  <1>4. ASSUME NEW t \in Threads,
               \/ ArrangeReads(t) \/ PromoteLooks(t) \/ PromoteCommits(t)
               \/ \E replaced \in Assets \cup {None} : UseCommits(t, replaced)
        PROVE  LibraryInv'
    BY <1>4, ArrangeReadsOK, PromoteLooksOK, PromoteCommitsOK, UseCommitsOK
  <1>5. ASSUME NEW a \in Assets, MarksStale(a) \/ \E kind \in Kinds : DeletesUse(kind, a)
        PROVE  LibraryInv'
    BY <1>5, MarksStaleOK, DeletesUseOK
  <1> QED  BY <1>1, <1>2, <1>3, <1>4, <1>5, CrashOK, StutterOK DEF LibraryNext

(* Rows, files, keys and requests of the library agree in every reachable  *)
(* state.                                                                  *)
THEOREM LibraryInvariant == LibrarySpec => []LibraryInv
  BY InitOK, StepOK, PTL DEF LibrarySpec

(* Every variable keeps its type.                                          *)
THEOREM LibraryTypeCorrect == LibrarySpec => []TypeOK
  <1>1. LibraryInv => TypeOK
    BY DEF LibraryInv
  <1> QED  BY <1>1, LibraryInvariant, PTL

(* Imports, failed generations, deletes, restores and crashes leave every  *)
(* live asset its own bytes, but for the exceptions the property names.    *)
THEOREM LiveAssetsHaveFiles == LibrarySpec => []FilesOfLiveAssets
  <1>1. LibraryInv => FilesOfLiveAssets
    BY DEF LibraryInv, FilesOK, FilesOfLiveAssets, Present, Erasing
  <1> QED  BY <1>1, LibraryInvariant, PTL

(* One request at a time: what is used is there, and is archived only if   *)
(* it was activated when it was archived.                                  *)
THEOREM UsedAssetsAreThere == LibrarySpec => []UsedAssetsExist
  <1>1. LibraryInv => UsedAssetsExist
    BY DEF LibraryInv
  <1> QED  BY <1>1, LibraryInvariant, PTL

(* However requests meet, what a clip, a version or a costume names was    *)
(* not physically deleted.                                                 *)
THEOREM ForeignKeysHold == LibrarySpec => []KeysHold
  <1>1. LibraryInv => KeysHold
    BY DEF LibraryInv
  <1> QED  BY <1>1, LibraryInvariant, PTL

==============================================================================
