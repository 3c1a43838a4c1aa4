----------------------------- MODULE MediaLibrary -----------------------------
(***************************************************************************)
(* The media library of a project (services/asset_service.py and its       *)
(* users): rows of the assets table and the files they stand for.  Assets  *)
(* come from imports and from generations (which give them a version       *)
(* number in the group of the shot and make them active), are archived,    *)
(* restored and physically deleted, and are used by the active pointer of  *)
(* the shot, by timeline clips, by character and location versions and by  *)
(* costumes.  A request runs in a thread: it reads, touches files, and     *)
(* commits, each in a step of its own.                                     *)
(***************************************************************************)
EXTENDS Integers, FiniteSets, FiniteSetsExt

CONSTANTS Assets,     \* identities of rows
          None,
          Threads,    \* request threads, and the worker
          MaxSeq, MaxOps, MaxCrashes  \* bounds

ASSUME LibraryAssumption ==
  /\ None \notin Assets /\ Assets \cap Nat = {}
  /\ MaxSeq \in Nat /\ MaxOps \in Nat /\ MaxCrashes \in Nat

VARIABLES row,        \* row[a]: "none", "live", "archived" (deleted_at) or "gone"
          status,     \* ready, stale or missing
          number,     \* version number in the group of the shot; 0: none
          name,       \* file name: a number for an import, else the asset itself
          disk,       \* disk[n]: the asset whose bytes are in the file n
          active,     \* the active pointer of the shot
          uses,       \* rows of other tables that name an asset: <<kind, asset>>
          master,     \* the asset of the master version of the character
          req,        \* what each thread is doing
          ops, crashes, \* counters of bounded events
          overlapped, \* history: two requests have met
          clashed,    \* history: two imports, or two deletes of an asset, have met
          torn,       \* history: a delete of the asset ended after its unlink
          revived     \* history: archived assets that were activated

rows == <<row, status, number, name>>
links == <<active, uses, master>>
history == <<clashed, torn, revived>>
libraryVars == <<rows, disk, links, req, ops, crashes, overlapped, history>>

(* A version is "master" while its status is active; a soft-deleted        *)
(* costume keeps its foreign key.                                          *)
Kinds == {"clip", "version", "master", "costume", "deleted costume"}
Names == Assets \cup 1..MaxSeq
Idle == [op |-> "idle", a |-> None, seen |-> None]

IsUsed(a, kinds) == \E k \in kinds : <<k, a>> \in uses

LibraryInit ==
  /\ row = [a \in Assets |-> "none"] /\ status = [a \in Assets |-> "ready"]
  /\ number = [a \in Assets |-> 0] /\ name = [a \in Assets |-> a]
  /\ disk = [n \in Names |-> None]
  /\ active = None /\ uses = {} /\ master = None
  /\ req = [t \in Threads |-> Idle]
  /\ ops = 0 /\ crashes = 0
  /\ overlapped = FALSE /\ clashed = FALSE /\ torn = {} /\ revived = {}

Busy == {t \in Threads : req[t] # Idle}
Importing == {t \in Threads : req[t].op \in {"copy import", "probe import", "commit import"}}

Begin(t, op, a, seen) ==
  /\ req[t] = Idle /\ ops < MaxOps
  /\ ops' = ops + 1
  /\ req' = [req EXCEPT ![t] = [op |-> op, a |-> a, seen |-> seen]]
  /\ overlapped' = (overlapped \/ Busy # {})
  /\ UNCHANGED crashes

At(t, op) == req[t].op = op
Goes(t, op) == req' = [req EXCEPT ![t].op = op] /\ UNCHANGED <<ops, crashes, overlapped>>
Ends(t) == req' = [req EXCEPT ![t] = Idle] /\ UNCHANGED <<ops, crashes, overlapped>>

(* The row of a new asset, in the transaction of the caller.               *)
NewRow(a) == row' = [row EXCEPT ![a] = "live"]

IsFree(a) == row[a] = "none" /\ \A t \in Threads : req[t].a # a

-----------------------------------------------------------------------------
(* Imports.  The sequence number is one more than that of any row there is,*)
(* archived ones too; a file of that name refuses the import.              *)

NextSeq == 1 + Max({0} \cup {name[a] : a \in {b \in Assets : row[b] \in {"live", "archived"} /\ name[b] # b}})

ImportReads(t, a) ==
  /\ IsFree(a) /\ NextSeq <= MaxSeq
  /\ disk[NextSeq] = None
  /\ Begin(t, "copy import", a, NextSeq)
  /\ clashed' = (clashed \/ Importing # {})
  /\ UNCHANGED <<rows, disk, links, torn, revived>>

ImportCopies(t) ==
  /\ At(t, "copy import")
  /\ disk' = [disk EXCEPT ![req[t].seen] = req[t].a]
  /\ Goes(t, "probe import")
  /\ UNCHANGED <<rows, links, history>>

(* What is not of the type it claims is removed again.                     *)
ImportProbes(t) ==
  /\ At(t, "probe import")
  /\ \/ Goes(t, "commit import") /\ UNCHANGED disk
     \/ Ends(t) /\ disk' = [disk EXCEPT ![req[t].seen] = None]
  /\ UNCHANGED <<rows, links, history>>

ImportCommits(t) ==
  LET a == req[t].a IN
  /\ At(t, "commit import")
  /\ NewRow(a)
  /\ name' = [name EXCEPT ![a] = req[t].seen]
  /\ Ends(t)
  /\ UNCHANGED <<status, number, disk, links, history>>

-----------------------------------------------------------------------------
(* Generations: the file is copied, then one transaction writes row,       *)
(* version number and active pointer; if it fails, the file is removed.    *)

Occupies(a, n) == row[a] = "live" /\ number[a] = n
NextNumber == 1 + Max({0} \cup {number[a] : a \in {b \in Assets : row[b] = "live"}})

CopiesMutant(t, a) ==  \* mutant: the copy is left to the registration
  /\ IsFree(a)
  /\ Begin(t, "register", a, None)
  /\ UNCHANGED <<rows, disk, links, history>>

Copies(t, a) ==
  /\ IsFree(a)
  /\ Begin(t, "register", a, None)
  /\ disk' = [disk EXCEPT ![a] = a]
  /\ UNCHANGED <<rows, links, history>>

Registers(t) ==
  LET a == req[t].a IN
  /\ At(t, "register")
  /\ NewRow(a)
  /\ number' = [number EXCEPT ![a] = NextNumber]
  /\ active' = a
  /\ Ends(t)
  /\ UNCHANGED <<status, name, disk, uses, master, history>>

Compensates(t) ==
  /\ At(t, "register")
  /\ disk' = [disk EXCEPT ![req[t].a] = None]
  /\ Ends(t)
  /\ UNCHANGED <<rows, links, history>>

-----------------------------------------------------------------------------
(* Archive, restore, delete.  The guards are read before anything is       *)
(* locked.  asset_references skips rows that are soft-deleted, and asks    *)
(* for the history of versions only before a physical delete.              *)

IsBlockedMutant(a) == active = a  \* mutant: only the pointer is looked at
IsBlocked(a) == active = a \/ IsUsed(a, {"clip", "master", "costume"})

HasHistory(a) == IsUsed(a, {"version"})

ArchiveReads(t, a) ==
  /\ row[a] = "live" /\ ~IsBlocked(a)
  /\ Begin(t, "archive", a, None)
  /\ UNCHANGED <<rows, disk, links, history>>

ArchiveCommits(t) ==
  LET a == req[t].a IN
  /\ At(t, "archive")
  /\ row' = IF row[a] = "gone" THEN row ELSE [row EXCEPT ![a] = "archived"]
  /\ Ends(t)
  /\ UNCHANGED <<status, number, name, disk, links, history>>

IsSlotFree(a) == number[a] = 0 \/ ~ \E b \in Assets \ {a} : Occupies(b, number[a])

RestoreReads(t, a) ==
  /\ row[a] = "archived" /\ IsSlotFree(a)
  /\ Begin(t, "restore", a, None)
  /\ UNCHANGED <<rows, disk, links, history>>

(* The index on group and number refuses a restore that comes too late.    *)
RestoreCommits(t) ==
  LET a == req[t].a IN
  /\ At(t, "restore")
  /\ IF row[a] = "gone" \/ ~IsSlotFree(a)
     THEN UNCHANGED <<row, revived>>
     ELSE row' = [row EXCEPT ![a] = "live"] /\ revived' = revived \ {a}
  /\ Ends(t)
  /\ UNCHANGED <<status, number, name, disk, links, clashed, torn>>

DeleteReads(t, a) ==
  /\ row[a] = "archived" /\ ~IsBlocked(a) /\ ~HasHistory(a)
  /\ Begin(t, "unlink", a, None)
  /\ clashed' = (clashed \/ \E u \in Threads : req[u].a = a /\ req[u].op \in {"unlink", "erase"})
  /\ UNCHANGED <<rows, disk, links, torn, revived>>

Unlinks(t) ==
  /\ At(t, "unlink")
  /\ disk' = [disk EXCEPT ![name[req[t].a]] = None]
  /\ Goes(t, "erase")
  /\ UNCHANGED <<rows, links, history>>

(* Any row that names the asset, soft-deleted or new, refuses the DELETE:  *)
(* the request ends with an error and its files are gone.                  *)
Erases(t) ==
  LET a == req[t].a IN
  /\ At(t, "erase")
  /\ IF IsUsed(a, Kinds)
     THEN torn' = torn \cup {a} /\ UNCHANGED row
     ELSE row' = [row EXCEPT ![a] = "gone"] /\ UNCHANGED torn
  /\ Ends(t)
  /\ UNCHANGED <<status, number, name, disk, links, clashed, revived>>

-----------------------------------------------------------------------------
(* set_active_asset does not ask whether the asset is archived, and the    *)
(* pointer is no foreign key.                                              *)
ActivateReads(t, a) ==
  /\ row[a] \in {"live", "archived"} /\ number[a] > 0
  /\ Begin(t, "activate", a, None)
  /\ UNCHANGED <<rows, disk, links, history>>

ActivateCommits(t) ==
  LET a == req[t].a IN
  /\ At(t, "activate")
  /\ active' = a
  /\ revived' = IF row[a] = "archived" THEN revived \cup {a} ELSE revived
  /\ Ends(t)
  /\ UNCHANGED <<rows, disk, uses, master, clashed, torn>>

(* mark_assets_stale: one UPDATE.                                          *)
MarksStale(a) ==
  /\ row[a] = "live" /\ status[a] # "stale"
  /\ status' = [status EXCEPT ![a] = "stale"]
  /\ UNCHANGED <<row, number, name, disk, links, req, ops, crashes, overlapped, history>>

(* check_missing_assets: the rows first, then their files.  A row that is  *)
(* gone fails the whole commit.                                            *)
ScanReads(t) ==
  /\ \E a \in Assets : row[a] = "live" /\ status[a] = "ready"
  /\ Begin(t, "scan", None, {a \in Assets : row[a] = "live" /\ status[a] = "ready"})
  /\ UNCHANGED <<rows, disk, links, history>>

ScanCommits(t) ==
  LET missing == {a \in req[t].seen : disk[name[a]] = None} IN
  /\ At(t, "scan")
  /\ status' = IF \E a \in missing : row[a] = "gone" THEN status
               ELSE [a \in Assets |-> IF a \in missing THEN "missing" ELSE status[a]]
  /\ Ends(t)
  /\ UNCHANGED <<row, number, name, disk, links, history>>

-----------------------------------------------------------------------------
(* The rows that use assets.                                               *)

(* add_clip, replace_clip_asset, create_version, a costume: the asset is   *)
(* looked up live, the foreign key only asks that it exists.               *)
UseReads(t, kind, a) ==
  /\ kind \in {"clip", "version", "costume"} /\ row[a] = "live"
  /\ ~IsUsed(a, IF kind = "version" THEN {"version", "master"} ELSE {kind})
  /\ Begin(t, "use", a, kind)
  /\ UNCHANGED <<rows, disk, links, history>>

(* A replaced clip lets its old asset go.                                  *)
UseCommits(t, replaced) ==
  LET a == req[t].a IN
  /\ At(t, "use")
  /\ replaced # None => req[t].seen = "clip" /\ <<"clip", replaced>> \in uses /\ replaced # a
  /\ uses' = IF row[a] = "gone" THEN uses ELSE (uses \cup {<<req[t].seen, a>>}) \ {<<"clip", replaced>>}
  /\ Ends(t)
  /\ UNCHANGED <<rows, disk, active, master, history>>

DeletesUse(kind, a) ==
  /\ kind \in {"clip", "costume"} /\ <<kind, a>> \in uses
  /\ uses' = (uses \ {<<kind, a>>}) \cup
             (IF kind = "costume" THEN {<<"deleted costume", a>>} ELSE {})
  /\ UNCHANGED <<rows, disk, active, master, req, ops, crashes, overlapped, history>>

(* sequence_from_shots: the old clips go, the active asset gets one if its *)
(* row exists.  Only a deletion takes the write lock before the reads.     *)
ArrangeReads(t) ==
  LET clips == {u \in uses : u[1] = "clip"} IN
  /\ active # None /\ row[active] \in {"live", "archived"}
  /\ IF clips # {}
     THEN /\ uses' = (uses \ clips) \cup {<<"clip", active>>}
          /\ UNCHANGED <<req, ops, crashes, overlapped>>
     ELSE Begin(t, "use", active, "clip") /\ UNCHANGED uses
  /\ UNCHANGED <<rows, disk, active, master, history>>

(* activate_version: the pointer of the character, then the version; the   *)
(* UPDATE that demotes every active version does not touch the version the *)
(* session holds, which is written only where it changes.                  *)
PromoteReads(t, a) ==
  /\ IsUsed(a, {"version", "master"})
  /\ Begin(t, "promote", a, master)
  /\ UNCHANGED <<rows, disk, links, history>>

PromoteLooks(t) ==
  LET a == req[t].a IN
  /\ At(t, "promote")
  /\ IF req[t].seen = a /\ <<"master", a>> \in uses
     THEN Ends(t)
     ELSE Goes(t, IF <<"master", a>> \in uses THEN "demote" ELSE "swap")
  /\ UNCHANGED <<rows, disk, links, history>>

PromoteCommits(t) ==
  LET a == req[t].a
      demoted == {<<IF u[1] = "master" THEN "version" ELSE u[1], u[2]>> : u \in uses}
  IN
  /\ At(t, "demote") \/ At(t, "swap")
  /\ uses' = IF At(t, "swap") THEN (demoted \ {<<"version", a>>}) \cup {<<"master", a>>} ELSE demoted
  /\ master' = IF req[t].seen = a THEN master ELSE a
  /\ revived' = IF row[a] = "archived" THEN revived \cup {a} ELSE revived
  /\ Ends(t)
  /\ UNCHANGED <<rows, disk, active, clashed, torn>>

-----------------------------------------------------------------------------
(* The process dies: no thread compensates.                                *)
Crash ==
  /\ crashes < MaxCrashes /\ Busy # {}
  /\ crashes' = crashes + 1
  /\ torn' = torn \cup {req[t].a : t \in {u \in Threads : At(u, "erase")}}
  /\ req' = [t \in Threads |-> Idle]
  /\ UNCHANGED <<rows, disk, links, ops, overlapped, clashed, revived>>

LibraryNext ==
  \/ \E t \in Threads, a \in Assets :
       \/ ImportReads(t, a) \/ Copies(t, a)
       \/ ArchiveReads(t, a) \/ RestoreReads(t, a) \/ DeleteReads(t, a)
       \/ ActivateReads(t, a) \/ PromoteReads(t, a)
       \/ \E kind \in Kinds : UseReads(t, kind, a)
  \/ \E t \in Threads :
       \/ ImportCopies(t) \/ ImportProbes(t) \/ ImportCommits(t)
       \/ Registers(t) \/ Compensates(t)
       \/ ArchiveCommits(t) \/ RestoreCommits(t) \/ Unlinks(t) \/ Erases(t)
       \/ ActivateCommits(t) \/ ScanReads(t) \/ ScanCommits(t)
       \/ ArrangeReads(t) \/ PromoteLooks(t) \/ PromoteCommits(t)
       \/ \E replaced \in Assets \cup {None} : UseCommits(t, replaced)
  \/ \E a \in Assets : MarksStale(a) \/ \E kind \in Kinds : DeletesUse(kind, a)
  \/ Crash

LibrarySpec == LibraryInit /\ [][LibraryNext]_libraryVars

-----------------------------------------------------------------------------
(* A live asset has its own bytes in its file, whatever imports, failed    *)
(* generations, deletes, restores and crashes have met, with known         *)
(* exceptions: two imports at once may have taken the same number, two     *)
(* deletes of one import at once may have unlinked the file of the next    *)
(* one, which takes its number again, and a delete whose DELETE was        *)
(* refused has already unlinked the file.                                  *)
FilesOfLiveAssets ==
  \A a \in Assets : row[a] = "live" =>
    \/ disk[name[a]] = a
    \/ clashed \/ a \in torn
    \/ \E t \in Threads : At(t, "erase") /\ req[t].a = a

(* As long as requests do not overlap, what the pointer, a clip, a master  *)
(* version or a costume uses exists, and is archived only if it was        *)
(* activated when it was archived already.                                 *)
UsedAssetsExist ==
  ~overlapped => \A a \in Assets : IsUsed(a, {"clip", "master", "costume"}) \/ active = a =>
    row[a] = "live" \/ (row[a] = "archived" /\ a \in revived)
=============================================================================
