----------------------------- MODULE Compaction -----------------------------
(***************************************************************************)
(* Store.Compact (store/compact.go), the shredder's action: it deletes     *)
(* what other schema versions left under /hm, then the empty directories   *)
(* of the current one.  Other processes save and remove keys meanwhile.    *)
(*                                                                         *)
(* A node of the store is the path that leads to it from /hm, a sequence   *)
(* of names.  etcd makes the directories a key needs, keeps them when the  *)
(* key goes, and deletes a directory with all it holds by then.            *)
(***************************************************************************)
EXTENDS Failures, SequencesExt

CONSTANTS
  Shredders,      \* the processes that may run the action
  Keys,           \* the paths of the keys that may be stored
  VersionOf,      \* the version of the first names that are v<number>
  Locks,          \* the first names that begin with "locks"
  SchemaVersion,  \* StoreSchemaVersion of the configuration
  Current,        \* the name of that version
  MaxSaves        \* bound: keys saved by the other processes

ASSUME CompactionAssumption ==
  /\ \A key \in Keys : key \in Seq(STRING) /\ Len(key) > 1
  /\ VersionOf[Current] = SchemaVersion
  /\ Locks \cap DOMAIN VersionOf = {}
  /\ MaxSaves \in Nat

VARIABLES
  nodes,          \* the store
  step,           \* how far each shredder's Compact is
  toDelete,       \* what it has decided to delete and not tried yet
  failed,         \* whether a deletion of its first part has failed
  seen,           \* history: the keys of the listing it works from
  saves           \* how many keys have been saved

compactVars == <<nodes, step, toDelete, failed, seen, saves>>

Ancestors(path) == {SubSeq(path, 1, n) : n \in 1..Len(path) - 1}
Directories == UNION {Ancestors(key) : key \in Keys}
Root == <<Current>>

(* What etcd removes with a node: the node and all below it.               *)
Tree(path, listing) == {n \in listing : IsPrefix(path, n)}

CompactTypeOK ==
  /\ nodes \in SUBSET (Keys \cup Directories)
  /\ step \in [Shredders -> {"none", "list", "versions", "listRoot",
                             "empty", "done"}]
  /\ toDelete \in [Shredders -> SUBSET Directories]
  /\ failed \in [Shredders -> BOOLEAN]
  /\ seen \in [Shredders -> SUBSET Keys]
  /\ saves \in 0..MaxSaves

CompactInit ==
  /\ nodes = Keys \cup Directories
  /\ step = [p \in Shredders |-> "none"]
  /\ toDelete = [p \in Shredders |-> {}]
  /\ failed = [p \in Shredders |-> FALSE]
  /\ seen = [p \in Shredders |-> {}]
  /\ saves = 0

---------------------------------------------------------------------------
(* The other processes, which write under the schema root alone.           *)

SavesKey(key) ==
  /\ saves < MaxSaves
  /\ Head(key) = Current
  /\ key \notin nodes
  /\ nodes' = nodes \cup {key} \cup Ancestors(key)
  /\ saves' = saves + 1
  /\ NoFault
  /\ UNCHANGED <<step, toDelete, failed, seen>>

(* A key is deleted or its TTL ends: its directories stay.                 *)
RemovesKey(key) ==
  /\ key \in nodes
  /\ Head(key) = Current
  /\ nodes' = nodes \ {key}
  /\ NoFault
  /\ UNCHANGED <<step, toDelete, failed, seen, saves>>

---------------------------------------------------------------------------
(* Compact.                                                                *)

Compacts(p, from, to) == step[p] = from /\ step' = [step EXCEPT ![p] = to]

CompactBegins(p) ==
  /\ step' = [step EXCEPT ![p] = "list"]
  /\ failed' = [failed EXCEPT ![p] = FALSE]
  /\ UNCHANGED <<nodes, toDelete, seen, saves>>

CompactEnds(p) ==
  /\ step' = [step EXCEPT ![p] = "none"]
  /\ toDelete' = [toDelete EXCEPT ![p] = {}]
  /\ seen' = [seen EXCEPT ![p] = {}]
  /\ failed' = [failed EXCEPT ![p] = FALSE]
  /\ UNCHANGED <<nodes, saves>>

(* Any call of the first part, or the second listing, fails: Compact       *)
(* returns the error.                                                      *)
ListFails(p) ==
  /\ step[p] \in {"list", "listRoot"}
  /\ step' = [step EXCEPT ![p] = "done"]
  /\ Fault
  /\ UNCHANGED <<nodes, toDelete, failed, seen, saves>>

(* An older version, or a name that is not a version; a number too large   *)
(* for an int counts as none.                                              *)
Condemned(name) ==
  name \notin Locks /\ (name \in DOMAIN VersionOf => VersionOf[name] < SchemaVersion)

(* deleteOldSchemaVersionsAndUnversionedData lists /hm ...                 *)
ListsEverything(p) ==
  /\ Compacts(p, "list", "versions")
  /\ toDelete' = [toDelete EXCEPT ![p] =
       {n \in nodes : Len(n) = 1 /\ Condemned(Head(n))}]
  /\ seen' = [seen EXCEPT ![p] = Keys \cap nodes]
  /\ NoFault
  /\ UNCHANGED <<nodes, failed, saves>>

(* ... and deletes, each by a request of its own, in any order.  A node    *)
(* that is gone by then is an error like any other.                        *)
DeletesVersion(p, n) ==
  /\ step[p] = "versions"
  /\ n \in toDelete[p]
  /\ toDelete' = [toDelete EXCEPT ![p] = @ \ {n}]
  /\ \/ n \in nodes /\ nodes' = nodes \ Tree(n, nodes) /\ NoFault /\ UNCHANGED failed
     \/ n \notin nodes /\ UNCHANGED nodes /\ NoFault /\ failed' = [failed EXCEPT ![p] = TRUE]
     \/ UNCHANGED nodes /\ Fault /\ failed' = [failed EXCEPT ![p] = TRUE]
  /\ UNCHANGED <<step, seen, saves>>

(* An error of the first part is returned; without one comes the second.   *)
VersionsDeleted(p) ==
  /\ toDelete[p] = {}
  /\ Compacts(p, "versions", IF failed[p] THEN "done" ELSE "listRoot")
  /\ NoFault
  /\ UNCHANGED <<nodes, toDelete, failed, seen, saves>>

(* Faulty variant: the answer of one child decides for all.                *)
HollowByOneChild(path, listing) ==
  LET children == {n \in listing : IsPrefix(path, n) /\ Len(n) = Len(path) + 1}
  IN  /\ path \notin Keys
      /\ \/ children = {}
         \/ \E n \in children : n \notin Keys /\ Tree(n, listing) \cap Keys = {}

(* Faulty variants: a key is taken for a directory without children; the   *)
(* loop over the children ends at the first that stays, at worst at once. *)
HollowKeys(path, listing) == Tree(path, listing) \ {path} = {}
HollowShortCut(path, listing) ==
  \A n \in listing :
    Front(n) = Front(path) => Tree(n, listing) \cap Keys = {}

(* deleteEmptyDirectoriesUnder decides from the listing alone: a directory *)
(* goes if it is empty or all its children go, which says that no key is   *)
(* below it.                                                               *)
Hollow(path, listing) == Tree(path, listing) \cap Keys = {}

(* deleteEmptyDirectories lists the current schema.                        *)
ListsRoot(p) ==
  LET listing == Tree(Root, nodes)
  IN  /\ Compacts(p, "listRoot", IF Root \in nodes THEN "empty" ELSE "done")
      /\ toDelete' = [toDelete EXCEPT ![p] = {n \in listing : Hollow(n, listing)}]
      /\ seen' = [seen EXCEPT ![p] = Keys \cap listing]
      /\ NoFault
      /\ UNCHANGED <<nodes, failed, saves>>

(* The directories go one at a time, those inside a directory before it;   *)
(* in which order siblings go is left open.  Errors are ignored.           *)
DeletesEmpty(p, n) ==
  /\ step[p] = "empty"
  /\ n \in toDelete[p]
  /\ Tree(n, toDelete[p]) = {n}
  /\ toDelete' = [toDelete EXCEPT ![p] = @ \ {n}]
  /\ \/ nodes' = nodes \ Tree(n, nodes) /\ NoFault
     \/ UNCHANGED nodes /\ Fault
  /\ UNCHANGED <<step, failed, seen, saves>>

EmptyDeleted(p) ==
  /\ toDelete[p] = {}
  /\ Compacts(p, "empty", "done")
  /\ NoFault
  /\ UNCHANGED <<nodes, toDelete, failed, seen, saves>>

CompactStep(p) ==
  \/ ListFails(p) \/ ListsEverything(p) \/ VersionsDeleted(p)
  \/ ListsRoot(p) \/ EmptyDeleted(p)
  \/ \E n \in toDelete[p] : DeletesVersion(p, n) \/ DeletesEmpty(p, n)

OthersStep == \E key \in Keys : SavesKey(key) \/ RemovesKey(key)

---------------------------------------------------------------------------
(* Properties.                                                             *)

Deletes(p) == toDelete'[p] # toDelete[p] /\ step'[p] = step[p]

(* A key the shredder saw in the store is not deleted by it, unless it is  *)
(* under a condemned name: with a second shredder at work, with failures,  *)
(* in whatever order the directories go (compact.go:35-54, 71-88).         *)
SparesWhatItSaw ==
  [][\A p \in Shredders :
       Deletes(p) =>
         \A key \in seen[p] \ nodes' :
           key \in nodes =>
             Head(key) \notin Locks /\ (Head(key) \in DOMAIN VersionOf =>
                                          VersionOf[Head(key)] < SchemaVersion)
    ]_compactVars

(* What is left when the other processes have stopped writing: nothing of  *)
(* an older version or of none, and in the current schema no directory     *)
(* without a key below it (README.md:128, 286).                            *)
IsCompact ==
  /\ \A n \in nodes : Head(n) \in DOMAIN VersionOf \cup Locks
  /\ \A n \in nodes : Head(n) \notin Locks => VersionOf[Head(n)] >= SchemaVersion
  /\ \A n \in Tree(Root, nodes) : Tree(n, nodes) \cap Keys # {}

StoreGetsCompact == <>[]IsCompact
=============================================================================
