---------------------------- MODULE DiscoveryScan ----------------------------
(***************************************************************************)
(* MasterScadaDiscovery::scan: one walk over the directories that          *)
(* processes, services, the registry, hints and the named archive point    *)
(* to.  It is bounded in directories, files, depth and time, can be asked  *)
(* to stop, and ends with the choice of an archive.                        *)
(*                                                                         *)
(* The disk does not change during a scan.  What is on it, and what the    *)
(* administrator has named, is the site, one of the members of Sites.      *)
(***************************************************************************)
EXTENDS Naturals, Sequences, FiniteSets, FiniteSetsExt

CONSTANTS NumDirs, NumFiles,
          Sites              \* what a host and its configuration may look like

Dirs == 1..NumDirs
Files == 1..NumFiles
None == 0

(* What names a directory, and what the file itself tells.                  *)
Sources == {"process", "branded process", "service", "application",
            "publisher's application", "standard", "additional"}
Marks == {"log name", "markers", "sqlite header", "readonly", "objects",
          "timestamps", "sidecar", "recent", "large"}

SiteType ==
  [parent : [Dirs -> 0..NumDirs],               \* 0: a directory of no interest
   drives : SUBSET Dirs, system : SUBSET Dirs,  \* C:\, and C:\Windows, C:\Users
   junctions : SUBSET Dirs,                     \* reparse points
   sources : [Dirs -> SUBSET Sources],
   home : [Files -> Dirs], present : SUBSET Files, marks : [Files -> SUBSET Marks],
   locked : SUBSET Files,                       \* read_prefix gets nothing
   confirmed : 0..NumFiles, configured : 0..NumFiles,        \* DiscoverySelection
   directories : Nat, files : Nat, depth : Nat]              \* DiscoveryLimits

(* Directories are numbered downwards; drives are at the top, and Windows   *)
(* and Users with all that is below them on a drive.                        *)
ASSUME DiscoveryAssumption ==
  /\ NumDirs \in Nat /\ NumFiles \in Nat
  /\ \A s \in Sites :
       /\ s \in SiteType
       /\ \A d \in Dirs : s.parent[d] < d
       /\ \A d \in s.drives : s.parent[d] = 0
       /\ \A d \in s.system : s.parent[d] \in {0} \cup s.drives \cup s.system
       /\ \A d \in Dirs : s.parent[d] \in s.system => d \in s.system

VARIABLES site,
          pc,          \* gather, walk, list, entries, choose or done
          pending,     \* the deque: directories and their depths
          visited,     \* scanned_directories is their number
          here,        \* the directory that is being listed
          entries,     \* what is left of its listing
          seen,        \* scanned_files is their number
          failed,      \* directories that could not be listed
          lost,        \* history: entries that a listing has left out
          candidates,  \* archive_candidates and log_candidates
          components,
          truncated, stopping,
          late,        \* maximum_duration is over
          report       \* the archive that is selected, and the verdict

vars == <<site, pc, pending, visited, here, entries, seen, failed, lost, candidates,
          components, truncated, stopping, late, report>>
-------------------------------------------------------------------------------
(* The points for each piece of evidence.                                   *)
SourcePoints(s) == CASE s = "process" -> 30
                     [] s = "branded process" -> 80
                     [] s = "service" -> 45
                     [] s = "application" -> 25
                     [] s = "publisher's application" -> 40
                     [] s = "standard" -> 10
                     [] s = "additional" -> 20

ArchivePoints(m) == CASE m = "sqlite header" -> 30
                      [] m = "readonly" -> 25
                      [] m \in {"timestamps", "recent"} -> 15
                      [] m \in {"objects", "sidecar", "large"} -> 10
                      [] OTHER -> 0

LogPoints(m) == CASE m = "log name" -> 25 [] m = "markers" -> 35
                  [] m = "recent" -> 15 [] OTHER -> 0

ArchiveScore(marks) == MapThenSumSet(ArchivePoints, marks)
LogScore(marks) == MapThenSumSet(LogPoints, marks)

Confidence(score) == IF score >= 75 THEN "high"
                     ELSE IF score >= 40 THEN "medium"
                     ELSE IF score > 0 THEN "low" ELSE "unknown"

(* The named archive, and the points its directory gets for it.             *)
Named == IF site.confirmed # None THEN site.confirmed ELSE site.configured

NamedPoints_NoRoot(d) == 0

NamedPoints(d) == IF Named = None \/ site.home[Named] # d THEN 0
                  ELSE IF site.confirmed # None THEN 100 ELSE 60

IsRoot(d) == site.sources[d] # {} \/ NamedPoints(d) > 0

RootScore(d) == MapThenSumSet(SourcePoints, site.sources[d]) + NamedPoints(d)

(* restricted_root: a whole drive, Windows and Users with what is below.    *)
Restricted_ByNameOnly(d) ==
  d \in site.drives \/ (d \in site.system /\ site.parent[d] \notin site.system)

Restricted(d) == d \in site.drives \cup site.system

ComponentTypes == Sources \cup {"runtime_directory"}
Candidates == [file : Files, type : {"archive", "log"}, score : Nat]
Verdicts == [selected : 0..NumFiles, confirm : BOOLEAN, detected : BOOLEAN,
             confidence : {"unknown", "low", "medium", "high"},
             status : {"scanning", "detected", "confirmed", "configured",
                       "not_found", "ambiguous", "error"}]
Scanning == [selected |-> None, confirm |-> FALSE, detected |-> FALSE,
             confidence |-> "unknown", status |-> "scanning"]

Init == /\ site \in Sites
        /\ pc = "gather"
        /\ pending = <<>>
        /\ visited = {}
        /\ here = [dir |-> None, depth |-> 0]
        /\ entries = [dirs |-> {}, files |-> {}]
        /\ seen = {}
        /\ failed = {}
        /\ lost = [dirs |-> {}, files |-> {}]
        /\ candidates = {}
        /\ components = {}
        /\ truncated = FALSE
        /\ stopping = FALSE
        /\ late = FALSE
        /\ report = Scanning
-------------------------------------------------------------------------------
(* The roots start the walk in the order of their names.                    *)
Roots == {d \in Dirs : IsRoot(d)}
Allowed == {d \in Roots : ~Restricted(d)}
Orders == {s \in [1..Cardinality(Allowed) -> Allowed] :
             \A i, j \in DOMAIN s : s[i] = s[j] => i = j}

Gather ==
  /\ pc = "gather"
  /\ components' = {[type |-> s, score |-> SourcePoints(s)] :
                      s \in (UNION {site.sources[d] : d \in Dirs})
                              \ {"standard", "additional"}}
  /\ \E s \in Orders :
        pending' = [i \in 1..Cardinality(Allowed) |-> [dir |-> s[i], depth |-> 0]]
  /\ pc' = "walk"
  /\ UNCHANGED <<site, visited, here, entries, seen, failed, lost,
                 candidates, truncated, stopping, late, report>>

WalkEnds ==
  /\ pc = "walk"
  /\ pending = <<>> \/ stopping
  /\ pc' = "choose"
  /\ UNCHANGED <<site, pending, visited, here, entries, seen, failed, lost,
                 candidates, components, truncated, stopping, late, report>>

OverBudget == late \/ Cardinality(visited) >= site.directories

WalkTruncated ==
  /\ pc = "walk" /\ pending # <<>> /\ ~stopping
  /\ OverBudget
  /\ truncated' = TRUE
  /\ pc' = "choose"
  /\ UNCHANGED <<site, pending, visited, here, entries, seen, failed, lost,
                 candidates, components, stopping, late, report>>

(* The next directory, unless it has been visited under another root.       *)
NextDirectory ==
  /\ pc = "walk" /\ pending # <<>> /\ ~stopping
  /\ ~OverBudget
  /\ pending' = Tail(pending)
  /\ LET next == Head(pending)
     IN IF next.dir \in visited
        THEN UNCHANGED <<pc, visited, here>>
        ELSE /\ visited' = visited \cup {next.dir}
             /\ here' = next
             /\ pc' = "list"
  /\ UNCHANGED <<site, entries, seen, failed, lost, candidates, components,
                 truncated, stopping, late, report>>

(* list_directory throws, or returns; the clock is looked at again.         *)
ListingFails ==
  /\ pc = "list"
  /\ failed' = failed \cup {here.dir}
  /\ pc' = "walk"
  /\ UNCHANGED <<site, pending, visited, here, entries, seen, lost,
                 candidates, components, truncated, stopping, late, report>>

ListedTooLate ==
  /\ pc = "list" /\ late
  /\ truncated' = TRUE
  /\ pc' = "choose"
  /\ UNCHANGED <<site, pending, visited, here, entries, seen, failed, lost,
                 candidates, components, stopping, late, report>>

Listing(d) == [dirs |-> {e \in Dirs : site.parent[e] = d},
               files |-> {f \in site.present : site.home[f] = d}]

(* The listing ends without a word where the iterator cannot go on, and is  *)
(* empty where access is denied.                                            *)
Listed ==
  /\ pc = "list" /\ ~late
  /\ entries' \in [dirs : SUBSET Listing(here.dir).dirs,
                  files : SUBSET Listing(here.dir).files]
  /\ lost' = [dirs |-> lost.dirs \cup (Listing(here.dir).dirs \ entries'.dirs),
              files |-> lost.files \cup (Listing(here.dir).files \ entries'.files)]
  /\ components' =
       IF entries' # [dirs |-> {}, files |-> {}] /\ IsRoot(here.dir)
       THEN components \cup {[type |-> "runtime_directory",
                              score |-> RootScore(here.dir) + 10]}
       ELSE components
  /\ pc' = "entries"
  /\ UNCHANGED <<site, pending, visited, here, seen, failed, candidates,
                 truncated, stopping, late, report>>

(* One entry after the other, in the order of the file system.              *)
Follows(d) == d \notin site.junctions /\ here.depth < site.depth

Enqueued_DepthFirst(d) ==
  <<[dir |-> d, depth |-> here.depth + 1]>> \o pending

Enqueued(d) == Append(pending, [dir |-> d, depth |-> here.depth + 1])

Directory(d) ==
  /\ pc = "entries" /\ ~stopping
  /\ d \in entries.dirs
  /\ entries' = [entries EXCEPT !.dirs = @ \ {d}]
  /\ pending' = IF Follows(d) THEN Enqueued(d) ELSE pending
  /\ UNCHANGED <<site, pc, visited, here, seen, failed, lost, candidates,
                 components, truncated, stopping, late, report>>

(* The file limit gives up this directory only; the walk goes on.           *)
FileLimit ==
  /\ pc = "entries" /\ ~stopping
  /\ entries.files # {}
  /\ Cardinality(seen) >= site.files
  /\ truncated' = TRUE
  /\ entries' = [dirs |-> {}, files |-> {}]
  /\ pc' = "walk"
  /\ UNCHANGED <<site, pending, visited, here, seen, failed, lost,
                 candidates, components, stopping, late, report>>

(* What a file is a candidate for, and its score.  One that another program *)
(* has locked shows nothing but its name and the time of its last change.   *)
Visible(f) == IF f \in site.locked THEN site.marks[f] \cap {"log name", "recent"}
                                   ELSE site.marks[f]

Found(f) ==
  {[file |-> f, type |-> "log", score |-> LogScore(Visible(f))] :
     m \in Visible(f) \cap {"log name"}}
  \cup
  {[file |-> f, type |-> "archive", score |-> ArchiveScore(Visible(f))] :
     m \in Visible(f) \cap {"sqlite header"}}

File(f) ==
  /\ pc = "entries" /\ ~stopping
  /\ f \in entries.files
  /\ Cardinality(seen) < site.files
  /\ seen' = seen \cup {f}
  /\ candidates' = candidates \cup Found(f)
  /\ entries' = [entries EXCEPT !.files = @ \ {f}]
  /\ UNCHANGED <<site, pc, pending, visited, here, failed, lost, components,
                 truncated, stopping, late, report>>

EntriesDone ==
  /\ pc = "entries"
  /\ stopping \/ entries = [dirs |-> {}, files |-> {}]
  /\ entries' = [dirs |-> {}, files |-> {}]
  /\ pc' = "walk"
  /\ UNCHANGED <<site, pending, visited, here, seen, failed, lost,
                 candidates, components, truncated, stopping, late, report>>
-------------------------------------------------------------------------------
(* The choice.  A named archive is selected, found or not; otherwise the    *)
(* only candidate of high confidence is proposed.                           *)
Archives == {c \in candidates : c.type = "archive"}
Strong == {c \in Archives : Confidence(c.score) = "high"}

ByName ==
  LET match == {c \in Archives : c.file = Named}
      grade == IF site.confirmed # None THEN "confirmed" ELSE "configured"
  IN [selected |-> Named, confirm |-> FALSE,
      status |-> IF match = {} THEN "error" ELSE grade]

Proposed ==
  IF Cardinality(Strong) = 1
  THEN [selected |-> (CHOOSE c \in Strong : TRUE).file, confirm |-> TRUE,
        status |-> "none"]
  ELSE [selected |-> None, confirm |-> FALSE,
        status |-> IF Strong = {} THEN "none" ELSE "ambiguous"]

Chosen_BestMatch ==
  IF Named # None /\ ByName.status # "error" THEN ByName ELSE Proposed

Chosen == IF Named # None THEN ByName ELSE Proposed

Detected ==
  \E c \in components :
     \/ c.type \in {"process", "branded process", "service"}
     \/ c.score >= 40

BestScore == IF components = {} THEN 0 ELSE Max({c.score : c \in components})

Choose ==
  /\ pc = "choose"
  /\ report' = [selected |-> Chosen.selected, confirm |-> Chosen.confirm,
                detected |-> Detected, confidence |-> Confidence(BestScore),
                status |-> IF Chosen.status # "none" THEN Chosen.status
                           ELSE IF Detected THEN "detected" ELSE "not_found"]
  /\ pc' = "done"
  /\ UNCHANGED <<site, pending, visited, here, entries, seen, failed, lost,
                 candidates, components, truncated, stopping, late>>
-------------------------------------------------------------------------------
(* The clock and the stop token of the caller.                              *)
TimeIsUp ==
  /\ ~late /\ pc # "done"
  /\ late' = TRUE
  /\ UNCHANGED <<site, pc, pending, visited, here, entries, seen, failed,
                 lost, candidates, components, truncated, stopping, report>>

RequestStop ==
  /\ ~stopping /\ pc # "done"
  /\ stopping' = TRUE
  /\ UNCHANGED <<site, pc, pending, visited, here, entries, seen, failed,
                 lost, candidates, components, truncated, late, report>>

Walk == WalkEnds \/ WalkTruncated \/ NextDirectory

List == ListingFails \/ ListedTooLate \/ Listed

Examine == \/ \E d \in Dirs : Directory(d)
           \/ \E f \in Files : File(f)
           \/ FileLimit \/ EntriesDone

Next == Gather \/ Walk \/ List \/ Examine \/ Choose \/ TimeIsUp \/ RequestStop

Spec == Init /\ [][Next]_vars
-------------------------------------------------------------------------------
(* Types of every variable.                                                 *)
TypeOK ==
  /\ site \in Sites
  /\ pc \in {"gather", "walk", "list", "entries", "choose", "done"}
  /\ pending \in Seq([dir : Dirs, depth : 0..site.depth])
  /\ visited \subseteq Dirs /\ failed \subseteq visited
  /\ lost \in [dirs : SUBSET Dirs, files : SUBSET Files]
  /\ here \in [dir : 0..NumDirs, depth : 0..site.depth]
  /\ entries.dirs \subseteq Dirs /\ entries.files \subseteq site.present
  /\ seen \subseteq site.present
  /\ candidates \subseteq Candidates
  /\ components \subseteq [type : ComponentTypes, score : Nat]
  /\ truncated \in BOOLEAN /\ stopping \in BOOLEAN /\ late \in BOOLEAN
  /\ report \in Verdicts

(* The directories at most site.depth levels below an allowed root, through *)
(* directories that can be listed, are no junctions and were not left out   *)
(* of a listing.                                                            *)
InReach ==
  LET near[n \in 0..site.depth] ==
        IF n = 0 THEN Allowed
        ELSE near[n - 1] \cup {d \in Dirs \ (site.junctions \cup lost.dirs) :
                                  site.parent[d] \in near[n - 1] \ failed}
  IN near[site.depth]

(* The walk never enters a drive, Windows, Users or what is below them,     *)
(* whichever root or entry leads there, nor a reparse point that it meets,  *)
(* and stays within its limits.  A root that is itself a reparse point is   *)
(* walked, although docs/archive-discovery.md:7 excludes reparse points     *)
(* without exception.                                                       *)
StaysOnSite ==
  /\ \A d \in visited : /\ d \notin site.drives \cup site.system
                        /\ d \in site.junctions => IsRoot(d)
  /\ Cardinality(visited) <= site.directories
  /\ Cardinality(seen) <= site.files

(* Every variable has its type, and "bounded scan": the walk is within      *)
(* reach, and a scan that does not say it was truncated, and was not        *)
(* stopped, has visited all that is, and has examined all the files.  Only  *)
(* what a listing left out, or what lies below it, is missed without a      *)
(* word.  A directory below two roots counts from the nearer one, whichever *)
(* comes first.                                                             *)
NothingMissed ==
  /\ TypeOK
  /\ visited \subseteq InReach
  /\ pc = "done" /\ ~truncated /\ ~stopping =>
       /\ InReach \subseteq visited
       /\ seen = {f \in site.present : site.home[f] \in InReach \ failed} \ lost.files

(* "исчезнувший подтверждённый файл не заменяется автоматически", and       *)
(* "при нескольких сильных кандидатах требуется выбор администратора":      *)
(* without a confirmation nothing but the archive that was named, or one    *)
(* that beats all others it could read, is selected, and the latter must be *)
(* confirmed.                                                               *)
NeverSwitched ==
  pc = "done" =>
    /\ Named # None => report.selected = Named
    /\ report.confirm <=> Named = None /\ report.selected # None
    /\ report.confirm =>
         \A f \in (seen \ site.locked) \ {report.selected} :
            "sqlite header" \in site.marks[f] =>
               Confidence(ArchiveScore(site.marks[f])) # "high"

(* A complete scan reports an error only about an archive that is gone, is  *)
(* no SQLite file, cannot be read, lies where the scan may or can not look, *)
(* or was left out of the listing of its directory.  It calls all of these  *)
(* "disappeared".                                                           *)
AlarmIsReal ==
  pc = "done" /\ report.status = "error" /\ ~truncated /\ ~stopping =>
    \/ Named \notin site.present
    \/ "sqlite header" \notin site.marks[Named]
    \/ Named \in site.locked
    \/ Restricted(site.home[Named])
    \/ site.home[Named] \in failed
    \/ Named \in lost.files
-------------------------------------------------------------------------------
(* What the proofs rest on.  What waits to be visited may be entered.       *)
Enterable == {d \in Dirs : ~Restricted(d) /\ (d \in site.junctions => IsRoot(d))}

Waiting ==
  /\ site \in Sites
  /\ pc \in {"gather", "walk", "list", "entries", "choose", "done"}
  /\ pending \in Seq([dir : Dirs, depth : Nat])
  /\ \A i \in 1..Len(pending) : pending[i].dir \in Enterable
  /\ here \in [dir : 0..NumDirs, depth : Nat]
  /\ pc \in {"list", "entries"} => here.dir \in visited
  /\ DOMAIN entries = {"dirs", "files"}
  /\ \A d \in entries.dirs : d \in Dirs /\ site.parent[d] \in visited

(* The sets that are counted are finite.                                    *)
Counted == /\ visited \subseteq Dirs /\ entries.files \subseteq Files
           /\ seen \subseteq Files
           /\ IsFiniteSet(candidates)

(* Every file examined has left its candidates, and nothing is selected     *)
(* before the walk is over.                                                 *)
Remembered ==
  /\ \A f \in seen : Found(f) \subseteq candidates
  /\ \A c \in candidates : c.file \in seen /\ c \in Found(c.file)
  /\ pc = "done" => /\ report.selected = Chosen.selected
                    /\ report.confirm = Chosen.confirm

(* The inductive invariant.                                                 *)
Walking == Waiting /\ Counted /\ Remembered /\ StaysOnSite
===============================================================================
