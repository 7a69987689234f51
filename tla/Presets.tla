------------------------------ MODULE Presets ------------------------------
(***************************************************************************)
(* What is cached for an access, for whom and when: the episode prediction *)
(* (src/src/prediction_utils.rs), the two presets (src/src/presets/), the  *)
(* process filter (src/src/preset.rs) and the caching window               *)
(* (src/src/engine/scheduler.rs).                                          *)
(*                                                                         *)
(* All of it is a function of its input.  The input is the state of this   *)
(* module: a library, a directory tree, a process tree, a command line or  *)
(* a window, every one of a small size.  Each property compares what the   *)
(* code computes from it with what that is for.  A name is what the code's *)
(* patterns find in it.                                                    *)
(***************************************************************************)
EXTENDS Integers, FiniteSetsExt, SequencesExt

CONSTANTS
  Seasons, Episodes,  \* the numbers that occur
  MaxLookahead,       \* plex.lookahead, at most
  AncestorDepth,      \* levels of the parent chain that are read (16)
  Pids,               \* process numbers; 1 is init
  DayMinutes          \* minutes of a day (1440)

ASSUME PresetsAssumption ==
  /\ Seasons \subseteq Nat \ {0} /\ IsFiniteSet(Seasons)
  /\ Episodes \subseteq Nat /\ IsFiniteSet(Episodes)
  /\ MaxLookahead \in Nat /\ AncestorDepth \in Nat /\ DayMinutes \in Nat \ {0}
  /\ Pids \subseteq Nat \ {0} /\ IsFiniteSet(Pids) /\ 1 \in Pids

VARIABLE input
NoInput == [about |-> "nothing"]

-----------------------------------------------------------------------------
(* Episode prediction.  A file is the season and episode its name holds,   *)
(* in a directory: the season its name holds, or Flat for any other name.  *)

Flat == 0
EpisodeFiles == [dir : {Flat} \cup Seasons, s : Seasons, e : Episodes]

\* A set, sorted: the i-th element has i - 1 elements before it.  No set that
\* is sorted here holds two elements with one key.
Sorted(S, before(_, _)) ==
  [i \in 1..Cardinality(S) |-> CHOOSE x \in S : Cardinality({y \in S : before(y, x)}) = i - 1]

\* Order of the keys (season, episode).
Before(f, g) == f.s < g.s \/ (f.s = g.s /\ f.e < g.e)
InOrder(files) == Sorted(files, Before)
Truncated(seq, n) == SubSeq(seq, 1, Min({n, Len(seq)}))

ListDir(lib, dir) == {f \in lib : f.dir = dir}

\* Phase 1: later episodes of the season, in the directory of the file.
SameSeason(lib, f) == {g \in ListDir(lib, f.dir) : g.s = f.s /\ g.e > f.e}

\* Phase 2, one directory per season: all episodes of the later directories,
\* one directory after the other.
DirsAfter(lib, n) == {g.dir : g \in lib} \cap {d \in Seasons : d > n}
LaterDirsUnsorted(lib, f) == Sorted(DirsAfter(lib, f.s), >)
LaterDirs(lib, f) == Sorted(DirsAfter(lib, f.s), <)
FromDirs(lib, f) ==
  FlattenSeq([i \in DOMAIN LaterDirs(lib, f) |-> InOrder(ListDir(lib, LaterDirs(lib, f)[i]))])

\* Phase 2, all seasons in one directory.
FromFlat(lib, f) == InOrder({g \in ListDir(lib, f.dir) : g.s > f.s})

FindNextEpisodes(lib, f, lookahead) ==
  LET candidates == Truncated(InOrder(SameSeason(lib, f)), lookahead)
      following == IF f.dir # Flat THEN FromDirs(lib, f) ELSE FromFlat(lib, f)
  IN  Truncated(candidates \o following, lookahead)

\* on_miss of PlexEpisodePrediction; on_hit is the same with a rolling buffer.
PlexOnMiss(lib, f, lookahead) == <<f>> \o FindNextEpisodes(lib, f, lookahead)
PlexOnHit(lib, f, lookahead, rolling) == IF rolling THEN PlexOnMiss(lib, f, lookahead) ELSE <<>>

-----------------------------------------------------------------------------
(* Prefetch.  A path is the sequence of its names; a name passes the file  *)
(* filter or does not, also the name of a directory.                       *)

Names == {"kept", "dropped"}
PassesFilter(path, whitelist, blacklist) ==
  IF whitelist # {} THEN Last(path) \in whitelist ELSE Last(path) \notin blacklist

\* A tree is a set of paths, each with its parent; the ones with children are
\* directories, and so may others be.
Children(tree, dir) == {p \in tree : p # <<>> /\ Front(p) = dir}
FilesKept(tree, dirs, dir, wl, bl) ==
  {p \in Children(tree, dir) \ dirs : PassesFilter(p, wl, bl)}

CollectNeighbors(tree, dirs, path, wl, bl) == FilesKept(tree, dirs, Front(path), wl, bl)

\* collect_recursive: the calls of one depth on all directories of that depth.
NextLevelKept(tree, dirs, level) ==
  UNION {{p \in Children(tree, d) \cap dirs : Last(p) = "kept"} : d \in level}
NextLevel(tree, dirs, level) == UNION {Children(tree, d) \cap dirs : d \in level}
CollectRecursive(tree, dirs, dir, depth, wl, bl) ==
  LET levels[n \in 1..depth] ==
        IF n = 1 THEN {dir} ELSE NextLevel(tree, dirs, levels[n - 1])
  IN  UNION {FilesKept(tree, dirs, d, wl, bl) : d \in UNION {levels[n] : n \in 1..depth}}

\* gather_files, the same on a miss and on a hit: {} is no action.
GatherFiles(mode, tree, dirs, path, depth, wl, bl) ==
  CASE mode = "cache-hit-only" -> {path}
    [] mode = "cache-neighbors" -> CollectNeighbors(tree, dirs, path, wl, bl)
    [] mode = "cache-parent-recursively" ->
         CollectRecursive(tree, dirs, Front(path), depth, wl, bl)

-----------------------------------------------------------------------------
(* The process filter.  parent[p] is the parent /proc gives for p, p itself *)
(* where it gives none; named are the processes whose executable is read.  *)

\* collect_ancestors: up to AncestorDepth parents, and never init.
Up(parent, p) == IF p <= 1 \/ parent[p] <= 1 THEN p ELSE parent[p]
ChainEnd(parent, pid) ==
  LET chain[n \in 0..AncestorDepth] == IF n = 0 THEN pid ELSE Up(parent, chain[n - 1])
  IN  chain
CollectParent(parent, named, pid) ==
  {ChainEnd(parent, pid)[1]} \cap (named \ {pid})
CollectAncestors(parent, named, pid) ==
  {ChainEnd(parent, pid)[n] : n \in 1..AncestorDepth} \cap (named \ {pid})

\* ProcessFilterPolicy::should_filter of the opener and its ancestors; a list
\* names processes, and one whose executable is not read matches no list.
MatchesOpener(opener, named, list) == opener \in named \cap list
Blocked(opener, named, ancestors, blocklist) ==
  MatchesOpener(opener, named, blocklist) \/ ancestors \cap blocklist # {}
PolicyFilters(opener, named, ancestors, allowlist, blocklist) ==
  \/ Blocked(opener, named, ancestors, blocklist)
  \/ allowlist # {} /\ ~MatchesOpener(opener, named, allowlist)

\* is_plex_playback_cmdline: the tokens in order, each with the one before.
Streaming == {"dash"}
Muxes(prev, tok) == prev = "-f" /\ tok \in Streaming
SeenSoFar(seen, tok) == seen.found \/ Muxes(seen.prev, tok)
IsPlexPlayback(cmdline) ==
  LET scan[n \in 0..Len(cmdline)] ==
        IF n = 0 THEN [prev |-> "", found |-> FALSE]
        ELSE [prev |-> cmdline[n], found |-> SeenSoFar(scan[n - 1], cmdline[n])]
  IN  scan[Len(cmdline)].found

\* should_filter of PlexEpisodePrediction; Prefetch has the policy alone.
PlexFilters(policyFilters, isTranscoder, cmdline) ==
  \/ policyFilters
  \/ isTranscoder /\ (cmdline = <<>> \/ ~IsPlexPlayback(cmdline))

-----------------------------------------------------------------------------
(* The caching window.                                                     *)

\* parse_hhmm of a time of day, here its minutes; an error for anything else.
InDay == 0..(DayMinutes - 1)

WrapsIfEqual(start, end) == start >= end
WrapsMidnight(start, end) == start > end
IsAllowedAt(start, end, now) ==
  IF WrapsMidnight(start, end) THEN now >= start \/ now < end ELSE now >= start /\ now < end

-----------------------------------------------------------------------------
(* The inputs.                                                             *)

\* Libraries as they should be: one directory per season, or one for all.
Structured == {f \in EpisodeFiles : f.dir = f.s}
AllFlat == {f \in EpisodeFiles : f.dir = Flat}
Libraries == (SUBSET Structured) \cup (SUBSET AllFlat)

\* Trees of three levels; a path with children is a directory.
Trees == {t \in SUBSET (UNION {[1..n -> Names] : n \in 1..3}) :
            \A p \in t : Len(p) > 1 => Front(p) \in t}
Tokens == {"-f", "dash", "null"}

\* Processes are numbered in the order of their starts; one that is read as its
\* own parent stands for the loops that reused pids make.
Parents == {f \in [Pids -> Pids] : \A p \in Pids : f[p] <= p}

Inputs ==
  [about : {"library"}, lib : Libraries] \cup [about : {"tree"}, tree : Trees]
    \cup [about : {"processes"}, parent : Parents]
    \cup [about : {"cmdline"}, cmdline : BoundedSeq(Tokens, 5)]
    \cup [about : {"window"}, start : InDay, end : InDay]

PresetsInit == input \in Inputs

-----------------------------------------------------------------------------
(* What must hold.                                                         *)

\* In a well-kept library of either layout the prediction is the `lookahead`
\* episodes that come next, in order and across seasons, none skipped and none
\* twice, although seasons and episodes have gaps (find_next_episodes).
PredictsFollowing ==
  input.about = "library" =>
    \A f \in input.lib, n \in 0..MaxLookahead :
      LET following == {g \in input.lib : Before(f, g)}
          soon == {g \in following : Cardinality({h \in following : Before(h, g)}) < n}
      IN  FindNextEpisodes(input.lib, f, n) = InOrder(soon)

FileFilters == {<<{}, {}>>, <<{"kept"}, {}>>, <<{}, {"dropped"}>>}
Reach(tree, dirs, dir, depth, filter) ==
  {p \in tree \ dirs : /\ IsPrefix(dir, p) /\ Len(p) - Len(dir) \in 1..depth
                       /\ PassesFilter(p, filter[1], filter[2])}
ReachesFiles(tree, dirs) ==
  \A dir \in dirs, filter \in FileFilters :
    /\ \A depth \in 0..3 :
         CollectRecursive(tree, dirs, dir, depth, filter[1], filter[2]) = Reach(tree, dirs, dir, depth, filter)
    /\ \A p \in Children(tree, dir) :
         CollectNeighbors(tree, dirs, p, filter[1], filter[2]) = Reach(tree, dirs, dir, 1, filter)

\* The recursive mode reaches the files that lie less than max_depth
\* directories below the parent and no others; the file filter decides about
\* files only, never about a directory on the way, and an empty directory is
\* not taken for a file.  With depth 1 it is the neighbours mode (README.md:65).
PrefetchReach ==
  input.about = "tree" =>
    \A empty \in {{}} \cup {{p} : p \in input.tree} :
      ReachesFiles(input.tree, {Front(p) : p \in input.tree} \cup empty)

Descends(parent, p, q, n) ==
  \E path \in [0..n -> Pids \ {1}] :
    path[0] = p /\ path[n] = q /\ \A i \in 1..n : path[i] = parent[path[i - 1]]
Lineage(parent, p) ==
  {q \in Pids \ {1} : \E n \in 0..AncestorDepth : Descends(parent, p, q, n)}

\* should_filter lets through what it should and nothing else.  What a blocked
\* process starts does not cause caching: an opener is filtered exactly if a
\* process on the blocklist is the opener or one it descends from in at most
\* 16 steps of which init is none, or if there is an allowlist without it: an
\* allowlisted opener is blocked by its ancestors, and allowlisted ancestors
\* do not help it.  A transcoder's analysis of a file is told from its playback
\* by the output formats: one streaming format is enough, wherever it stands
\* and whatever other outputs the command has (plex_episode_prediction.rs:20).
FilterIsExact ==
  /\ input.about = "processes" =>
       \A p \in Pids \ {1}, named \in SUBSET (Pids \ {1}) :
         LET lineage == Lineage(input.parent, p)
             ancestors == CollectAncestors(input.parent, named, p)
         IN  \A allow, block \in SUBSET (Pids \ {1}) :
               PolicyFilters(p, named, ancestors, allow, block)
                 <=> lineage \cap named \cap block # {} \/ (allow # {} /\ p \notin named \cap allow)
  /\ input.about = "cmdline" =>
       \A policy \in BOOLEAN :
         ~PlexFilters(policy, TRUE, input.cmdline)
           <=> /\ ~policy
               /\ \E i \in 1..(Len(input.cmdline) - 1) : Muxes(input.cmdline[i], input.cmdline[i + 1])

\* The window is the stretch of the clock from its start, for as long as its
\* end is away, whether or not midnight lies in it (README.md:239).
WindowIsStretch ==
  input.about = "window" =>
    \A now \in InDay :
      IsAllowedAt(input.start, input.end, now)
        <=> (now - input.start) % DayMinutes < (input.end - input.start) % DayMinutes
=============================================================================
