--------------------------- MODULE MCDiscoveryScan ---------------------------
(* Small sites: three directories in every tree, two files.                 *)
EXTENDS DiscoveryScan

Trees == {p \in [Dirs -> 0..(NumDirs - 1)] : \A d \in Dirs : p[d] < d}

Weak == {"sqlite header", "readonly", "large"}
Strongest == {"sqlite header", "readonly", "objects", "timestamps", "sidecar"}
Logging == {"log name", "markers"}

(* Where the walk goes: overlapping roots and one junction.                 *)
Walks ==
  [parent : Trees, drives : {{}}, system : {{}},
   junctions : {{}} \cup {{d} : d \in Dirs},
   sources : {s \in [Dirs -> {{}, {"standard"}}] : s[1] # {}},
   home : {<<2, 3>>, <<3, 3>>}, present : {Files},
   marks : {<<Strongest, Logging>>}, locked : {{}},
   confirmed : {None}, configured : {None},
   directories : 2..3, files : 1..2, depth : 1..2]

(* What is restricted: a drive, a system directory and what is below.       *)
Drives ==
  {[parent |-> p, drives |-> {1},
    system |-> {2} \cup {d \in Dirs : p[d] = 2},
    junctions |-> {}, sources |-> s, home |-> <<3, 3>>, present |-> {1},
    marks |-> <<Strongest, {}>>, locked |-> {},
    confirmed |-> c, configured |-> None,
    directories |-> 3, files |-> 2, depth |-> 2] :
      p \in Trees,
      s \in [Dirs -> {{}, {"service", "application"}}], c \in {None, 1}}

(* What is chosen: two archives, weak, strong, other or gone.               *)
Selections ==
  [parent : {<<0, 1, 0>>}, drives : {{}}, system : {{}}, junctions : {{}},
   sources : {<<s, {}, {}>> : s \in {{"standard"}, {"standard", "additional"},
                  {"branded process"}, {"process", "publisher's application"}}},
   home : {<<1, 2>>}, present : SUBSET Files,
   marks : [Files -> {Weak, Strongest, Logging}], locked : SUBSET {2},
   confirmed : 0..NumFiles, configured : {None, 2},
   directories : {3}, files : 1..2, depth : {1}]

MCSites == Walks \cup Drives \cup Selections
===============================================================================
