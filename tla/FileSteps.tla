------------------------------- MODULE FileSteps -------------------------------
(***************************************************************************)
(* The step functions that move files (engine/functions.py): extract,       *)
(* copy, route, append, write a CSV, read a PDF; under the retry loop and   *)
(* the time limit of the engine, and the capability layers of each step.    *)
(* Files are read and written in worker threads (world/real.py), which a    *)
(* time limit does not stop: the write of an attempt that was cut may land  *)
(* during a later attempt.                                                  *)
(*                                                                         *)
(* A path is a directory and a name; the content of a file is a sequence    *)
(* of values.  A write lands whole, unless the process dies under it.       *)
(***************************************************************************)
EXTENDS Naturals, Sequences, FiniteSets

CONSTANTS
  Steps,       \* the steps
  Runs,        \* the sets of steps that may run beside each other
  Config,      \* step -> [fn, paths, from, dest, line, layers, retries]
  Disk,        \* path -> content, the files there at the start
  Categories,  \* the directories a route may choose by name
  Members,     \* value -> the members of the archive with that content
  Budgets      \* bound: [cuts, crashes], the time limits that strike and the deaths
               \* of the process in one behaviour

VARIABLES
  fs,        \* path -> content
  run,       \* step -> where its attempt is
  caps,      \* step -> the capability layers in the context it runs with
  writing,   \* step -> the write it awaits, or none
  late,      \* writes of attempts that were cut, still in their threads
  touched,   \* <<step, path, "read" or "write">> of every access
  crashes, cuts   \* what is left of the budget

vars == <<fs, run, caps, writing, late, touched, crashes, cuts>>

Nothing == <<>>   \* no write awaited
Path(d, n) == [dir |-> d, name |-> n]
Exists(p)  == p \in DOMAIN fs

\* An attempt at its start: where it is in its paths, the writes its last read
\* called for, the names given out, what it will report.
Fresh(pc, left) == [pc |-> pc, at |-> 1, todo |-> <<>>, used |-> {}, reported |-> <<>>, left |-> left]

Init ==
  /\ fs = Disk
  /\ \E chosen \in Runs :
       run = [s \in Steps |-> IF s \in chosen THEN Fresh("ready", Config[s].retries + 1) ELSE Fresh("failed", 0)]
  /\ caps = [s \in Steps |-> {}]
  /\ writing = [s \in Steps |-> Nothing] /\ late = {}
  /\ touched = {}
  /\ \E b \in Budgets : cuts = b.cuts /\ crashes = b.crashes

-----------------------------------------------------------------------------
(* Capabilities: every layer must allow the path.                          *)

CanRead(s, p)  == \A layer \in caps[s] : p.dir \in layer.read
CanWrite(s, p) == \A layer \in caps[s] : p.dir \in layer.write

\* Mutant of Bind: one context, shared by the steps in flight.
MutBind(s) == [t \in Steps |-> Config[s].layers]

\* Each step runs with a copy of the context that holds its own layers.
Bind(s) == [caps EXCEPT ![s] = Config[s].layers]

-----------------------------------------------------------------------------
(* The functions.                                                          *)

\* `paths`, or what the step named by `paths_from` reported.
Paths(s) ==
  LET from == Config[s].from
  IN IF from = s THEN Config[s].paths
     ELSE [i \in DOMAIN run[from].reported |-> run[from].reported[i].path]

\* Mutant of DestName: a repeated name is given out again.
MutDestName(base, used) == <<base, 1>>

\* _dest_name: the name, or the first of 2_name, 3_name, ... not given out.
DestName(base, used) ==
  <<base, CHOOSE k \in 1 .. Cardinality(used) + 1 :
            <<base, k>> \notin used /\ \A j \in 1 .. k - 1 : <<base, j>> \in used>>

\* A member of another suffix is not read; one that does not open ends its
\* archive.
Taken(members, i) ==
  members[i].fits /\ \A j \in 1 .. i : members[j].fits => members[j].opens

\* Those that are, in order, each under a name not given out yet.
Named(dest, members, used) ==
  LET File(name, data) == [path |-> Path(dest, name), content |-> <<data>>, name |-> name]
      F[i \in 0 .. Len(members)] ==
        IF i = 0 THEN <<>>
        ELSE LET before == F[i - 1]
                 given  == used \cup {before[j].name : j \in DOMAIN before}
             IN IF Taken(members, i)
                THEN Append(before, File(DestName(members[i].name, given), members[i].data))
                ELSE before
  IN F[Len(members)]

One(p, content) == <<[path |-> p, content |-> content, name |-> p.name]>>

\* extract_archive: what is not an archive is skipped.
Extracted(s, value) ==
  IF value \in DOMAIN Members THEN Named(Config[s].dest, Members[value], run[s].used) ELSE <<>>

\* copy_files: under its own name.
Copied(s, p, content) == One(Path(Config[s].dest, p.name), content)

\* route_by_classification: a category that is not one of those listed, or no
\* category at all, goes to the fallback.
Category(s) == IF Config[s].dest \in Categories THEN Config[s].dest ELSE "other"

\* route_by_value: the same for a value of the context.
Routed(s, p, content) == One(Path(Category(s), p.name), content)

\* append_file: all there was and the line.
Appended(s, p, content) == One(p, content \o <<Config[s].line>>)

\* write_csv: the file anew.
Csv(s, p) == One(p, <<Config[s].line>>)

\* What a step writes once the content at p is read.
Writes(s, p, content) ==
  CASE Config[s].fn = "extract" -> Extracted(s, content[1])
    [] Config[s].fn = "copy"    -> Copied(s, p, content)
    [] Config[s].fn = "route"   -> Routed(s, p, content)
    [] Config[s].fn = "append"  -> Appended(s, p, content)
    [] Config[s].fn = "csv"     -> Csv(s, p)
    [] Config[s].fn = "pdf"     -> <<>>

\* pdf_extract, min_chars: a page with nothing on it fails the step.
Blank(s, content) == Config[s].fn = "pdf" /\ content = <<>>

\* copy and extract skip a source that is not there; route and the PDF reader
\* fail; append starts an empty file; a CSV does not read.
Missing(s) == CASE Config[s].fn \in {"copy", "extract"} -> "skip"
                [] Config[s].fn \in {"append", "csv"}   -> "empty"
                [] OTHER                                -> "fail"

\* What is asked of the capabilities before the read: route and append ask for
\* the write then as well; a CSV has no read.
Allowed(s, p) ==
  /\ Config[s].fn # "csv" => CanRead(s, p)
  /\ Config[s].fn = "route" => CanWrite(s, Path(Category(s), p.name))
  /\ Config[s].fn = "append" => CanWrite(s, p)

-----------------------------------------------------------------------------
(* An attempt.                                                             *)

Ready(s) == run[s].pc = "ready" /\ (Config[s].from = s \/ run[Config[s].from].pc = "completed")

Dispatch(s) ==
  /\ Ready(s)
  /\ run' = [run EXCEPT ![s] = Fresh("running", @.left - 1)]
  /\ caps' = Bind(s)
  /\ UNCHANGED <<fs, writing, late, touched, crashes, cuts>>

\* StepFailure: another attempt while the budget lasts.
Failed(s) == [run EXCEPT ![s] = Fresh(IF @.left > 0 THEN "ready" ELSE "failed", @.left)]

\* The next path: refused, missing, or read.
Read(s) ==
  /\ run[s].pc = "running" /\ run[s].todo = <<>> /\ run[s].at <= Len(Paths(s)) /\ writing[s] = Nothing
  /\ LET p == Paths(s)[run[s].at]
         content == IF Exists(p) /\ Config[s].fn # "csv" THEN fs[p] ELSE <<>>
         fails == ~Allowed(s, p) \/ (Exists(p) /\ Blank(s, content)) \/ (~Exists(p) /\ Missing(s) = "fail")
         skips == ~Exists(p) /\ Missing(s) = "skip"
     IN /\ run' = IF fails THEN Failed(s)
                  ELSE [run EXCEPT ![s].at = @ + 1,
                                   ![s].todo = IF skips THEN <<>> ELSE Writes(s, p, content)]
        /\ touched' = IF fails \/ skips \/ Config[s].fn = "csv" THEN touched
                      ELSE touched \cup {<<s, p, "read">>}
  /\ UNCHANGED <<fs, caps, writing, late, crashes, cuts>>

\* _require_path, then write_bytes in a thread.
BeginWrite(s) ==
  /\ run[s].pc = "running" /\ run[s].todo # <<>> /\ writing[s] = Nothing
  /\ LET w == Head(run[s].todo)
     IN IF CanWrite(s, w.path)
        THEN /\ writing' = [writing EXCEPT ![s] = <<w>>]
             /\ touched' = touched \cup {<<s, w.path, "write">>}
             /\ UNCHANGED run
        ELSE run' = Failed(s) /\ UNCHANGED <<writing, touched>>
  /\ UNCHANGED <<fs, caps, late, crashes, cuts>>

Stored(w) == [p \in DOMAIN fs \cup {w.path} |-> IF p = w.path THEN w.content ELSE fs[p]]

EndWrite(s) ==
  /\ writing[s] # Nothing
  /\ LET w == writing[s][1]
     IN /\ fs' = Stored(w)
        /\ run' = [run EXCEPT ![s].todo = Tail(@), ![s].used = @ \cup {w.name},
                              ![s].reported = Append(@, [path |-> w.path, content |-> w.content])]
  /\ writing' = [writing EXCEPT ![s] = Nothing]
  /\ UNCHANGED <<caps, late, touched, crashes, cuts>>

Complete(s) ==
  /\ run[s].pc = "running" /\ run[s].todo = <<>> /\ run[s].at > Len(Paths(s))
  /\ run' = [run EXCEPT ![s].pc = "completed"]
  /\ UNCHANGED <<fs, caps, writing, late, touched, crashes, cuts>>

\* asyncio.wait_for: the attempt ends, a write already in its thread does not.
Cut(s) ==
  /\ run[s].pc = "running" /\ cuts > 0
  /\ cuts' = cuts - 1 /\ run' = Failed(s)
  /\ late' = IF writing[s] = Nothing THEN late ELSE late \cup {writing[s][1]}
  /\ writing' = [writing EXCEPT ![s] = Nothing]
  /\ UNCHANGED <<fs, caps, touched, crashes>>

LateWrite(w) ==
  /\ late' = late \ {w}
  /\ fs' \in {fs, Stored(w)}   \* a thread still queued when it is cut never runs
  /\ UNCHANGED <<run, caps, writing, touched, crashes, cuts>>

\* The process dies; writes under way leave what they had or an empty file.
\* The sweep and an operator's resume run what had not completed again.
Crash ==
  /\ crashes > 0 /\ \E s \in Steps : run[s].pc = "running"
  /\ LET inFlight == late \cup UNION {{writing[s][1]} : s \in {t \in Steps : writing[t] # Nothing}}
     IN \E torn \in SUBSET {w.path : w \in inFlight} :
          fs' = [p \in DOMAIN fs \cup torn |-> IF p \in torn THEN <<>> ELSE fs[p]]
  /\ run' = [s \in Steps |-> IF run[s].pc = "running" THEN Fresh("ready", Config[s].retries + 1) ELSE run[s]]
  /\ writing' = [s \in Steps |-> Nothing] /\ late' = {}
  /\ crashes' = crashes - 1
  /\ UNCHANGED <<caps, touched, cuts>>

Next ==
  \/ \E s \in Steps : Dispatch(s) \/ Read(s) \/ BeginWrite(s) \/ EndWrite(s) \/ Complete(s) \/ Cut(s)
  \/ \E w \in late : LateWrite(w)
  \/ Crash

Spec == Init /\ [][Next]_vars

-----------------------------------------------------------------------------
(* Runs whose steps keep out of each other's directories.                  *)

Moves(s)   == Config[s].fn \in {"extract", "copy", "route"}
Records(s) == Config[s].fn \in {"append", "csv"}
OutDir(s)  == IF Config[s].fn = "route" THEN Category(s) ELSE Config[s].dest

\* The step writes there, if its layers let it.
WritesIn(s, d) ==
  /\ \A layer \in Config[s].layers : d \in layer.write
  /\ \/ Moves(s) /\ d = OutDir(s)
     \/ Records(s) /\ \E i \in DOMAIN Config[s].paths : d = Config[s].paths[i].dir

\* Where a step moves files no other writes, nor any where it takes them from;
\* it does not take two of one name, except out of archives; and what it takes
\* from another step is what that one moved.
KeepsApart(beside) ==
  \A s \in beside :
    /\ Moves(s) /\ WritesIn(s, OutDir(s)) => \A t \in beside \ {s} : ~WritesIn(t, OutDir(s))
    /\ LET paths == Config[s].paths
       IN Moves(s) /\ Config[s].from = s =>
            /\ \A t \in beside, i \in DOMAIN paths : ~WritesIn(t, paths[i].dir)
            /\ Config[s].fn # "extract" =>
                 \A i, j \in DOMAIN paths : paths[i].name = paths[j].name => i = j
    /\ Config[s].from # s => ~Records(s) /\ ~Records(Config[s].from)

-----------------------------------------------------------------------------
(* Properties.                                                             *)

\* A step that completed reported files that are there with the content it
\* reported, and an extraction never the same file twice, whatever attempts
\* were cut or died before it and whenever their writes land: this is what
\* makes "re-running a delivery idempotent" (copy_files, extract_archive).
ReportedFilesAreThere ==
  \A s \in Steps : run[s].pc = "completed" /\ Config[s].fn \in {"extract", "copy", "route"} =>
    LET r == run[s].reported
    IN /\ \A i \in DOMAIN r : Exists(r[i].path) /\ fs[r[i].path] = r[i].content
       /\ \A i, j \in DOMAIN r : r[i].path = r[j].path => i = j

\* No step touches a file outside its own layers, whatever its siblings are
\* allowed: _require_path asks again after every await.
TouchesWithinLayers ==
  \A t \in touched : \A layer \in Config[t[1]].layers :
    t[2].dir \in (IF t[3] = "read" THEN layer.read ELSE layer.write)
=============================================================================
