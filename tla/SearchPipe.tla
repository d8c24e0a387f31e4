----------------------------- MODULE SearchPipe -----------------------------
(***************************************************************************)
(* `brev search | grep ... | brev create`, and `brev create` with filters  *)
(* of its own: two processes and a pipe (pkg/cmd/gpusearch/gpusearch.go,   *)
(* pkg/cmd/gpucreate/gpucreate.go).                                        *)
(*                                                                         *)
(* The front end of brev create ends with a chain of types, each with a    *)
(* disk; GPUCreate has what becomes of the chain for many instances.  Here *)
(* there is one instance, and what a request says of it matters.  PSpec    *)
(* and its parts are named so that a module can extend this one and that.  *)
(***************************************************************************)
EXTENDS GPUListing

CONSTANTS
  Listings,     \* the listings the API may have
  Pipelines,    \* the flags of the two commands
  LaunchType    \* the type of a launchable that has one

SearchFlags ==
  [filter : FilterOptions, cpu : BOOLEAN, column : STRING,
   descending : BOOLEAN, json : BOOLEAN]

\* The flags of create, what its standard input is, and what the launchable
\* says of the disk, the firewall and the way to build.
CreateFlags ==
  [stdin : {"tty", "search", "open"}, grep : SUBSET STRING,
   types : Seq(STRING), filter : FilterOptions, column : STRING,
   descending : BOOLEAN, launchable : {"none", "typed", "untyped"},
   storage : Nat, rules : SUBSET {"all", "user-ip"},
   build : {"vm", "k8s", "container", "compose"}, dry : BOOLEAN]

ASSUME InputsAssumption ==
  /\ Listings \subseteq Seq({i \in InstanceType :
       LET disk == DiskInfo(i.storage) IN disk[1] <= disk[2]})
  /\ Pipelines \subseteq [query : SearchFlags, opts : CreateFlags]
  /\ \A s \in Pipelines : s.query.json => s.opts.grep = Anything

DefaultDisk == 120      \* DefaultDiskStorage, in GB

VARIABLES
  listing,      \* what the API lists
  query, spc,   \* the flags and the control of brev search
  out,          \* the lines, or the JSON rows, on its standard output
  opts, cpc,    \* the flags and the control of brev create
  specs,        \* the types it is to try, each with a disk
  origin,       \* where they come from
  turn,         \* the one it tries next
  requests,     \* what it asked the control plane for
  found         \* history: all rows of the listing the types come from

search == <<query, spc, out>>
pvars == <<listing, query, spc, out, opts, cpc, specs, origin, turn, requests,
           found>>

PInit ==
  /\ listing \in Listings
  /\ \E s \in Pipelines : query = s.query /\ opts = s.opts
  /\ spc = (IF opts.stdin = "search" THEN "run" ELSE "exit") /\ out = <<>>
  /\ cpc = "start" /\ specs = <<>> /\ origin = "none" /\ turn = 1
  /\ requests = <<>> /\ found = {}
-----------------------------------------------------------------------------
(* brev search *)

\* The API lists CPU types when asked to.
Fetched(cpu) == IF cpu THEN listing
                ELSE Restrict(listing, {k \in DOMAIN listing : listing[k].gpus # <<>>})

Filtered(rows) ==
  IF query.cpu THEN FilterCPUInstances(rows, query.filter)
               ELSE FilterInstances(rows, query.filter, FALSE)

Results(rows) ==
  SortInstances(SetTargetDisks(Filtered(rows), query.filter.disk),
                query.column, query.descending)

\* No results: an empty array, or nothing at all.
Display(rows) == IF query.json \/ rows = <<>> THEN rows ELSE PlainTable(rows)

Search ==
  /\ spc = "run" /\ spc' = "exit"
  /\ \/ query.column \in SortColumns
        /\ found' = ProcessInstances(Fetched(query.cpu))
        /\ \E rows \in Results(found') : out' = Display(rows)
     \/ UNCHANGED <<out, found>>
  /\ UNCHANGED <<listing, query, opts, cpc, specs, origin, turn, requests>>

\* The control plane: a type is sold out, while anybody may still ask.
SoldOut ==
  /\ spc = "run" \/ cpc \in {"start", "read", "resolve"}
  /\ \E k \in DOMAIN listing : listing' = Restrict(listing, DOMAIN listing \ {k})
  /\ UNCHANGED <<search, opts, cpc, specs, origin, turn, requests, found>>
-----------------------------------------------------------------------------
(* brev create: which types *)

Goto(step) == cpc' = step /\ UNCHANGED <<listing, search, opts>>
End == Goto("end") /\ UNCHANGED <<specs, origin, turn, requests, found>>

\* The launchable and its script are fetched, the other flags looked at.
Start ==
  /\ cpc = "start"
  /\ \/ Goto("read") /\ UNCHANGED <<specs, origin, turn, requests, found>>
     \/ End

Flagged == [k \in DOMAIN opts.types |-> [type |-> opts.types[k], disk |-> 0]]
Piped ==
  IF query.json THEN ParseJSON(out)
  ELSE ParseTable(IF opts.grep = Anything THEN out ELSE Grep(out, opts.grep))

\* Standard input is read unless it is a terminal.  Faulty: whatever it is.
ReadsAnyway == TRUE
ReadsPipe   == opts.stdin # "tty"

\* It is read to its end, after --type; the start-up script may not be
\* readable.
ReadTypes ==
  /\ cpc = "read"
  /\ ReadsPipe => opts.stdin = "search" /\ spc = "exit"
  /\ \/ /\ specs' = IF ReadsPipe THEN Flagged \o Piped ELSE Flagged
        /\ origin' = IF specs' = <<>> THEN "none"
                     ELSE IF opts.types = <<>> THEN "pipe" ELSE "flag"
        /\ Goto("resolve") /\ UNCHANGED <<turn, requests, found>>
     \/ End

\* A filter that is not set has a default, that on the boot time only where
\* no filter is set.
OrDefault(val, def) == IF val > 0 THEN val ELSE def
Merged(f) ==
  [f EXCEPT !.total = OrDefault(@, 20 * GB), !.capability = OrDefault(@, 80),
            !.disk = OrDefault(@, 500 * GB),
            !.boot = IF f = NoFilter THEN 7 ELSE @]

SearchInstances(rows, f) ==
  SortInstances(FilterInstances(rows, Merged(f), TRUE),
                opts.column, opts.descending)

\* Faulty: what --min-disk says, or 500 GB, whatever the type has.
MinDisk(r, f) == Merged(f).disk
DiskFor(r, f) ==
  IF r.min # r.max /\ Merged(f).disk > r.min /\ Merged(f).disk <= r.max
    THEN Merged(f).disk ELSE r.min

\* A launchable has a type of its own, or else there is an error; without a
\* type, the API is asked for those that match.
Launched ==
  /\ opts.launchable # "none" /\ specs = <<>>
  /\ \/ /\ opts.launchable = "typed"
        /\ specs' = <<[type |-> LaunchType, disk |-> 0]>>
        /\ origin' = "launchable"
        /\ Goto("context") /\ UNCHANGED <<turn, requests, found>>
     \/ opts.launchable = "untyped" /\ End
FromFilters ==
  /\ opts.launchable = "none" /\ specs = <<>>
  /\ \/ /\ found' = ProcessInstances(Fetched(FALSE))
        /\ \E rows \in SearchInstances(found', opts.filter) :
             /\ rows # <<>>
             /\ specs' = [k \in DOMAIN rows |->
                  [type |-> rows[k].type, disk |-> DiskFor(rows[k], opts.filter)]]
        /\ origin' = "filters"
        /\ Goto("context") /\ UNCHANGED <<turn, requests>>
     \/ End
AsGiven ==
  /\ specs # <<>>
  /\ Goto("context") /\ UNCHANGED <<specs, origin, turn, requests, found>>
ResolveInstanceTypes ==
  cpc = "resolve" /\ (Launched \/ FromFilters \/ AsGiven)

\* --dry-run prints the types; else the user and the organization are fetched.
Context ==
  /\ cpc = "context"
  /\ \/ ~opts.dry /\ Goto("try") /\ UNCHANGED <<specs, origin, turn, requests, found>>
     \/ End
-----------------------------------------------------------------------------
(* brev create: what a request says *)

\* One field of the request for each way to build; a vm is there to begin
\* with.  The launchable has its own.
Builds(build) ==
  CASE build \in {"container", "compose"} -> {build}
    [] OTHER                              -> {"vm"}

\* A launchable's storage, the disk of the type, or the default.
Disk(spec) ==
  IF opts.launchable # "none" /\ opts.storage > 0 THEN opts.storage
  ELSE IF spec.disk > 0 THEN Rounded(spec.disk) ELSE DefaultDisk

\* A rule for the user's address alone, which one of three services tells, is
\* sent without an address where none of them does.
Firewall(rules, address) ==
  {[rule |-> r, address |-> r = "user-ip" /\ address] : r \in rules}

Request(spec, address) ==
  [type |-> spec.type, disk |-> Disk(spec), builds |-> Builds(opts.build),
   firewall |-> IF opts.launchable = "none" THEN {}
                ELSE Firewall(opts.rules, address)]

\* A type without capacity, or a compose file that cannot be read: the next
\* one.  A request may be refused too.
Try ==
  /\ cpc = "try" /\ turn <= Len(specs)
  /\ \/ /\ turn' = turn + 1 /\ cpc' = cpc
        /\ UNCHANGED requests
     \/ \E address, ok \in BOOLEAN :
          /\ requests' = Append(requests, Request(specs[turn], address))
          /\ turn' = turn + 1
          /\ cpc' = IF ok THEN "end" ELSE cpc
  /\ UNCHANGED <<listing, search, opts, specs, origin, found>>
OutOfTypes == cpc = "try" /\ turn > Len(specs) /\ End
-----------------------------------------------------------------------------
Create == \/ Start \/ ReadTypes \/ ResolveInstanceTypes \/ Context \/ Try
          \/ OutOfTypes
PNext == Search \/ SoldOut \/ Create

\* The API answers, one way or another, and the shell runs both commands.
PSpec == PInit /\ [][PNext]_pvars /\ WF_pvars(Search) /\ WF_pvars(Create)
-----------------------------------------------------------------------------
\* The flags that choose the types: those of the search they were piped from.
Chosen == IF origin = "pipe" THEN query.filter ELSE Merged(opts.filter)
Known(column, descending, a, b) ==
  IF column = "boot-time" /\ 0 \in {a.boot, b.boot} THEN b.boot = 0
  ELSE IF descending THEN Key(column, a) >= Key(column, b)
                     ELSE Key(column, a) <= Key(column, b)

\* The lines that reach create's parser, and those of them that count.
Reaches(j) == query.json \/ (~out[j].header /\ Fits(opts.grep, out[j].gpu))
Lost(j) == /\ opts.grep # Anything /\ out[j].type \in Headerlike
           /\ \A i \in DOMAIN out : Reaches(i) => j <= i
KeptLines ==
  {j \in DOMAIN out :
     Reaches(j) /\ (query.json \/ (out[j].type \in Typelike /\ ~Lost(j)))}

(* What search printed and grep kept is what create tries, all of it and   *)
(* in that order: gpusearch.go:1144.  A table loses the names without a    *)
(* letter or a digit, and a first row that looks like the header.          *)
PipeKept ==
  origin = "pipe" =>
    \E place \in Bijection(DOMAIN specs, KeptLines) :
      /\ \A k \in DOMAIN specs : specs[k].type = out[place[k]].type
      /\ \A j, k \in DOMAIN specs : j < k => place[j] < place[k]

(* The disk of a request is one its type has, to the nearest GB, and no    *)
(* less than --min-disk, whichever of the two commands got the flag.       *)
DiskHonoured ==
  origin \in {"pipe", "filters"} /\ opts.launchable = "none" =>
    \A q \in ToSet(requests) : \E r \in found :
      /\ q.type = r.type
      /\ \/ q.disk \in Rounded(r.min) .. Rounded(r.max)
         \/ Rounded(r.min) = 0 /\ q.disk = DefaultDisk
      /\ q.disk >= Rounded(Chosen.disk)

(* Types are tried in the order of --sort, one whose boot time is unknown  *)
(* after those whose is known, in either direction.                        *)
TriedInOrder ==
  LET by == IF origin = "pipe" THEN query ELSE opts IN
  origin \in {"pipe", "filters"} =>
    \A j, k \in DOMAIN specs : j < k =>
      \E a, b \in found :
        /\ a.type = specs[j].type /\ b.type = specs[k].type
        /\ Known(by.column, by.descending, a, b)

(* brev create with filters tries the types, each with the disk, that a    *)
(* pipe from brev search with the same filters would have given it, where  *)
(* the filters that have a default are set.                                *)
PipeOrFlags ==
  LET f    == opts.filter
      rows == FilterInstances(found, f, FALSE)
  IN  origin = "filters" /\ f = Merged(f) =>
        \E row \in Bijection(DOMAIN specs, rows) : \A k \in DOMAIN specs :
          specs[k] = [type |-> row[k].type, disk |-> TargetDisk(row[k], f.disk)]

(* A create ends, unless it reads a pipe that nobody closes.               *)
PipeEnds == opts.stdin # "open" ~> cpc = "end"
=============================================================================
