----------------------------- MODULE GPUListing -----------------------------
(***************************************************************************)
(* From the instance types of the API to the rows `brev search` prints,    *)
(* and back to the types `brev create` tries: the parsing, filtering,      *)
(* sorting and printing of pkg/cmd/gpusearch/gpusearch.go and the parsing  *)
(* of pkg/cmd/gpucreate/gpucreate.go.                                      *)
(*                                                                         *)
(* A size is counted in 1/128000 GB, so that every unit is a whole number: *)
(* 16 TiB is the most that fits.  A text filter is the set of the names    *)
(* that contain the text.  Columns that no filter, no sorting and no       *)
(* reader of the output looks at are left out.  Until they are sorted, in  *)
(* no stable way, the rows are a set; its slot tells one from its like.    *)
(***************************************************************************)
EXTENDS Integers, Sequences, FiniteSets, SequencesExt, TLC

CONSTANTS
  Alphabet,     \* types, providers and architectures: their alphabetical rank
  Typelike,     \* the types with a letter and a digit in their name
  Headerlike    \* the types with "TYPE" or "GPU" in their name

Labels == DOMAIN Alphabet
ASSUME AlphabetAssumption ==
  Alphabet \in [Labels -> Nat] /\ Labels \subseteq STRING /\ "-" \in Labels

Anything == {"*"}       \* a text filter that is not set
Fits(text, name) == text = Anything \/ name \in text

\* The n-th of some places.
Nth(places, n) == CHOOSE k \in places : Cardinality({j \in places : j <= k}) = n

GB == 128000
-----------------------------------------------------------------------------
(* What the API lists, and what the flags filter *)

\* "2TiB768GiB" is 2 of the first unit and 768 of the third; "" is 0 of each.
Size == [TiB : Nat, TB : Nat, GiB : Nat, GB : Nat, MiB : Nat, MB : Nat]
Bytes == Nat \X STRING
Features == {"S", "R", "P"}     \* stoppable, rebootable, flexible ports

\* The API does not call a maker "cpu", as the client does where there is none.
GPU == [name : STRING, maker : STRING \ {"cpu"}, count : Nat, memory : Size, bytes : Bytes]
Storage == [flexible : BOOLEAN, min : Size, max : Size, size : Size, bytes : Bytes]
InstanceType ==
  [type : Labels, provider : Labels, gpus : Seq(GPU), storage : Seq(Storage),
   vcpu : Nat, memory : Size, bytes : Bytes, archs : Seq(Labels),
   deploy : [h : Nat, m : Nat, s : Nat], can : SUBSET Features, price : Nat]

FilterOptions ==
  [gpu : SUBSET STRING, provider : SUBSET STRING, arch : SUBSET STRING,
   vram : Nat, total : Nat, capability : Nat, ram : Nat, disk : Nat,
   vcpu : Nat, boot : Nat, can : SUBSET Features]
-----------------------------------------------------------------------------
(* Units *)

ParseToGB(size) ==
  (1024 * size.TiB + 1000 * size.TB + size.GiB + size.GB) * GB
    + 125 * size.MiB + 128 * size.MB

\* The memory_bytes of the API: its decimal units count as binary ones.
BytesToGB(b) == b[1] * CASE b[2] \in {"TiB", "TB"} -> 1024 * GB
                         [] b[2] \in {"GiB", "GB"} -> GB
                         [] b[2] \in {"MiB", "MB"} -> 125
                         [] OTHER                  -> 0
OrBytes(size, bytes) ==
  IF ParseToGB(size) = 0 THEN BytesToGB(bytes) ELSE ParseToGB(size)

\* "7m0s" is [h |-> 0, m |-> 7, s |-> 0]; what does not parse counts nothing.
Seconds(time) == 3600 * time.h + 60 * time.m + time.s

\* The first storage counts, flexible between two sizes, or of a fixed one.
DiskInfo(storage) ==
  IF storage = <<>> THEN <<0, 0>>
  ELSE LET s == storage[1] IN
       IF s.flexible
         THEN <<ParseToGB(s.min), ParseToGB(s.max)>>
         ELSE LET fixed == OrBytes(s.size, s.bytes) IN <<fixed, fixed>>

\* "%.0f": to the nearest GB, half to the even one.
Rounded(size) ==
  LET whole == size \div GB
      rest  == size % GB
  IN  IF 2 * rest > GB \/ (2 * rest = GB /\ whole % 2 = 1) THEN whole + 1
                                                           ELSE whole
-----------------------------------------------------------------------------
(* Rows *)

\* Patterns in the order they are tried, those whose order matters; ten times
\* the compute capability.
Capabilities == <<<<"H100", 90>>, <<"L40S", 89>>, <<"L40", 89>>, <<"L4", 89>>,
                  <<"A100", 80>>, <<"A10G", 86>>, <<"A10", 86>>, <<"T4", 75>>,
                  <<"V100", 70>>>>
\* The patterns a name contains, other than itself.
Within == [L40S |-> {"L40", "L4"}, L40 |-> {"L4"}, A100 |-> {"A10"},
           A10G |-> {"A10"}]
Capability(name) ==
  LET In(p) == p = name \/ (name \in DOMAIN Within /\ p \in Within[name])
      hits  == {k \in DOMAIN Capabilities : In(Capabilities[k][1])}
  IN  IF hits = {} THEN 0 ELSE Capabilities[Nth(hits, 1)][2]

\* A row for each GPU an instance type supports, and one for a type with none.
NoGPU == [name |-> "-", maker |-> "cpu", count |-> 0, bytes |-> <<0, "">>,
          memory |-> [TiB |-> 0, TB |-> 0, GiB |-> 0, GB |-> 0, MiB |-> 0, MB |-> 0]]
Row(slot, item, gpu) ==
  LET vram == OrBytes(gpu.memory, gpu.bytes)
      disk == DiskInfo(item.storage)
  IN  [slot |-> slot, gpu |-> gpu.name, maker |-> gpu.maker, count |-> gpu.count,
       vram |-> vram, total |-> vram * gpu.count,
       capability |-> Capability(gpu.name),
       type |-> item.type, provider |-> item.provider, vcpu |-> item.vcpu,
       ram |-> OrBytes(item.memory, item.bytes),
       arch |-> IF item.archs = <<>> THEN "-" ELSE item.archs[1],
       min |-> disk[1], max |-> disk[2], target |-> 0,
       boot |-> Seconds(item.deploy), can |-> item.can, price |-> item.price]

RowsOf(k, item) ==
  IF item.gpus = <<>> THEN {Row(<<k, 0>>, item, NoGPU)}
  ELSE {Row(<<k, g>>, item, item.gpus[g]) : g \in DOMAIN item.gpus}
ProcessInstances(items) == UNION {RowsOf(k, items[k]) : k \in DOMAIN items}
-----------------------------------------------------------------------------
(* Filters: 0, FALSE and Anything are filters that are not set *)

NoFilter == [gpu |-> Anything, provider |-> Anything, arch |-> Anything,
             vram |-> 0, total |-> 0, capability |-> 0, ram |-> 0, disk |-> 0,
             vcpu |-> 0, boot |-> 0, can |-> {}]

MatchesStrings(f, r) ==
  /\ r.maker \in {"cpu", "NVIDIA"}
  /\ Fits(f.gpu, r.gpu) /\ Fits(f.provider, r.provider) /\ Fits(f.arch, r.arch)

\* An unknown boot time is too long for every limit.
Slow(f, r) == r.boot = 0 \/ r.boot > f.boot * 60

MatchesNumbers(f, r) ==
  /\ r.vcpu >= f.vcpu /\ r.ram >= f.ram
  /\ r.vram >= f.vram /\ r.total >= f.total /\ r.capability >= f.capability
  /\ r.max >= f.disk
  /\ f.boot > 0 => ~Slow(f, r)

\* Stoppable, rebootable, ports that can be changed.
MatchesFeatures(f, r) == f.can \subseteq r.can

Matches(f, r) ==
  MatchesStrings(f, r) /\ MatchesNumbers(f, r) /\ MatchesFeatures(f, r)

FilterInstances(rows, f, gpuOnly) ==
  {r \in rows : (gpuOnly => r.maker # "cpu") /\ Matches(f, r)}

\* The filters of one GPU do not exist for CPU types.
FilterCPUInstances(rows, f) ==
  FilterInstances({r \in rows : r.maker = "cpu"},
                  [f EXCEPT !.gpu = Anything, !.vram = 0, !.total = 0,
                            !.capability = 0], FALSE)
-----------------------------------------------------------------------------
(* Sorting *)

SortColumns == {"price", "gpu-count", "vram", "total-vram", "vcpu", "type",
                "capability", "provider", "disk", "boot-time", "ram", "arch"}

Key(column, r) ==
  CASE column = "gpu-count"  -> r.count   [] column = "vram"       -> r.vram
    [] column = "total-vram" -> r.total   [] column = "vcpu"       -> r.vcpu
    [] column = "capability" -> r.capability [] column = "disk"    -> r.max
    [] column = "ram"        -> r.ram     [] column = "boot-time"  -> r.boot
    [] column = "type"       -> Alphabet[r.type]
    [] column = "provider"   -> Alphabet[r.provider]
    [] column = "arch"       -> Alphabet[r.arch]
    [] OTHER                 -> r.price

\* The comparator: with --desc, what does not come before comes before, so
\* that rows of one key come each before the other.  A row whose boot time is
\* unknown comes before none.  Faulty: --desc turns that around as well.
BootUnknown(column, a, b) == column = "boot-time" /\ 0 \in {a.boot, b.boot}
KnownFirst(a, b) == a.boot # 0 /\ b.boot = 0
LessByKey(column, a, b) == Key(column, a) < Key(column, b)
TurnedLess(column, descending, a, b) ==
  LET less == IF BootUnknown(column, a, b) THEN KnownFirst(a, b)
                                           ELSE LessByKey(column, a, b)
  IN  IF descending THEN ~less ELSE less
Less(column, descending, a, b) ==
  IF BootUnknown(column, a, b) THEN KnownFirst(a, b)
  ELSE IF descending THEN ~LessByKey(column, a, b) ELSE LessByKey(column, a, b)

\* sort.Slice is not stable.  It leaves no row behind one that it comes
\* before, unless that one comes before it as well.
SortInstances(rows, column, descending) ==
  {s \in Bijection(1 .. Cardinality(rows), rows) :
     \A j, k \in DOMAIN s :
       j < k /\ Less(column, descending, s[k], s[j])
         => Less(column, descending, s[j], s[k])}

\* The disk to ask for: what --min-disk says where the type leaves a choice.
\* Faulty: what --min-disk says whatever the type has.
AskedDisk(r, minDisk) == IF minDisk > 0 THEN minDisk ELSE r.min
TargetDisk(r, minDisk) ==
  IF r.min # r.max /\ minDisk > 0 /\ minDisk >= r.min /\ minDisk <= r.max
    THEN minDisk ELSE r.min

SetTargetDisks(rows, minDisk) ==
  {[r EXCEPT !.target = TargetDisk(r, minDisk)] : r \in rows}
-----------------------------------------------------------------------------
(* What is printed, and what brev create reads of it *)

Header == [header |-> TRUE]
Line(r) ==
  [header |-> FALSE, type |-> r.type, gpu |-> r.gpu,
   disk |-> GB * Rounded(r.target)]

\* The plain tables, of GPU and of CPU types, wide or not, begin with the type
\* and the disk, in whole GB.
PlainTable(rows) == <<Header>> \o [k \in DOMAIN rows |-> Line(rows[k])]

\* The lines at some places, in their order.
LinesAt(lines, places) ==
  [n \in 1 .. Cardinality(places) |-> lines[Nth(places, n)]]

\* grep drops the header.
Grep(lines, names) ==
  LinesAt(lines, {k \in DOMAIN lines : ~lines[k].header /\ lines[k].gpu \in names})

\* A first line is skipped that looks like a header.  Faulty: whether or not
\* it does.
FirstSkipped(line) == TRUE
IsHeader(line) == line.header \/ line.type \in Headerlike

ParseTable(lines) ==
  LET taken == LinesAt(lines, {k \in DOMAIN lines :
                 /\ k = 1 => ~IsHeader(lines[k])
                 /\ ~lines[k].header /\ lines[k].type \in Typelike})
  IN  [k \in DOMAIN taken |-> [type |-> taken[k].type, disk |-> taken[k].disk]]

\* JSON has the disk as it is, and every type.
ParseJSON(rows) ==
  [k \in DOMAIN rows |-> [type |-> rows[k].type, disk |-> rows[k].target]]
=============================================================================
