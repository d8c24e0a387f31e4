---------------------------- MODULE MCSearchPipe ----------------------------
(* Eight instance types of four providers, one at a time, in pairs and some *)
(* in threes, under one flag of each kind at a time.                        *)
EXTENDS SearchPipe

Zero == [TiB |-> 0, TB |-> 0, GiB |-> 0, GB |-> 0, MiB |-> 0, MB |-> 0]
Flexible(min, max) ==
  <<[flexible |-> TRUE, min |-> min, max |-> max, size |-> Zero, bytes |-> <<0, "">>]>>
Fixed(size, bytes) ==
  <<[flexible |-> FALSE, min |-> Zero, max |-> Zero, size |-> size, bytes |-> bytes]>>
Card(name, maker, count, memory) ==
  [name |-> name, maker |-> maker, count |-> count, memory |-> memory,
   bytes |-> <<16, "GiB">>]
Item(type, provider, gpus, storage, minutes, price) ==
  [type |-> type, provider |-> provider, gpus |-> gpus, storage |-> storage,
   vcpu |-> 8, memory |-> Zero, bytes |-> <<65536, "MiB">>,
   archs |-> <<"x86_64">>, deploy |-> [h |-> 0, m |-> minutes, s |-> 0],
   can |-> {"S", "R", "P"}, price |-> price]

A10G == Item("g5.xlarge", "aws", <<Card("A10G", "NVIDIA", 1, [Zero EXCEPT !.GiB = 22, !.MiB = 360])>>,
             Flexible([Zero EXCEPT !.GiB = 10], [Zero EXCEPT !.TiB = 16]), 7, 1006)
H100 == Item("hyperstack_H100", "shadeform", <<Card("H100", "NVIDIA", 1, [Zero EXCEPT !.GB = 80])>>,
             Fixed([Zero EXCEPT !.GB = 850], <<0, "">>), 0, 1900)
OCI  == Item("VM.GPU.A10.1", "oci", <<Card("A10", "NVIDIA", 1, [Zero EXCEPT !.GiB = 24])>>,
             Flexible([Zero EXCEPT !.GiB = 50], [Zero EXCEPT !.TiB = 4, !.GiB = 768]), 9, 1006)
L40S == [Item("L40Sx2", "nebius", <<Card("L40S", "NVIDIA", 2, [Zero EXCEPT !.GiB = 48])>>,
             Fixed([Zero EXCEPT !.GiB = 625, !.MiB = 512], <<0, "">>), 0, 1500)
           EXCEPT !.can = {"R"}, !.archs = <<>>]
Duo  == Item("duo1", "aws", <<Card("A100", "NVIDIA", 1, [Zero EXCEPT !.GiB = 40]),
                              Card("T4", "NVIDIA", 4, Zero)>>,
             Fixed(Zero, <<1, "TB">>), 3, 3000)
Gaudi == Item("gaudi2", "aws", <<Card("GAUDI2", "Intel", 8, [Zero EXCEPT !.GB = 96])>>,
             Flexible([Zero EXCEPT !.GB = 500], [Zero EXCEPT !.TB = 2]), 5, 900)
Bare == Item("bare-metal", "launchpad", <<Card("A100", "NVIDIA", 8, [Zero EXCEPT !.GB = 80])>>,
             Fixed([Zero EXCEPT !.TB = 3], <<0, "">>), 20, 9000)
CPU  == Item("n2-standard-4", "gcp", <<>>, Flexible([Zero EXCEPT !.GB = 10], [Zero EXCEPT !.TB = 3]), 2, 190)

Items == {A10G, H100, OCI, L40S, Duo, Gaudi, Bare, CPU}
MCAlphabet == ("L40Sx2" :> 1) @@ ("VM.GPU.A10.1" :> 2)
  @@ ("bare-metal" :> 3) @@ ("duo1" :> 4) @@ ("g5.xlarge" :> 5) @@ ("gaudi2" :> 6)
  @@ ("hyperstack_H100" :> 7) @@ ("n2-standard-4" :> 8)
  @@ ("aws" :> 1) @@ ("gcp" :> 2) @@ ("launchpad" :> 3) @@ ("nebius" :> 4)
  @@ ("oci" :> 5) @@ ("shadeform" :> 6) @@ ("-" :> 0) @@ ("x86_64" :> 1)
MCListings ==
  {s \in UNION {[1 .. n -> Items] : n \in 0 .. 2} :
     \A j, k \in DOMAIN s : j < k => MCAlphabet[s[j].type] < MCAlphabet[s[k].type]}
    \cup {<<A10G, OCI, H100>>, <<H100, L40S, A10G>>, <<OCI, Duo, CPU>>}

MCTypelike == {i.type : i \in Items} \ {"bare-metal"}
MCHeaderlike == {"VM.GPU.A10.1"}

Filters == {NoFilter} \cup
  {[NoFilter EXCEPT !.gpu = {"A10", "A10G", "A100"}],
   [NoFilter EXCEPT !.provider = {"aws"}], [NoFilter EXCEPT !.arch = {"x86_64"}],
   [NoFilter EXCEPT !.vram = 24 * GB], [NoFilter EXCEPT !.total = 60 * GB],
   [NoFilter EXCEPT !.capability = 86], [NoFilter EXCEPT !.disk = 900 * GB],
   [NoFilter EXCEPT !.disk = 20 * GB],
   [NoFilter EXCEPT !.vcpu = 16], [NoFilter EXCEPT !.ram = 32 * GB],
   [NoFilter EXCEPT !.boot = 8], [NoFilter EXCEPT !.can = {"S"}],
   [NoFilter EXCEPT !.total = 20 * GB, !.capability = 75, !.disk = 600 * GB],
   [NoFilter EXCEPT !.total = 20 * GB, !.capability = 86, !.disk = 5 * GB]}

Query(f, cpu, column, descending, json) ==
  [filter |-> f, cpu |-> cpu, column |-> column, descending |-> descending,
   json |-> json]
Queries ==
  {Query(f, cpu, "price", FALSE, FALSE) : f \in Filters, cpu \in BOOLEAN} \cup
  {Query(f, FALSE, "price", FALSE, TRUE) :
     f \in {NoFilter, [NoFilter EXCEPT !.disk = 900 * GB]}} \cup
  {Query(NoFilter, FALSE, column, descending, FALSE) :
     column \in SortColumns \cup {"speed"}, descending \in BOOLEAN}

Alone == [stdin |-> "tty", grep |-> Anything, types |-> <<>>, filter |-> NoFilter,
          column |-> "price", descending |-> FALSE, launchable |-> "none",
          storage |-> 0, rules |-> {}, build |-> "vm", dry |-> FALSE]
Piping == [Alone EXCEPT !.stdin = "search"]
Plain  == Query(NoFilter, FALSE, "price", FALSE, FALSE)

MCPipelines ==
  [query : Queries, opts : {Piping}] \cup
  [query : {Plain}, opts :
     {[Piping EXCEPT !.grep = {"A10", "A10G", "A100"}],
      [Piping EXCEPT !.grep = {"A10", "H100", "L40S"}],
      [Piping EXCEPT !.types = <<"g5.xlarge">>], [Piping EXCEPT !.build = "container"],
      [Alone EXCEPT !.stdin = "open"], [Alone EXCEPT !.dry = TRUE],
      [Alone EXCEPT !.types = <<"L40Sx2", "g5.xlarge">>, !.build = "compose"],
      [Alone EXCEPT !.launchable = "typed", !.storage = 256, !.build = "container",
                    !.rules = {"all", "user-ip"}],
      [Alone EXCEPT !.launchable = "untyped"]} \cup
     {[Alone EXCEPT !.filter = f] : f \in {g \in Filters :
        g.arch = Anything /\ g.ram = 0 /\ g.vcpu = 0}} \cup
     {[Alone EXCEPT !.column = column, !.descending = descending] :
        column \in {"boot-time", "type", "vram"}, descending \in BOOLEAN}]
MCLaunchType == "g5.xlarge"

\* sort.Slice sorts up to twelve rows by insertion: whatever order they come
\* in, the order they end up in is one that SortInstances allows.
Insert(column, descending, sorted, row) ==
  LET stays == {0} \cup {j \in DOMAIN sorted : ~Less(column, descending, row, sorted[j])}
      at    == CHOOSE j \in stays : \A k \in stays : k <= j
  IN  SubSeq(sorted, 1, at) \o <<row>> \o SubSeq(sorted, at + 1, Len(sorted))
InsertionSort(rows, column, descending) ==
  FoldLeft(LAMBDA sorted, row : Insert(column, descending, sorted, row), <<>>, rows)
ASSUME InsertionSortAllowed ==
  \A items \in MCListings, column \in SortColumns, descending \in BOOLEAN :
    LET rows == ProcessInstances(items) IN
    \A order \in Bijection(1 .. Cardinality(rows), rows) :
      InsertionSort(order, column, descending) \in SortInstances(rows, column, descending)
=============================================================================
