# A verification of brev-cli

`brev` is the command line of a cloud of GPU instances. It creates, starts,
stops and deletes instances through a control plane, keeps the user's SSH
configuration in step with them, connects to them, and turns a machine of the
user's own into a node others can be let into. This directory holds TLA+ modules
for the parts of the program that keep state and can get it wrong, TLC
configurations that check them on small instances, and TLAPS proofs for every
value of the constants.

## 1. The system

The program is a set of short-lived processes, one per command, and a few
long-lived ones (the refresh daemons). They share no memory. What they share is
the disk - `~/.brev/credentials.json`, `~/.brev/active_org.json`,
`~/.brev/ssh_config`, `~/.brev/onboarding_step.json`, `~/.ssh/config`,
`~/.ssh/authorized_keys`, `device_registration.json` - the pipes between them, and
the servers: the control plane's API, two identity providers, devplane. None of
the files is locked, so what two processes do to one file interleaves at each
read, truncation and write (os.WriteFile and afero.WriteFile empty a file before
they write it, and may fail in between); a process can be killed between any two
steps; and every call may be refused, fail, or be served with its answer lost.
`NodeSSHAccess` and `SSHConfig` have their files in that detail, kills and failed
writes included; `NodeRegistration`, `Connect` and `WorkspaceSetup` are killed, or
stopped, anywhere too, with an edit of a file as one or two steps. Within one
process there is concurrency in two places: the worker pool of `brev create`, and
the refresh goroutine of the connecting commands; the instance set-up, which runs
on the instance, has two goroutines of its own.

| Component | State | Operations | Works with | What is hard | What makes it correct |
|---|---|---|---|---|---|
| Provisioning: `brev create` (`cmd/gpucreate`) | channel of indices, result under a lock, list of instances | resolve the types, try a type, receive an index, create, record, join, trim, poll | control plane, names taken by others, a pipe | workers in parallel, partial failure of a type, name conflict, lost answer, deadline | the count is kept, no instance is forgotten, no index asked for twice at once, chain ends when it should, command ends |
| Search: `brev search` (`cmd/gpusearch`) | a listing | parse, filter, set disks, sort, print | `brev create` reads it back | rounding, missing fields, a table between two programs | what was searched for is what is tried, with the disk and in the order asked for |
| SSH access of a node (`cmd/register/sshkeys.go`, `cmd/{enablessh,grantssh,revokessh}`) | `authorized_keys`, ports, grants | open port, install key, grant, retry, roll back; grant and revoke from elsewhere | devplane, registration | unlocked read/modify/write, retries, refusal after the file was edited | nobody else's lines change; key and grant agree; rollback takes out what was put in |
| Node registration (`cmd/register`, `cmd/deregister`) | registration file, tunnel, managed keys, devplane's nodes | register, enable SSH, deregister | devplane, netbird | crash between remote and local step, lost answers, best-effort clean-up | machine and devplane agree on the node |
| Credentials and organization (`auth`, `store/{http,authtoken,organization}.go`, `cmd/{login,logout,set,org}`) | credential file, active organization | login (device flow of two providers, token, API key), renew, retry after 403, logout | identity providers, every API call | stale read written back, retry loops, provider chosen once per process | a logout lasts, a login can be renewed, nobody is asked to log in without need, requests end |
| SSH client configuration (`ssh`, `cmd/{refresh,runtasks}`) | `~/.brev/ssh_config`, Include line in `~/.ssh/config`, JetBrains list | refresh, daemon tick | control plane, credentials, the user's editor | truncate-then-write, listings of different age, a command returning while its goroutine writes | the user's lines survive, the awaited alias resolves, files converge |
| Connecting commands (`cmd/{open,exec,copy,shell,portforward,notebook,ollama}`, `cmd/util`) | a batch of names, a refresh in flight, the onboarding file | look up, start, poll, refresh, wait for SSH, run, print for the next command | control plane, SSH configuration | a refresh older than the instance, the refresh of a name given up, a remote command that fails like a connection | the entry is there before SSH, no command is repeated for a name once ssh reported success, every name is tried, commands end |
| Instance lifecycle (`cmd/{ls,start,stop,delete,reset,scale,fu}`, `cmd/util`) | a batch of names; the server's status | list, look up, check, request, poll, print for the next command | control plane, pipes | state changes between listing, lookup and request; several instances of one name; one of many fails | no other user's instance is touched, output names what was done, one failure does not stop the others |
| Instance set-up (`setupworkspace`) | users, keys, repositories, scripts, VS Code | set-up steps in order, two goroutines | git, editors | errors kept and lost, shared `err`, stop in the middle | every step is tried in order, the result reported is the result |
| Environment variables, dependency merging, hardware profile | none | text in, text out | the shell, `start`, `register` | - | - |
| Analytics, proxy, autostart of daemons, upgrade, agent skill, small commands | little or none | one call, one child process | - | - | - |

`PROJECT.json` lists every component with its sources and says what is modelled.

## 2. The modules

| Module | Models | Its state in the code |
|---|---|---|
| `Provision` | what `brev create --count N` promises (abstract) | acknowledged instances, types left, whether a name was refused, the verdict |
| `NameBatch` | what a command over several names promises (abstract) | the names, how many were tried, which went well, which the next command gets |
| `NodeLife` | what register and deregister promise of a machine's nodes (abstract) | nodes made and still listed, the one being saved, the one on file |
| `Credentials` | what the unlocked credentials.json is to the processes that share it (abstract) | logins made, what is stored, what processes have taken |
| `GPUCreate` | `RunGPUCreate`, `createInstancesWithType`, `runWorker`, `pollUntilReady` | `all` is `successfulWorkspaces`; `successes`, `hadFailure`, `fatal` are `typeCreateResult`; `next`/`limit` are the channel of indices |
| `GPUListing` | the pure part of search and create: units, `ProcessInstances`, filters, `SetTargetDisks`, the comparator of `SortInstances` (`Less`), the table, its JSON, and the parsing of both | none: operators on rows, a set until they are sorted |
| `SearchPipe` | `brev search` and the front end of `brev create`, one instance | `out` is the pipe; `specs` what `resolveInstanceTypes` returns; `requests` the `CreateWorkspacesOptions` sent |
| `AuthorizedKeys` | the edits of the file as operators, and what a write over a truncated file leaves | a set of lines: a key and its mark |
| `NodeSSHAccess` | `SetupAndRegisterNodeSSHAccess` and what it calls; `grant-ssh`, `revoke-ssh` | `spc` is where a session stands; `snapshot` what it read; `keyAdded` its local of that name; `grants` devplane's |
| `NodeRegistration` | `brev register`, `enable-ssh`, `deregister` | `reg` the registration file, `nodes` devplane's list, `pc`/`mine` a process |
| `Session` | `auth.go`, `auth0.go`, `kas.go`, the HTTP client's 403 hook, `login`, `logout` | `file` is `credentials.json`, `held` a process's copy of it, `oauth` the provider it was set up with, `phase` the request's place in the retry |
| `SSHConfig` | `ConfigUpdater.Run` and its three callers | `brev`, `user`, `jetbrains` are the files; `got` what a refresh fetched |
| `Connect` | open, exec, copy, shell, port-forward, notebook, ollama | `names`/`at` the loop; `refresh` the goroutine waited for, `orphans` those of names given up; `Path` the order of steps of each command |
| `Lifecycle` | ls, start, stop, delete, reset, scale, fu over a batch of names | `names`/`at` the loop, `ok`/`failed` what it collects, `printed` what ls wrote to the pipe, `out` what is piped on |
| `WorkspaceSetup` | `SetupWorkspace`, `Setup` and the loops over repositories and scripts | `pc` the step of `Setup`; `err` its variable, `testing` between assignment and test; `code`, `ext` the goroutines; `disk` the home directory |
| `MC*` | instances for TLC: constants only | |
| `*Proofs` | theorems about the module of that name; `GPUCreateProofs` about `SearchPipe` too | |

How they compose. `GPUCreate` instantiates `Provision`, `NodeRegistration`
instantiates `NodeLife`, `Session` instantiates `Credentials`, and both `Lifecycle`
and `Connect` instantiate `NameBatch`, each with a refinement mapping at the end of the module and none with a history
variable in it: the two kinds of batch loop, written twice in the code, keep the
same promise.
`SearchPipe` extends `GPUListing` and puts two programs on the ends of a pipe; it
ends where `GPUCreate` begins, with a chain of types. `NodeSSHAccess` extends
`AuthorizedKeys`. `NodeRegistration` and `NodeSSHAccess` share a component: the
first has the steps of a session as single steps, so that registration,
deregistration and enabling can be interleaved; the second splits each edit of the
file into its read, its truncation and its write, each of which may fail, and has
the retries. `SSHConfig` and
`Connect` share the refresh: the first has every read, truncation and write of
the three files, with daemons beside it; the second has the refresh in two steps and all that comes
before and after it. In `Lifecycle`, `brev ls` writes the pipe another command reads
its names from.

Actions are named after the functions they stand for. An action is what runs
between two points at which another process, worker or server can be noticed:
a call, a lock, a read or a write of a shared file. A call has a disjunct per
outcome: served, refused, served with the answer lost. Definitions that come
before the one they resemble, under a comment "Faulty:", are plausible slips of
the same line of code; no action uses them. They show that each property
depends on that line.

Variables marked *history* in a module are not in the program. They name the
circumstances under which the code is known not to keep a property - an answer
that was lost, a file that could not be written - so that the property can be
stated of all other cases. They are set where the loss happens and never read by
an action.

## 3. What is checked

Every run is exhaustive for its constants. The runs check what is hard; that every
variable has its type is proved (section 4).

**`gpucreate`** - 2 instances, 2 workers, 2 types, all combinations of listing,
offers, launchable and `--detached`; names may be taken and released by others at any
time. Two of each are enough for every interaction of the code: a failing worker
beside a succeeding one, a success after a conflict, a second type that starts
with part of the work done, more instances than workers being the same loop
again. `NoUntracked`: what the server acknowledged is in a list the command still
reports from (a lost answer is the exception and has its own state).
`ImplementsProvision` is the refinement. It has the bound on the count in it, for
which the code's own test (`len(result.successes) >= Count`) sees one type only;
that a type is tried only while it takes one and no name was refused; and that "could
only create k/N" is said only then, or after the last type.
`Terminates` is under fairness of the command and its workers only: the server
owes nothing, the poll has a deadline (`PollBudget` polls stand for it).

**`gpucreate_retry`** (violation) - the help text says the next type is tried "for
remaining instances". The next type starts at index `len(successes)`.

**`search`** - eight instance types of five kinds of provider (sizes in GiB and
GB, flexible and fixed disks, two GPU kinds in one type, a maker that is not
NVIDIA, no GPU at all), listed alone, in pairs and in threes, with types selling
out between the two commands; every flag of search with one value on each side of
a boundary, alone; every `--sort` in both directions; as a table, filtered by a
`grep`, as JSON; the flags of create, a launchable, a stdin nobody closes.
Combinations of filters are conjunctions of the same tests and are left out.
`PipeKept` names the two ways a row is lost: a type without a letter and a digit,
and a first row that reads like a header. `DiskHonoured` and `PipeOrFlags` are about
the two computations of a disk, one in each command, one of which compares with
`>` and the other with `>=`. `TriedInOrder` is about the comparator, which negates itself
for `--desc` and so is no order: of two rows with equal keys each comes before the
other. `Less` is that comparator, with its early returns for unknown boot times.
`SortInstances` is every sequence a sort by it may leave: no row stands behind one it comes
before, unless that one comes before it as well. That is all the model takes from
sort.Slice; an ASSUME of `MCSearchPipe` evaluates the insertion sort that sort.Slice runs on
short slices, and lands in that set. The property says the order in terms of
keys, not of `Less`: a comparator that negates the early returns too (`TurnedLess`) breaks it.

**`ssh_access`** - three commands in two processes, one after the other or overlapping
at every read, truncation and write, killed anywhere, their reads and writes failing;
two users with a key each, one port, a file with a stranger's line to start from, one
retry, and grants and revocations made from other machines at any time. A write that
fails or is killed may have written any part of its lines, and one that lands on what
another process wrote since the truncation may leave its tail. Sessions that overlap
do lose lines, and the properties say exactly how. `StrangersKept`: a key of nobody the
CLI knows keeps its lines, whenever no session has the file truncated, unless a
session read it truncated ("peeked") or ended between the truncation and the end of
its write ("cutOff"); other overlaps cost a stranger nothing, since every session
writes back what it read of strangers. `torn` records the first such loss. For the
tag of a user and a port there is a third way, `crossed`: two sessions for it at once,
or one that writes over a file another had read or written in between. The properties
of the tags hold of all others: `KnownGrantHasKey` takes two sessions to
violate, one that is granted and a later one that fails for the same user and port;
`StrayTagsExcused` accounts for each tag without a grant; `KeyBeforeGrant` is about the file at
the moment devplane is asked. With two commands a granted session and one that
crosses or fails can be had, but not a third that reads what they left. A second port
would be a second tag, which the two users already are; a user without a key has no
line, and the upgrade of a user's own untagged line in place needs another file to
start from: both are in the proofs only.

**`registration`** - one process that registers and deregisters, and a second that
enables SSH beside it, up to three nodes, kill at every step. Three AddNode calls
let a machine register, deregister, register and fail. With a second registrar
`NodeTracked` and `ImplementsNodeLife` fail at once: `Exists` is checked long before
`Save`, so two registrations make two nodes and keep one. `ImplementsNodeLife` says of
the whole life of the machine what `NodeTracked`, `FileOutlivesNode` and
`CleanupAfterRemoval` say of its moments, with no history to excuse a loss: none is
added while one is kept or being saved, what was lost stays lost, and the file
forgets only a node devplane removed. Deadlock is possible in the code - a
torn registration file makes both commands refuse until it is deleted by hand -
but not in the run, since the second process goes on.

**`session`** - two processes, of which one only sends requests, two logins, both
providers. Two logins are needed for a write-back of the first over the second, and
for a file that changes its provider under a running process. `LogoutHolds` and
`KeyStays` say that only a process that had read the credentials before can bring
them back - that much the code does not prevent. `Renewable` needs a provider that
does not send a new refresh token. `PromptNeeded`: the provider is chosen when the
process starts (`cmd.go:106`), so only a write by another command since, or a token
given with `--token`, leads to a prompt while the session lasts. `CommandsEnd`: the
403 hook obtains a token by the same path that led to the 403, and only its single
retry keeps the two from chasing each other; and no login waits for ever for its
device code. `ImplementsCredentials`: with no lock, an old login may come back over a
newer one, or over a logout - but only from a process that still has it, and never
with the API key that was stored beside it.

**`ssh_config`** - a connecting command, a daemon, one instance, one node, one line
of the user's, two surprises (a call, read, truncation or write that fails, a process
killed, an instance stopped, a node revoked). One is enough for each of the
properties to fail if the code were wrong; two let a write be cut short in one
process and another be killed over what that left. A daemon tick that starts while the
last one still runs is the same as a second daemon; a daemon that was killed is
started again. `UserLinesKept` names the ways to lose lines (`torn`): a refresh reads the file
while another process has truncated it; a process ends at that moment, be it killed or a
command that returns while its own goroutine has the file open; the write is cut short.
Its second part is that the Include is there at most once, with no such excuse.
`HostEntryUpToDate` excuses a later write by another process.
`ConfigsConverge` assumes only that the daemon ticks and that refreshes go on; the
surprises are finite.

**`lifecycle`** - batches of up to two words, typed or read from what a `brev ls` before
it printed, out of a shared name, an ID, a URL that is also a plausible name, and
`self`; two instances of one name, of which one cannot be stopped; ordinary users,
administrators and API keys; servers and other users that start and stop instances
between listing, lookup and request. Two words show everything the loop does: a
failure first, last or both. `ImplementsNameBatch` says which failure may end
a batch (of a start, stop or delete only that of a URL or a path, which can panic),
and that a name is printed for the next command only if all went well.
`OthersUntouched` names every way to an instance that
is not the user's, and says that a listing without `--all` is none. `BatchEnds`
leaves out the single `brev start`, and one of a URL or a path, which polls until
RUNNING without a deadline.

**`lifecycle_detached`** (violation) - a detached start of a git URL polls.

**`setup`** - two repositories, one with two forms of its URL and one made empty, two
scripts and an extension; all of the old version, or one of each of the new, with
what only that knows: an unknown type, a disabled script, a log archive without a
log path. Every step may fail and the instance may be stopped and started again
at any point, any number of times. Two of each loop are needed for a failure
before, and one after, a success. The goroutine that configures code-server assigns
the same `err` as `Setup`, without synchronisation: the model splits assignment and
test on both sides, which yields every value the test may see. `SuccessIsTrue`
excuses a set-up in which that happened (`raced`); without the excuse TLC finds a
set-up that prints "Success" after its scripts could not be prepared.
`EveryoneTried` is the point of collecting errors instead of returning them. It names
what keeps a repository or a script from being tried: SSH, git or the preparation
failing (or the race for `err`), a `.brev` repository that failed (no scripts are
run), and a version-1 script with a log archive but no log path, over which
`GetLogArchivePath` panics (`setupworkspace.go:606`): the set-up ends without a report, and other
version-1 scripts may be left, as the map of them has no order; repositories and
scripts of the old version, which come first, are not. The fifth plan has both
scripts of version 1 and that panic in one of them.

**`connect`** - two instances of one name and a node, any of them running, stopped,
failed or gone, an onboarding file that may be cut short, users and API keys; open and exec over up to two
names, the others over one; one retry of ssh; the refresh goroutine and those of
names given up interleaved with everything; killed anywhere. Two names are needed
for the refresh of the first to overwrite the config while the second waits:
`EntryBeforeSSH` excuses that (`late`) and nothing else, and is why open
refreshes twice. `NotRunAgain`: exec runs the user's command before it has looked
anything up, and once more after, for each name it is given (one given twice is two
names); never again once ssh reported success. A command that ends well and takes its
connection with it (`sudo reboot`) is reported as 255 and run again: that outcome ("lost")
is in the model, and the property says nothing of it. `ImplementsNameBatch`: the names are
tried in order and each once, whatever refresh the one before left behind, and only two
things keep the next from being tried: a kill, and the panic of `StartWorkspaceIfStopped` over an
instance that vanished between two lookups (`StartGone`). `ConnectEnds` leaves out
open and copy while they poll, which have no deadline.

**`connect_exec`** (violation) - the exit status of the user's command is taken
for that of the connection: a command that fails on a running instance is run again.

### Fairness

Weak fairness, on the actions of a process that has begun something: Go runs its
goroutines and HTTP calls come back, with a result or an error. No fairness on
the servers (instances may boot for ever), on commands being started, or on
particular outcomes of a call. Two exceptions are stated where they are used:
the daemon's ticker (`runtasks.go`, every 3 s), and the expiry of a device code
that nobody approves, which the identity provider announces with it (`expires_in`)
and which is all that ends the polling of `auth0.go:145`. A deadline in the code is
an action of the process that may be taken at any time; where there is none,
there is no such action.

### Bounds

`Count`, `Parallel`, `NTypes`, `PollBudget`, `MaxNodes`, `MaxSessions`, `MaxTries`,
`MaxCommands`, `MaxChanges`, `MaxNames` and `Tries` are the only bounds, each a CONSTANT of its
module; they stand for flags, for retries inside a time window, or for how much of an
unbounded life is explored. The proofs have none of them fixed.

### Disagreements between the code and what it says

The violation runs are the findings of `PROJECT.json`, each with the line it
contradicts. Met on the way, and modelled as they are:

* A refused SSH session that upgraded the user's own untagged line in place takes
  the line away with its roll-back (`sshkeys.go:460`).
* The daemon fetches no nodes, so its config removes those a command wrote
  (`runtasks.go:85`).
* An instance that vanished between the lookup and the start that follows is the
  first of an empty list (`util/ssh.go:93`, `copy.go:284`): exec and copy panic, and leave the
  names that follow.
* A command of exec that ends well but loses its connection is run again, like one
  that failed (`exec.go:189`).
* `authorized_keys` and `~/.ssh/config` are emptied before they are written
  (`sshkeys.go:254`, `476`, `store/ssh.go:128`): what a process reads in between it writes back.
* A word nothing could be started from is handed to the next command as started
  (`start.go`, `LookupStart`).
* `createNewWorkspaceFromGit` (`start.go:533`) wraps the wrong error variable, so that a
  failed organization lookup is reported as success.
* The second lookup an administrator's `stop` gets is filtered for the user again
  and cannot find more than the first (`stop.go:170`).
* A deletion that fails in `brev fu` is reported by way of a nil error, and panics (`fu.go:92`).
* `brev open` reports an error for an instance although the editor opened
  (`OpenOnInstance`).
* A search whose output is empty leaves create with the default types, not with none.
* A clone whose checkout fails leaves a directory that the next form of the URL,
  and the next set-up, take for a success (`setupworkspace.go:1148`).
* Of several collected errors only the last is reported, because
  `multierror.Append` gets one argument (`setupworkspace.go:366`, `util.go:111`).

Outside the models: `brev org set` under an API key announces an organization that
does not become active, because the key pins another (`org/set.go:81`,
`store/organization.go:67`; `brev set` refuses).

## 4. What is proved

`tlapm` checks these from the modules alone; the only assumptions are the named
ASSUMEs on the constants, which TLC evaluates in the runs. Each proof module has a
type invariant (`TypeOK`), a strengthening that is inductive (`IInv`, a conjunction
of named parts), a lemma per action that it is preserved, and the theorems.

* `GPUCreateProofs` - for every `Count`, `Parallel`, `NTypes`, `PollBudget`:
  `TypeOK`, `WithinCount`, `OneRequestPerIndex`, `NoUntracked`, and that the command
  implements `Provision`: each step of the chain, of a worker and of the server is a
  step of the abstract command or leaves it alone. `WithinCount` counts
  acknowledged, in-flight and queued instances over all types. It is not inductive by
  itself: between types its second part vanishes, so `Control` records which
  variables are at rest at which `pc` (no worker is busy and nothing is in
  `successes` outside "create"; what `all` holds at "verify"; why the chain was
  left). The pool argument is about cardinalities: a worker that takes an index
  moves one from the queue to the busy set, a success moves one from the busy set to
  the list. `OneRequestPerIndex` is strengthened by `Exclusive`, which also says
  that what this type gave was taken from the queue before; `NoUntracked` is
  inductive given the above.
* `GPUCreateProofs`, second part - the same command's front end, `SearchPipe`: for every
  alphabet, listing and flags that `InputsAssumption`
  allows, `PipeKept`, `DiskHonoured`, `TriedInOrder` and `PipeOrFlags`. `PipeInv` says
  where each thing comes from: what search printed is a sorting of the rows it
  found, what create tries was read of that, or is a sorting of its own rows, and
  each request is of a type it tries. The four are properties of the
  operators then. `NthPlace`: the lines at some places are each there once, in order,
  because ranks grow and are as many as the places; `ReadGrepped` puts two such
  selections, grep's and the parser's, after each other, and shows that a first line
  that looks like a header is the first line grep left. `RoundedGrows` and
  `RoundedWhole` carry a disk through both roundings; `DiskBetween` has the case of a
  disk that rounds to none and gets the default. The assumption is needed: an API
  whose smallest disk is larger than its largest breaks `DiskHonoured`, and grep over
  JSON leaves text the parser takes for a table, which is not modelled.
* `NodeSSHAccessProofs` - for any processes, users, ports, keys and files: `TypeOK`,
  `StrangersKept`, `KnownGrantHasKey`, `KeyBeforeGrant`, `StrayTagsExcused`, and that
  with one process nothing ever crosses and no file is read truncated. For the
  strangers the invariant is `StrangersAgree`: until the file is torn, what any session
  that is editing it has read has the strangers' lines of the start, the file has no
  others, and it has all of them while none has it truncated. Writes in between may
  lose lines of users, never of strangers, since nobody writes those. For the tags it
  is `Tracked`: of tags that did not cross, sessions that edit the file read the same
  (`TagsAgree`), and what is granted, or being asked for, is in the file and was read
  (`Present`). These are not inductive without `Adding` (a session that may roll back
  has added a line), `Unconfirmed` (of a tag whose grant devplane has not confirmed),
  `Apart` (two sessions of one tag have crossed) and `Owned` (a tag without a grant
  belongs to a session that added it, or is excused). The steps are taken by what they
  do to the file - leave it alone, read, truncate, write, end - and a step of one session
  is a step beside any other (`Beside`).
* `NodeRegistrationProofs` - for any number of overlapping processes and registrars:
  `TypeOK`, `KeysOutliveNode` and `FileOutlivesNode`. `KeysOutliveNode` alone is not
  inductive: a session that found the key already there will not remove it, so it
  cannot be the one that accounts for it. `KeysAccounted` speaks of sessions that
  added it; `Issued` and its relatives say that identifiers still to come occur
  nowhere; `Gone`, that a clean-up begins after its node is removed; `Fresh`, that a
  node between AddNode and Save is nobody else's, so that no deregistration can
  remove it in between. Under `Sole` (at most one registrar, beside any number of
  enable-ssh processes), `NodeTracked` and `CleanupAfterRemoval`: `Clear` and `Loaded`
  say that what the registrar found when it started still holds when it acts,
  `Lost` that nobody knows a node whose answer was lost, so a clean-up finds no keys
  of a live one. From the same invariant the machine implements `NodeLife`: that only
  the registrar can be saving makes what is held at most one node, `Clear` that a node is
  added only to a machine that keeps none, `Loaded` and `Gone` that the file which is
  deleted is of a node that is gone. `Sole` is needed: two registrars that both find no file register
  the machine twice.
* `SessionProofs` - for any processes and logins: `TypeOK`, `LogoutHolds`, `Renewable`,
  `KeyStays`, `PromptNeeded`. `Issued`: a session still to come is nowhere. `OwnLogin`: a login in
  the making is held by one process and is not in the file, so a write of another
  cannot be of it. `HeldHolds` and `HeldRenewable` carry the invariants over to what
  processes have read. `RightIssuer` ties a session that lasts to the provider its
  token names, and `SetUpRight` a process nobody overtook to the provider of the
  file; together they leave no way to the prompt while the session lasts. The same
  invariant makes the file the cell of `Credentials`: a process that saves (`RenewsTokens`)
  or ends its login (`OwnLogin`) writes what it holds, without a key.
* `SSHConfigProofs` - for any commands, refreshes, daemons, instances, nodes and
  lines: `TypeOK`, `UserLinesKept`, `HostEntryUpToDate`. `Entry`: what a command that
  saw its instance up has listed includes the instance, and what it wrote is still
  there while nobody else wrote. `Inclusion`: after a refresh got through, the Include
  is there, unless lines were torn from the file. `Kept`: what a process is about to
  write back has the user's lines, with the same exception, and no Include - which is why a second one is never added, however refreshes overlap.
* `ConnectProofs` - for any instances, nodes, names and retries: `TypeOK`,
  `PipedNamesReached`, `EntryBeforeSSH`, `NotRunAgain`, and that the commands implement
  `NameBatch` but for kills and the panic of `StartGone`, which end it where it is. The commands differ in
  their `Path`; `StepsOf` says which steps each goes through, and the lemmas on `Leads`
  and `FollowsFrom` which can follow which. On them rests `Fresh`: from `Awaited` on,
  the refresh waited for was started with the instance up, so it lists it. `Ran`
  bounds how often the command has run by now, `Counted` gives each name one place in
  `reached`.
* `LifecycleProofs` - for any instances, names and lengths: `TypeOK`, `PipedNamesServed`,
  `OthersUntouched`, and that each command implements `NameBatch`. `Progress`: as long as nothing failed, the names
  before this one went well, in order, and the server accepted a request for
  each. `Owned`: where the target of a request comes from, back to what a listing
  showed.
* `WorkspaceSetupProofs` - for any repositories, scripts, extensions, URL forms and
  plans: `TypeOK`, `SuccessIsTrue`, `EveryoneTried`. `Noted`: a failure is in some error
  variable that is still to be tested (the loop's, `err`, `setupErr`), unless the race lost it;
  `Blamed` and `CodeNoted` the same from the tests' side. `Cloned` and `Attempts` say what the
  loops have left, or had when a script's panic ended them.

Only model-checked: liveness (`Terminates`, `SessionsEnd`, `CommandsEnd`,
`ConfigsConverge`, `BatchEnds`, `SetupEnds`, `ConnectEnds`, `PipeEnds`), because ENABLED and
fairness are out of the prover's reach. Every invariant, action property and
refinement of the runs is a theorem.

## 5. What is not modelled

Formatting, prompts and progress output, flags that only select data, and
anything that is one call or one child process (port forwarding, upgrade, the
editors themselves). Sleeps are not modelled: a deadline is a bound on the number
of polls or an action that may come at any time. The server is modelled by what
the client can observe of it. Contents of keys, tokens, scripts and configuration
entries are abstracted to identity; a text filter is the set of names it matches.

Of parts with state: the cache of the active organization (one name in one file,
last write wins); the WSL copies of the SSH files and the private key file (written
after the rest, read by no modelled command); the old `ssh.go` configurer and the
workspace managers (no command constructs them); analytics (the queue is a
library's). Environment variables and dependency merging are text to text, which unit
tests reach. Each component left out is in `PROJECT.json` with the reason.

## 6. What could come next

* `NodeSSHAccess` under a lock around each read and write, as a design to compare the
  code with: `crossed` would then hold only pairs of sessions for one tag.
* `Connect` on top of `SSHConfig`'s files instead of its own two-step refresh.
* Labels and the parameters of a launchable in `SearchPipe`'s requests.
