# Verification of LinuxTracepoints-Go

TLA+ models of the parts of this repository that keep state, share it between
goroutines or processes, or must read back what they wrote; TLC configurations
that check them on small instances; and TLAPS proofs of the central results for
every value of the constants. `PROJECT.json` holds the same information in a form
for tools: the components, the runs, the mutants that show each property can fail,
the map from definitions to source lines, the findings, hazards and theorems.

## 1. The system

The repository writes and reads Linux tracepoints from Go.

| Part | State it keeps | Operations | Used by |
|---|---|---|---|
| `userevents` (`userevents_linux.go`) | `File`: descriptor, state, set of registrations, `closeDone`; `Registration`: mapped enable word, a 64-bit word with two state bits and the count of running operations, `closeMu`/`closeCond` | Register, Delete, Enabled, Write, Writev, Registration.Close, File.Close | `eventheader` |
| `eventheader` providers (`provider.go`, `eventset.go`, `event.go`) | `Provider.mu`, provider state, cache of event sets by (level, keyword, group) | EventSet, EventSet.Close, Provider.Close, EventSet.Write, Event.Write, WriteIfEnabled | applications, generated code |
| `eventheader` wire format (`builder.go`) | metadata and payload bytes, open structs with child counts, activity | Reset, SetActivity, fields and arrays, BeginStruct, EndStruct, Encode | EventSet.Write |
| `eventheader` schemas (`schema.go`, `binding.go`) | immutable metadata and plan; a binding's position and payload | NewSchema, typed writers, Reset, Complete | Event.Write, generated code |
| `eventheader/decode` | parsed field tree, stack of pending tasks, payload position, transition count | parse, Start, Next, Decode | `perfdata`, applications |
| `perfdata` | position, buffer, clock, descriptors, formats, terminal error; merge: one lookahead per reader | Open, OpenPipe, Next, Close, Merge, MergedReader.Next | applications |
| `tracefs`, `tracepoint` | none; a parsed format is shared by all records of a tracepoint | ParseFormat, Decode, UnixNano, CloneRecord | `perfdata` |
| `cmd/eventheader-gen` | the files of a package with their build constraints; the output file, a lock file, temporary files | loadPackage, checks, analyze, render, Write | developers, CI |
| generated writers | one event, a binding, scratch and backing slices kept from write to write | NewXWriter, Write, WriteFunc | applications |

How they interact: an `Event` checks its `EventSet`, which checks its
`Registration` (a lock-free read of memory the kernel writes), and then calls
`Writev`, which counts itself in and out of the registration; `Provider.Close`
closes every cached set and then the `File`. The bytes an event set writes reach
the decoder through the kernel and a perf.data file, under the tracepoint name of
the set. Generators run as independent processes and meet only in the file system,
together with editors that know nothing of their lock.

What is hard here: releasing memory that other goroutines and the kernel still
use; retries after a system call failed half way; waits with a lock given up;
results that must tell a closed set from a disabled one; counts patched into
metadata after the fact; decoding bytes of any origin without leaving the buffer;
slices that a writer reuses for the next event; formats whose lines state type and
size separately; code that is checked in one build and compiled in all of them;
borrowed buffers across a lookahead; arithmetic at the ends of a word; replacing a
file that somebody else may change between any two system calls. Each of these is
listed under `hazards` in `PROJECT.json` at its line, with the properties that
would notice it going wrong.

## 2. Modules

| Module | Models | Extends or instantiates |
|---|---|---|
| `UserEvents` | File and Registration | instance of `SafeRelease` |
| `SafeRelease` | abstract: what a File promises about its resources | |
| `UserEventsProofs` | proofs about the two above, refinement included | `UserEvents` |
| `Provider` | Provider, EventSet, Event | |
| `ProviderProofs` | proofs about it | `Provider` |
| `WireFormat` | field definitions, values as bytes, extensions | |
| `Producer` | what builder and binding share: limits, activity extensions | `WireFormat` |
| `Builder` | `builder.go` | `Producer` |
| `Schema` | `schema.go`, `binding.go`, the checks of `Event.Write` | `Producer` |
| `Enumerator` | `decode/parse.go`, `enumerator.go`, `decode.go` | `WireFormat` |
| `EnumeratorProofs` | proofs about it | `Enumerator` |
| `GenWriter` | the generator's analysis of Go types, and the writer it renders: preflight, scratch, binding | `Schema` |
| `TraceFormat` | `tracefs`: field lines, ParseFormat, Decode | |
| `Tracepoint` | a tracepoint of the kernel, its format file and records, and `decodeSample`'s use of them | `TraceFormat` |
| `TracepointProofs` | proofs about the two above | `Tracepoint` |
| `EventPath` | composition: builder, binding or generated writer, the sample of the tracepoint, the decoder; also events of any origin and other tracepoints | `Builder`, `GenWriter`, `Enumerator`, `Tracepoint` |
| `BuildConstraint` | build constraints as sets of conjunctions, their evaluation over targets, features and tags, file name suffixes | |
| `GenPackage` | the checks of `Generate` from loadPackage to render | `BuildConstraint` |
| `GenPackageProofs` | proofs about the two above | `GenPackage` |
| `PerfClock` | `clock.go`, `Timestamp.UnixNano`, with word width | |
| `PerfMerge` | Reader.Next and MergedReader | `PerfClock` |
| `PerfMergeProofs` | proofs about the two above | `PerfMerge` |
| `PerfRecords` | layout of samples and of other records: as the kernel writes them, as `records.go` reads them | |
| `PerfMetadata` | `addDescriptor`, features, formats, sample and suffix lookup | `PerfRecords` |
| `PerfMetadataProofs` | proofs about it | `PerfMetadata` |
| `OutputReplace` | `generator.Write`, the lock and the replacement on Linux, Windows and elsewhere | |
| `OutputReplaceProofs` | proofs about it | `OutputReplace` |
| `MC...` | instances for TLC: symmetry, input sets | |

Operators named in comments as mutants are wrong variants of the definition that
follows them. They are used by no specification; replacing the definition by its
variant makes the property named in `PROJECT.json` fail. Modules with theorems reach
no RECURSIVE operator; `Schema` and `GenWriter`, which have some, are only used by TLC.

### UserEvents

A registration is `state` and `active` (the packed lifecycle word), `closeMu`,
`mapped` (the enable word exists) and `registered` (the kernel holds its address).
The file is `fstate`, `ffd`, `fdOpen` and `regs`. A critical section of `File.mu`
contains no blocking call and takes no other lock, so each is one step; `closeMu`
is held across system calls and is modelled by its owner. Each system call is a
step of its own that may fail: unregister, munmap, register. Writers call
Enabled, Write and Writev; owners call Register, Registration.Close and File.Close.
The active count is decremented modulo `ActiveLimit`, the stand-in for 2^62. The
wait on `closeCond` gives up `closeMu` and takes it back in separate steps.

`SerialClose = TRUE` restricts callers to at most one Close call per registration
at a time. The code's comments do not ask for this; section 4 shows why the model
needs it.

`SafeRelease` states what users of a file rely on: an item is acquired only while
it accepts work, is unregistered only when nobody uses it, its memory is released
after that, and the descriptor is closed last. `ImplementsSafeRelease` is the
refinement, with locks, counters, snapshots and retries as stuttering steps.

### Provider

`EventSet` holds `Provider.mu` across the Close of a set it replaces, and
`Provider.Close` across all of them. What a Close waits for is modelled: each
registration has its `closeMu`; an operation is in flight from its acquire to its
release (`Using`); `LockClose` sets Closing, `Drain` gives up `closeMu` while
operations are in flight, the last of them notifies (`Release`, `Notify`), and the
closer takes `closeMu` back (`Relock`), all of it with `Provider.mu` held unless the
caller is a user's `EventSet.Close`. Nothing restricts who calls Close when: a user's
Close may find the Closing of a Provider call that waits, as in finding 1. The word is
freed then under an operation in flight; the model lets the operation read anything
(`Reads`) and records it in `seen`, and leaves out that the read may crash. The load of
the enable word and the release after it are one step, and so are unregister and
munmap when both succeed; `UserEvents` has them apart. The kernel's enable bit changes
at any time (`Collector`, external).

`CallsReturn` says what can be relied on: every call returns, unless its Close was
overtaken in this way, or it wants the `Provider.mu` that an overtaken Close holds.
Writes always return. The first exception needs two Close calls of one set that overlap
while a write is in flight or has just ended; the second, that `Provider.EventSet` or
`Provider.Close` made the first of them and a user's `EventSet.Close` the second.

A generated `Write` checks `Enabled` itself and, for a disabled event, calls
`Event.Write` with a nil binding to let it choose between ErrClosed and ErrDisabled. If a collector attaches between the two checks, that nil
binding is looked at, and the caller gets ErrInvalidValue for a valid value, against
`eventheader/errors.go:10` ("ErrInvalidValue indicates an invalid enum, count,
activity, or field value"). `HonestErrors` states exactly this: it happens only if
the event was seen both off and on during the call, or its registration was freed under it.

### Wire format

A field definition is a record (encoding, array kind, fixed count, child count,
tag present); its metadata size is computed, its name is not kept. Values are
bytes, with real little-endian 16-bit lengths and counts, so that payload positions
are as in the code. The recursive descent of `parseField` and the task stack of
the enumerator are explicit stacks. `EventPath` records every field added in
`script` and compares it with what the decoder delivers.

An event comes from a builder or from a binding. `NewSchema` flattens a tree of
definitions into metadata and a plan; a binding then accepts the values in the
order of the plan, and nothing else, until it is complete or reset. A binding is
used with the event of its schema or of another one, as a caller might. What the
fields mean (`Meant`) is computed from the tree of definitions and the values, by
another route than the metadata, and the round trip compares with that.

`EventPath` puts the parts in a row. The tracepoint's format is parsed first
(`Describe`); a producer's event is the raw data of a sample behind the common
fields, and `Deliver` is `decodeSample`: decode the ordinary fields, recognise the
first field `eventheader_flags`, and hand what is behind its offset to the decoder.
The producers share no state, so a behaviour has one of them. The generated writer
goes on with its next event when the reader is done (`NextEvent`), any number of
times; the others end with their event. Two more origins share the reader: events of
any origin, whose metadata no producer of this repository would write (`Arrive`), and
tracepoints that are no EventHeader events (`Trace`).

### GenWriter

A Go type is a record after go/types: basic, named, slice, array, struct, pointer;
`Underlying`, `ConvertibleTo` and `AssignableTo` are external. `analyzeType` and
`analyzeArray` decide the wire kind of a field, whether it is passed as it is,
converted element by element into scratch, or copied into a backing slice, and
`runtimeDefinition` gives the schema, which is checked by `NewSchema` of `Schema`. A
writer is the schema's binding, one scratch and one backing slice per field that
needs them, with their capacity and the cells behind their length. A write is the
preflight (`StartWrite`), one step per field (`BindField`) and the write itself
(`Emit`); the value may be refused at each. Types are checked for all combinations of
the types and encodings in `MCEventPath`, values are written for five structs that
use every kind of scratch.

### TraceFormat and Tracepoint

A line of a format file is its declaration as tokens, and its properties; the
tokenizer, `attributes` and the splitting into lines are not modelled. What matters
of a type's name is which words it contains (`Within`), because `classifyType` looks
for "long", "short" and others anywhere in it. `KernelLines` and `KernelRecord`
describe a tracepoint the way the kernel does, from a list of members, for either byte
order and size of long; `ReadsTracepoint` compares what `Decode` makes of a record
with the members, in the same order and with the same values. `AcceptedDecodes` goes
through lines of any origin: a field of a fixed size that ParseFormat accepts decodes
from every record that holds it, unless its array is longer than Decode's limit.

Two remarks from reading the code. The substring search makes ParseFormat refuse a
field such as `struct longhaul x` of 12 bytes, whose type contains "long", although
other unknown structs become opaque fields; parseTracingData then refuses the file.
And the test of `field.Location` in `decodeDirect` is dead, since `decodeLocation`
clears it before the call.

### BuildConstraint and GenPackage

A constraint is a set of conjunctions of literals. `evaluate` enumerates targets,
feature profiles and assignments of custom tags as the code does, with its limits on
the number of tags lowered (`MaxImpliesTags`, `MaxOverlapTags`), beyond which the
code answers on the safe side. Which files a build includes is external and written
separately from go/build (`Included`, `Holds`, `goodOSArchFile`), so that the checks
are compared with it and not with themselves. A behaviour takes one package, host
and output name through the checks of `Generate` in their order. `Compiles` and
`WriterPresent` are about every build, `Justified` about the refusals: there is a
build in which the two declarations meet, or come apart, or the output is missing,
unless there are more custom tags than the code looks at.

Left out: names with a second dot (`x_linux.pb.go`, which go/build cuts at the first
dot and `filenameBuildConstraints` does not), systems and architectures missing from
the code's tables, the old `+build` syntax, `-tags` that name a system, and
`-output=-` for `Compiles`, where no file name takes part.

### PerfMerge

One goroutine owns the readers, as `merge.go` demands. An input is a sequence of
framed outer records: data with a timestamp, metadata that changes nothing,
attributes and CLOCK_DATA that change the reader's clock, and malformed ones. A
Next call takes one step per outer record. `buf[i]` names the record whose bytes
the reader's buffer holds. `given` is the set of readers whose offset the caller of
Merge supplied; for the others Merge copies the offset their clock has then.
`OffsetOfClock` says that the copy stays true to the reader's clock whatever metadata
comes later, except CLOCK_DATA: a pipe that delivers it after Merge changes the reader
and not the merge. `EOFWithData` says whether the `io.ReaderAt` returns
io.EOF together with a full read that ends its source, which the interface allows.

### PerfMetadata

A `Reader` is the descriptors, the index by perf ID, the formats, the count of
metadata and the layout flags. A seek-mode file adds attributes and features in
the order of `parseSeekHeader`; records add them at any time while reading. The
bytes of sections and attributes are not modelled, the bytes of records are:
a record of the kernel is a sequence of 4-byte cells, each of which remembers the
field it belongs to, and `Matches` says that every field was read from the cells
of that field. The writing side is external, after the order that `parseSample`
and `applySuffixLayout` read. Records come whole or with their last cells missing.

### OutputReplace

The output path, a temporary name per generator and the flock; a file is an
identity and a content. Each system call that another process can observe is a
step. `newest` is a history variable: the content somebody last meant the output
to have. Editors (`Edit`) and the death of a generator (`Kill`) are external.

The platform is chosen once per behaviour. On Linux the output and the temporary file
are exchanged, checked and exchanged back. On Windows the target is opened and locked,
compared with the path, and replaced by ReplaceFile with a backup name; ReplaceFile
may fail before or after it has moved the target, and reading a file through another
handle may fail while it is locked (`Unreadable`, nondeterministic), which the code
reports as a concurrent modification. The rollback goes on as long as it displaces
versions it does not know, up to the limit (8 in the code, `RaceLimit` here), and then
keeps its files. Other systems have no exchange, and refuse to replace a file. Editors
that write through a descriptor they hold open are not modelled, nor is a file that
is replaced by an identical one with the same identity.

## 3. Runs

| Run | Instance | What it shows |
|---|---|---|
| `userevents_safety` | 2 writers, 2 owners, 2 registrations, 2 faults | no unmapped word, unregistered event or closed descriptor is used; resources are released once and in order, and stay reachable until then; a nil Close result means released; refinement of `SafeRelease` |
| `userevents_live` | 1 writer, 2 owners, 1 registration, 2 faults | every Close returns |
| `userevents_overlap_unsafe` | as the first, overlapping Close calls | finding 1 |
| `provider_safety` | a writer, a user that looks up and closes sets, one that looks up sets and closes the provider; 2 keys, 2 sets, 1 fault; overlapping Close calls | no registration is lost from the cache or made twice; Close is complete; ErrDisabled is never returned for a closed set, nor ErrInvalidValue without a collector attaching during the call, unless the set's registration was freed under the call |
| `provider_live` | the same three, 1 key, 1 set, 1 fault | every call returns although `Provider.mu` is held while a Close waits for writes in flight and for users' Close calls, except behind a Close that was overtaken |
| `event_round_trip` | 6 builder calls, depth 2, 2 children; 13 trees of definitions; 5 generated writers that write again and again, 430 analysed structs; 90 tracepoints for 4 kernels, 620 field lines; any 3 definitions with payloads up to 6 bytes | decoding gives back what was added, bound or given to the writer, and refuses nothing that was encoded except for its limits; every accepted schema can be bound; a writer refuses only what is too large, keeps no stale or oversized scratch, and compiles; tracepoints are read as written and accepted fields decode; arbitrary events end well formed, the decoder stays inside payload, metadata and limits, and decoding terminates |
| `gen_package` | 3749 packages of 2 or 3 files, with every pair of placements of the event and of another declaration, 2 hosts, 5 output names, 4 targets, 4 custom tags | what is accepted compiles in every build and comes with its event; what is refused had a reason |
| `perf_merge` | 2 readers, up to 3 outer records each, words of 2 bits | stable time order, every record accounted for once, EOF only at the end, the offset of a merge stays that of the reader's clock unless CLOCK_DATA comes later, borrowed buffers intact |
| `perf_readat_eof` | 2 readers, up to 2 records | finding 3 |
| `perf_metadata` | 7 attributes, 4 lists of IDs, 2 descriptors, 3 IDs, 9 items of metadata | the accepted layouts do not depend on the order of metadata, the index agrees with the descriptors, formats are attached in every order, every record of a known attribute is read field by field as written, or refused for its limits or an unknown read format |
| `output_replace` | 2 generators, 2 edits on Linux, 3 on Windows, 1 elsewhere, 1 fault, 1 kill, 2 rounds of rollback | no version is lost; a commit over an edit is undone; no false alarm; the Windows rollback gives up only after as many races as its limit |
| `output_third_edit` | 2 generators, 3 edits | finding 2 |

Bounds. Two goroutines on each side give every race of the code: its decisions are
pairwise (one closer against one operation, one File.Close against another, a
close against a registration), and two faults reach a failed unregister followed
by a failed munmap, and a retry that fails again. In the provider's runs three
goroutines are needed: an operation in flight, a Close that waits for it with
`Provider.mu` held, and the one that overtakes it; `MCCalls` gives each its calls so
that Close calls of all three callers overlap in pairs. Two sets for two keys allow a
set to be replaced, and a Provider.Close in which one of two sets fails. Depth 2 and 2 children meet
the depth and child limits of the builder, whose constants are lowered for this,
and the fields of a nested struct next to those of its parent. Three definitions
are enough for an array of structs with a missing child. With `MaxInt64 = 1` every
branch of `UnixNano` and `signedDifference` is taken, and the proofs cover every
other width. Metadata of 32 and events of 44 bytes lie on both sides of the smallest
refused tree and of the values that writers are given; scratch slices of 0, 1, 3, 20
and 24 elements follow each other in every order, so that each grows, shrinks, is
reused and is refused. Pairs of members of a tracepoint put each kind of field before
and behind each other. The placements of files include systems with a family (android
is linux, and unix), features of an architecture that are levels, and one unknown to
the tables. Two edits displace a version in each window of the replacement once;
the third is finding 2. Three edits exhaust a rollback of two rounds on Windows. The attributes of `perf_metadata` are chosen in pairs that
agree and that do not: with identifiers and different suffixes, with the ID at
another offset or at the same offset without identifier, without an ID, without
sample_id_all, with an unknown read format. Two descriptors and a list of four IDs meet the limits in the
middle of a call, and call chains and groups of 1 and 3 lie on both sides of their
limit. Two names are enough for a conflict; they are symmetric.

Fairness. A call that has been started goes on: strong fairness of the steps of
each goroutine, because sync.Mutex hands a lock to a waiter that has waited too
long, so a lock that is free again and again is obtained. Starting a call is never
fair, nor are edits, faults or the collector. The decoder runs in one goroutine
and has weak fairness. Deadlock is checked in all runs except those whose system
ends (the event was read, the generators have returned, the package is accepted or
refused, the reader has failed) and those of the provider, where a Close that was
overtaken can leave everybody waiting. The runs take up to three minutes on two
workers.

## 4. Findings

1. `userevents_overlap_unsafe` (`userevents_linux.go:432`): a Close that waits for
   operations gives up `closeMu` with the state at Closing. A second Close takes
   that for an earlier failed munmap, skips the drain and the unregister and unmaps
   the word while an operation and the kernel use it, although the comments promise
   serialized Close calls. Callers need not call Close twice themselves:
   `Provider.EventSet` (`provider.go:149`) and `File.Close` close registrations that
   a user may be closing. In the same situation the first Close can wait for ever
   (`userevents_linux.go:445`), and every File.Close behind it: with overlapping
   calls `userevents_live` fails too. If that first Close was called by
   `Provider.EventSet` or `Provider.Close`, it waits with `Provider.mu` held, and
   every later call of either waits behind it: `provider_live` fails for
   `pc[u] # "idle" ~> pc[u] = "idle"`, and holds for `CallsReturn`, which excepts
   exactly this.
2. `output_third_edit` (`outputreplace_linux.go:69`): the exchange that puts a newer
   version back after a rollback is not verified; a third edit in this window ends
   at the temporary name, which is then deleted.
3. `perf_readat_eof` (`perfdata/open.go:303`): `readAtFull` passes on an io.EOF that
   comes with a full read; wrapped in a DecodeError it still satisfies
   `errors.Is(err, io.EOF)`, and the last record is silently dropped.

## 5. Proofs

`tlapm` checks all of the following, for any number of goroutines, registrations,
readers and faults, and any inputs.

`UserEventsProofs`. Assumptions: `UserEventsAssumption` (finitely many writers,
fewer than the counter holds) and `CloseDiscipline`, that callers do not overlap
Close calls of one registration or that no operation runs. The second cannot be
dropped: finding 1. The safety properties are not inductive; `IInv` is
their strengthening:

- `LockInv`: `closeMu` belongs to the goroutine between Lock and Unlock;
- `SerialInv`: a closer that gave up `closeMu` to wait is alone with its
  registration (this is where `CloseDiscipline` enters);
- `PhaseInv`: what a closer may assume at each point, for example that at munmap
  the word is mapped and the kernel no longer has its address;
- `ResourceInv`: what the lifecycle state says about memory and kernel, and that a
  state Closing with the address still registered has a closer at work, which
  separates a Close in progress from a failed munmap;
- `FileInv`: one goroutine closes the file; while no error was seen, what is in
  `regs` is still in its snapshot, so nothing is tracked when the descriptor goes;
- `ReturnInv`, `TargetInv`, `TypeOK`, and `ActiveExact`: the count equals the number
  of operations in flight, which needs cardinalities of finite sets.

From it follow `TypeCorrect`, `KernelMemoryIsSafe`, `OperationsAreProtected`,
`ReleasedOnceInOrder`, `CleanupStaysRetriable` and `CloseOkMeansReleased`.
The same module proves `Implementation`: initial states map to initial
states and every step to a `SafeRelease` step or a stutter, given `IInv`.

`PerfMergeProofs` first proves that `UnixNano` and `signedDifference` return the exact
integer result just when it is a signed word, for every word width (`UnixNanoExact`,
`SignedDifferenceExact`); so no intermediate conversion wraps, also for the
smallest offset, whose magnitude is not a signed word. Then it proves `BorrowSafety` with the invariant that a reader is advanced
only by a direct Next before Merge, or by a merge for which it has no head.
The invariants of the order relate what a merge holds to the
inputs: `HeadInv`, a head is the last record its reader consumed, and its time is the
exact absolute time; `FillInv`, the readers that the fill loop has passed have a head or
are done; `OutInv`, what was returned or rejected lies before the reader's position, and
before its head if there is one; `ClockInv`, a clock with an offset has an ID, so that
attributes leave it alone; `DoneInv`, only a reader at its end is done; `OrderInv`, what
was returned comes before every head and before everything still to be read of a reader
without one. `RecordsAreAccounted`, `OffsetsAreOfClocks` and `MergeIsSorted` follow for
any number of readers, inputs and offsets; the order rests on `UnixNanoExact`.
`EOFIsComplete` assumes `EOFWithData = FALSE`, which cannot be dropped: finding 3. Of
the inputs `MergeAssumption` asks only that they are sequences of outer records.

`PerfMetadataProofs`. Assumptions: an attribute says whether it has `sampleIDAll`, IDs and
format IDs are naturals, limits are naturals. The loops of `addDescriptor` and
`parseTracingData` are recursive functions over the position in a list; what they keep
is proved by induction on that position, in the form that a set of naturals with 0 and
every successor is all of them (`SetInduction`, from the least element of its
complement). The invariant `Inv` has three parts. `Index` is `Indexed` with the types it
needs, and each call keeps it even when it fails half way: an ID is added to a descriptor
and to `byID` together, and only to the one owner that `owning` found. `Summary` says
what the layout flags mean: `noSampleIDAll` and `suffixLayoutSet`, which kinds of
attributes came; `suffixIDAll`, that all have an identifier; and `suffixMask`, the suffix
of one of them, and of all unless `suffixIDAll` holds. With it `layoutAgrees` fails just
when one of the attributes that came contradicts the new one. `Attached` is
`FormatsAttached`; it needs `NoneFalse`, that no attribute without a format has one
attached. `IndexConsistent`, `LayoutOrderFree` and `FormatsAreAttached` follow for any
attributes, lists, limits and order of metadata.

The last theorem of the module, `RecordsAreRead`, compares the kernel's records with the
reader's: `ReadsKernel` for any attributes, IDs, records and limits. It adds the
assumptions that the limits on values and call chains are positive (`RecordsAssumption`;
Open replaces 0 by a default and refuses negative ones) and that counts are naturals. The
writer (`Words`) and the reader (`u64Each`) are loops over the position in one list of
fields, so both are followed by induction on the position. `Holds` says that what the
kernel wrote lies at a position of the record; `Good`, that a cursor stands there, has
found every field it asked for and read the ID in each cell that has one. Every part
before the raw data has an even number of cells, hence its padding is what `alignUp`
skips. The two shortcuts, `sampleLookupOffset` and `resolveSuffix`, do not read the
fields in between: the position of a word is twice the number of chosen fields before it
(from the front) or behind it (from the end), which is a count of a set, and the set the
reader counts is the attribute's own because of `Summary`: the flags of a reader that was
told of an attribute fit it (`Laid`). The invariant `RecInv` says that a record is held
only until Next runs again, so that the reader it is compared with is the one that read it.

`EnumeratorProofs` takes the decoder by itself (`DecoderSpec`): any event whose header,
extensions, definitions and payload have the types that parsing bytes gives them
(`WireEvent`), one after the other, with any positive limits (`LimitsAssumption`). The
properties look at the position and at the finished items only, so `DecoderInv` says what
the stacks mean. `Grammar`: which task of Next may lie on which other. `FramesMatch`: the
end tasks on the stack are, in order, Decode's open frames and the open beginnings of the
items; hence an end always meets its own beginning. `ItemsMatch`: an array that is open
has received as many elements as its task says, a finished one as many as it announced.
`Depth`: there is a rank of the definitions, at most MaxDepth and growing from a struct
to its fields, and tasks lie no deeper than their rank allows; this bounds frames and
stack although Next itself has no check of the depth, only parseField has.
`DecoderBounded` (`Bounded`) and `DecoderWellFormed` (`WellFormed`) follow.

`TracepointProofs` proves `FormatsDecode` (`AcceptedDecodes`) for every description and
record, in `TracepointSpec`. Assumptions: positive limits and natural numbers in the
tokens (`TraceFormatAssumption`), and that records are bytes and common fields are
members (`TracepointAssumption`). The loop invariant of ParseFormat is that each
field it keeps is `Accepted`: the type it was classified as has a width of 1, 2, 4 or 8
bytes unless it is opaque, and its size agrees with width and array (`sizeAgrees`). That
is what Decode's own checks of a record ask for, whatever substring of the type's
name classified it.

`ProviderProofs`. Assumptions: `None` differs from the other values, and `Calls` gives
each goroutine a set of calls (all of them, in a program). `IInv` adds to the
properties which calls hold `Provider.mu` (`MutexInv`) and what the holder knows: the
state of the provider, and that the set it is closing is still the cached one
(`HolderInv`); that `closeMu` belongs to the goroutine that works inside a
registration's Close and not to one that waits, and that the state is Closing when it
releases the registration (`CloserInv`); that in a `Provider.Close` without errors every cached set is
still to be visited or being closed (`LoopInv`), and that a closed provider has none
(`ClosedInv`); that a set which was returned stays cached until it is closed
(`FoundInv`); that the file is closed only when nothing is registered with it
(`FileInv`); that an operation in flight on a closed registration knows that its word
was freed (`FreedInv`); and what a write has seen of the enable bit (`SeenInv`). From it
follow `NothingLeaks`, `CloseIsComplete`, `SetsAreShared` and `ErrorsAreHonest`, for any
number of callers, keys, sets and faults, and without a restriction on Close calls
that overlap. `WriteStepsEffect` says once what a step of a write leaves alone, for the
parts about closing; only the parts about results look at each of these steps.

`OutputReplaceProofs`. Assumptions: a limit of at least one round, and that `Absent`
differs from the other values. `RunInv` says which files a run has at its backup names at
each point; `LockInv`, that a run past acquireOutputLock owns the lock; `AlarmInv`, that
while nothing has changed the output behind a run's back, the run finds what it validated
at the output or where its commit moved it; `RaceInv` counts the edits that a run must
have met to be in a given round of its rollback. From these follow `LockExcludes`,
`AlarmsAreTrue` and `ExhaustedByEdits`, for any number of generators, edits, faults and
kills. `LatestSurvives` and `RolledBack` are no theorems: three edits break
`LatestSurvives` on Linux (finding 2), and with `RaceLimit = 2` a fourth edit breaks it
on Windows, where an editor writes the original content back into the file that the
rollback then removes as the one it knows. Both stay checked within the bounds of
`output_replace`.

`GenPackageProofs`. First, `EvaluateIsGo`: a tag holds in a build of the go command just
when `evaluate` says so for the build's target, features and tags, and `NameIsGo`: the
constraint taken from a file name holds just in the builds for which `goodOSArchFile`
accepts the name. Hence every build is among the assignments that are searched, and
every assignment found is a build: `ImpliesIsSound`, `OverlapIsComplete` and their
converses up to the limits on custom tags, `ImpliesIsComplete` and `OverlapIsSound`.
The invariant `Inv` says that a package which has reached a stage passed all checks
before it, and that one that was refused fails the check that refused it; it is needed
because the properties only look at the result. Then `AcceptedFits` (`Compiles`),
`WritersArePresent` (`WriterPresent`) and `RefusalsAreJustified` (`Justified`) hold for
any packages, hosts, outputs, targets, tags and limits. Assumptions: `TargetsAssumption`
(no name is both a system and an architecture, `unix` is neither, and linux, solaris and
darwin are listed with android, illumos and ios, as in the code's table),
`NamesAssumption` (a file name has a first part), `HostsAssumption` (the host's build is
a build) and, for `Justified` only, `PackagesAssumption` (any custom tag of a package may
be passed with -tags, and tests do not import C, which the go command refuses).

Only model-checked: everything about liveness (outside this prover's reach, like
ENABLED); `RoundTrip`, `Bindable` and the properties of the generated writer
(`RefusedTooLarge`, `ScratchKept`, `WriterTypechecks`) with the `TypeOK` of `EventPath`
that goes with them: their schemas and Go types are trees, defined and compared by
RECURSIVE operators, which would need induction over data; `ReadsTracepoint`, which
compares `Decode` with a writer whose members refer forward to dynamic data of other
members; `LatestSurvives` and `RolledBack`, as said above.

## 6. Not modelled, and the plan

Not modelled for good: the formatting and parsing of commands and tracepoint names,
the search for the tracefs mount, ioctl numbers, the interpretation of values by
display format (`decode/value.go` from line 101), the tokenizer of tracefs
declarations, the text of struct tags and options (`parseTag`, `checkFormat`), import
names and layout of the rendered file, net and netip addresses and ports, constants in
array lengths, main.go's flags, accessors, stubs for other systems, fixtures other than
the generated writer. They are stateless translations of text or bytes that golden and
fuzz tests compare directly. The 65535 limits of single values are implied by the
limit on the event in the model's sizes. A mismatch of the long size in
`tracefs.Decode` can only come from a caller outside this repository: `perfdata` passes
the size the format was parsed with.

Next, in this order:

1. Abstract specifications of the Provider (at most one live registration per key)
   and of the merge (a sorted interleaving), with the detailed ones shown to
   implement them.
2. `PerfMetadata` and `PerfMerge` composed: a pipe whose attributes and clock data
   change while it is merged.
