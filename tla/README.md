# Verification of secrets-manager-go

TLA+ models of the Keeper Secrets Manager client in `src/core` (Go), model
checked with TLC, with the main results proved with TLAPS for every value of
the constants. All line references are to `src/`.

1. [The system](#1-the-system) — the inventory
2. [Modules and the code](#2-modules-and-the-code)
3. [What TLC checks](#3-what-tlc-checks)
4. [What is proved](#4-what-is-proved)
5. [Where the code and its documents disagree](#5-where-the-code-and-its-documents-disagree)
6. [What is not modelled](#6-what-is-not-modelled)
7. [Plan](#7-plan)

## 1. The system

A program creates a `SecretsManager` with a one-time token or with a
configuration from an earlier run. The first answered query *binds* the
device: the service registers the public key of a key pair the client has
generated, and hands out the application key, encrypted under the token. From
then on every query is signed with the private key, and the records and
folders of the answers are decrypted with keys that descend from the
application key. Four kinds of party act: the client process, which may stop
anywhere; the configuration it persists, which several processes may share;
the network; and the service, which other users change at the same time.

The library has no goroutines and no locks. What is concurrent about it is
the file system, the service, other clients, and the process before and after
a crash.

| Component (code) | State | Operations | Talks to | Hard behaviour | What makes it correct |
|---|---|---|---|---|---|
| Client lifecycle (`core/core.go` 56-259) | token options, `Config` | `NewSecretsManager`, `init`, `LoadSecretKey`, `GenerateTransmissionKey` | configuration storage: one write per call | a stop between any two of up to nine writes; tokens in code, environment and configuration that disagree | a bound configuration stays bound, to the key pair the service knows |
| Query loop (`core/core.go` 261-430, 703-893, 985-1137) | payload, configured server key id | `PostQuery`, `HandleHttpError`, `fetchAndDecryptSecrets`, `GetSecretsFullResponse` | service, cache, configuration | lost and late requests, key rotation, errors, binding and fetching again | the binding is adopted once and as a whole; what is returned was decrypted with its own key |
| Response cache (`core/cache.go`, `core/core.go` 739-763) | last good `get_secret` response | `SaveCachedValue`, `GetCachedValue`, `Purge` | query loop | an answer to another query, or of another identity, in place of an error; a write that fails or is cut off, a purge between two queries | no cached answer takes an identity away |
| Configuration storage (`core/storage.go`) | a JSON file, or a map | `ReadStorage`, `SaveStorage`, `Set`, `Delete`, `DeleteAll`, `Get` | file system | processes sharing a file with no lock; truncate and write; failing calls | a map, towards its one writer |
| Records (`core/dtos.go` 36-990, `core/core.go` 432-472, 1196-1234) | `RecordDict`, `RawJson`, `Revision` | get, set and change fields, `NewRecord`, `NewRecordClone`, `Save` | service, cache | two objects of one record, old answers, late requests; labels that look like types, shared slices | no change of others is undone; what is set is read back, and nothing else changes |
| Files (`core/core.go` 543-631, 1236-1343) | file references in the record | `UploadFile`, download | service, storage of files | two posts, each of which can fail or be done late; the whole owner record goes along | a reported upload is complete, a reference leads somewhere, uploads lose nothing but where they are known to |
| Folders (`core/core.go` 633-701, 895-983, 1502-1605) | the list of folders the program keeps | `GetFolders`, `GetSharedFolderKey`, create, update, delete | service | order of the answer, lists of any age, others moving folders | right keys only; what is written stays readable by all |
| Notation (`core/core.go` 1607-2374) | none (parser), the response cache | `ParseNotation`, `GetNotation`, `GetNotationResults` | `GetSecrets` twice | escaping, indexes, ambiguous records, cached answers | what is written is read; the record found is the one asked for |
| Record creation and deletion (`core/core.go` 474-541, 1345-1500) | none | `CreateSecret*`, `DeleteSecrets` | folders, records | folder keys of any age, others moving records and folders | whoever shares a folder can read what is created in it |
| Type catalogue (`core/record_data.go`) | none | constructors | — | none | — |
| Passwords, one-time codes (`core/utils.go` 343-734) | none | `GeneratePassword`, `GetTotpCode` | — | counts and boundaries, zero, negative and missing values | what is asked for is what comes out |
| Cryptography (`core/crypto.go`) | none | pure functions | — | padding, and data that is not padded | unpadding undoes padding; the ciphers are represented by what they guarantee |
| Helpers, payload types, constants, logger | none | conversions, output | — | none | — |

How they interact: `NewSecretsManager` and the query loop write the
configuration one key at a time through the storage; the query loop is the
only user of the cache; records, folders and notation are all answers of the
query loop, decoded; `Save`, `UploadFile`, `CreateFolder` and the others post
through the same loop.

## 2. Modules and the code

```
DeviceBinding <--implements-- SecretsManager
KeyValueStore <--implements-- FileStorage        ConfigMap: what both share
Records <--implements-- Files                    RecordFields
Folders <--implements-- RecordCreation
NotationParser <-extends- Notation
Padding, Totp, Passwords <-extends- PureFunctions
MC<X> extends <X> (MCRecords: Files, MCFolders: RecordCreation): sets and
      symmetries for TLC
<X>Proofs extends <X> and TLAPS: lemmas and theorems (FilesProofs: Records
      and Files, FoldersProofs: Folders and RecordCreation)
Recursion extends TLAPS: induction and recursive functions, for the proofs of
      Notation, RecordFields and PureFunctions
```

A token, a key or a text is a model value; encryption is the rule that data
decrypts under the key it was encrypted under and no other. Every definition
marked *Broken variant* is a plausible mistake in the action that follows it;
replacing the action by it breaks the property it is meant for. They are not
part of any specification.

**SecretsManager** is the client, the network and the service.
`pc` is the place in the code; each write of the configuration is an action:
`ArgsToConfig` and `CheckKeyId` are `NewSecretsManager` (core.go 134-151),
`RejectToken` to `SetPrivateKey` are `init` (172-233), in the code's order.
`PrepareGet`, `Send`, `ReceiveOk`, `UseCachedReply`, `SwitchKey` and
`PostFails` are a turn of `PostQuery` with `HandleHttpError`, `AdoptAppKey`,
`DropClientKey`, `SetOwnerKey` the three writes that follow a binding answer
(1004-1025), `Deliver` the decoding of the others and `Refetch` the second
fetch of a call that has just bound. With a cache a good answer is saved as it
comes (`Saved`: in full, not at all, or as an empty file), `UseCachedReply`
takes it where the query failed, and `PurgeCache` may come at any time.
`Crash` may come at every `pc`. A request
whose sender gave up or died is in `late`; the service may take it any time
later, or never. The service (external) registers the first public key it sees
signed for a client id, refuses other keys afterwards, and names its current
key where the client used another. Cryptography: client id `t` is the hash of token
`t`, app key `t` decrypts under token `t` only, a request is signed by a key
pair. With `Resends` the service sends the app key again to a device that
still sends its public key.

**DeviceBinding** is the promise: a token is redeemed once, a device binds
once, to the key pair registered for the token, and stays.

**FileStorage** is `fileKeyValueStorage`: `Probe`, `Create`, `WriteBraces`
are `createConfigFileIfMissing`, run before every read and every save; `Load`
is the read, `Truncate` and `Write` the two halves of `ioutil.WriteFile`. Every
one of these calls may fail. A `Stat` that fails otherwise than with "not
exist" is only logged and the file created all the same (`ProbeFails`), which
empties it if it is there, in a call of a reader too; who is on the way from
there to its braces is in the history variable `blind`. A creation that fails
is only logged (`CreateFails`), a read that fails gives an empty map that the
next write saves, a write that fails is only logged. Any set of processes that
change (`Writer`) or read (`Reader`).
**KeyValueStore** is the promise towards one writer: calls take effect one at
a time and as a whole; a failure takes everything or nothing (`Forget`), lets
a call go on from an empty map (`Misread`), or takes what is there later, when
a file that could not be tested for is created (`LateLoss`). It is also the
memory storage, with no faults. **ConfigMap** holds the maps and calls both
use.

**Records** is one record and several `Record` objects of it. What a record
holds is the set of changes that went into it, so a lost update is a change
missing. `SetValue` stands for the setters that call `update()`, `ChangeField`
for `InsertField`, `UpdateField` and `RemoveField`, which do not; `Save` sends
`raw` with the object's revision, `UploadFile` sends `dict` without.

**Files** makes an upload a call of two posts on top of Records: `StartUpload`
is `prepareFileUploadPayload` (the reference goes into the object) and the
first post, `ReceiveAddress` its answer, `PostContent` the store taking the
content, `Uploaded` and `UploadFails` the two ends. Each phase may be the last;
a first post that was given up can still be done (`TakeFile`).

**RecordFields** is one object with its fields, for what Records leaves out: a
lookup by exact type (`GetFieldsByType`), by exact label (`GetFieldsByLabel`)
or by either in any case (`fieldSearch`), the setters with the list each stores
(`[]interface{}` or `[]string`, and whose slice it is), `InsertField`,
`UpdateField`, `RemoveField`, the reference of an upload, `NewRecord` and
`NewRecordClone`, and `SaveAndFetch`, which makes the JSON the dictionary again.

**Folders** is `fetchAndDecryptFolders`, folder by folder: `StartClimb`,
`Climb`, `DecryptSubfolder` and `ParentUnknown` are the loop of
`GetSharedFolderKey`, turn by turn, and `Return` hands the list over; the answer comes in any order and may
leave shared folders out. `CreateFolder` and `UpdateFolder` use `held`, a list
as old as one likes; other users create, share, move and delete in between.

**RecordCreation** adds records to the folders: which folder key each of
`CreateSecret`, `CreateSecretWithRecordData` and `CreateSecretWithOptions`
takes, from a template, an answer (`fetched`) or a list of folders (`held`)
that may be old, `DeleteSecrets`, and what other users' moves and deletions do
to a record's place and key.

**NotationParser** is the parser, symbol by symbol; `UpTo` is
`ParseSubsection`'s scan, `SelectorSection` and `ParseNotation` the sections
and their checks. **Notation** is one call of `GetNotation` (`legacy`) or
`GetNotationResults`: lookup by uid, then by title, then the value by
`LegacyOf` or `ResultsOf`. The shared records may change between the two
queries (`ServiceChanges`), and either may be answered from the cache.

**PureFunctions** is one call of a computation that keeps no state. **Padding**
is PKCS#7 and AES-CBC around it, with any bytes for what a wrong key decrypts
to; **Totp** the parameters, the time step and the digits of a one-time code,
the HMAC being any number. Periods and numbers of digits are any integers, as
in the URL: division is Go's, towards zero (`Counter`, `Gone`), and
`uint32(math.Pow10(digits))` is what fits, nothing for negative digits, and
any `uint32` for a power that does not fit (`Moduli`), so `Codes` is a set; **Passwords** how many characters of each category
`GeneratePassword` puts into a password, the choice of each one left out.

## 3. What TLC checks

| Run | Instance | Shows |
|---|---|---|
| `lifecycle` | 2 tokens, 5 key pairs, 2 server keys, 4 faults, any token in code and environment at every start, no cache | `BoundIdentity`, `DeliveredReadable`, `KeyIdUsable`, `ImplementsBinding` |
| `liveness` | the same with a cache, the service repeats the app key when asked, the same token given at every start | `EventuallyBound`, `IdentityKept` |
| `file_storage` | 1 writer, 2 readers, 2 keys, 2 values, 2 faults of any call, the file in any state at first | `GarbledByFaultOnly`, `ImplementsStore` |
| `folders` | 3 folders, 1 record | `KeysFound`, `ReadableByAll`, `RecordsReadable`, `DecodingEnds` |
| `edits` | 2 objects, 2 edits, 1 file in two posts, 2 revisions, cache | `UploadsComplete`, `ReferencesResolve`, `OnlyStaleUploadsLose` |
| `fields` | up to 2 fields in all, of any type and label and in either section, up to 2 items | `ReadBack`, `OnlyThatField`, `UploadKeepsReferences`, `RemovesExactly` |
| `notation` | all labels of one or two symbols with every delimiter, five titles, five indexes, records twice, titles like uids, a change between the queries, cache | `WrittenIsRead`, `FoundIsAsked`, `SameValue` |
| `functions` | blocks of 2, messages of up to 3 bytes, moments next to the ends of steps, periods from below zero, codes in base 4 with a word of 5000, numbers of digits from below zero to beyond the word, every combination of four counts around zero | `RoundTrip`, `OnlyPaddingRemoved`, `CodeLastsTimeLeft`, `CodeIsLastDigits`, `PasswordAsAsked` |
| `env_token`, `field_edits`, `set_then_get`, `wrong_record` | small, or that of the run of the same module | section 5 |

Each run with states also checks the type invariant of its module.

**Bounds.** *Tokens*: two, for a bound configuration can only be confused
about "this" and "another" token. *Key pairs*: five. A start that makes a
pair runs until a crash, so four faults leave room for five such starts.
*Faults*: four, enough for a lost binding answer, a crash in the start that
follows, a rotation in the retry and one more crash; faults are not limited to
a phase. *Server keys*: two that the client knows and one it does not.
*Folders*: three, the least with a subfolder of a subfolder, and with one
folder moving between two shared ones; *records in folders*: one, deleted and
created again from answers of any age, since no step for one record depends on
the place or the key of another. The theorems hold for any number.
*Records*: two objects and two revisions let an object fall behind, catch up
and be overtaken; one file, since what happens to the posts of one does not
depend on those of another. *Fields*: two, the least where one hides the
other, as a duplicate, by its label, or by sharing its slice. *Notation*: what
the parser decides depends on a symbol and the one before it; two symbols with
every delimiter in both places give every such pair, next to the delimiters
the notation itself puts around a label. *Pure functions*: a block of 2 and a
base of 4 keep every case (a full block of padding, a code shorter and longer
than its digits), and a word of 5000 one with six digits and one whose power does
not fit; all five properties are also proved for every size.

**No vacuity.** Each property is broken by a mistake in the code it is about
(the *Broken variant* definitions): a dropped check in `init`, a response
adopted twice, a write over a file that is not looked at, a key of the wrong
folder. Together the runs take every action.

**Deadlock** is checked where something can always happen: the client
lifecycle, the file storage and the fields. It is off where the model really
stops: uids of folders and revisions run out (`RecordCreation`, `Files`), a
call of `Notation` is over.

**Fairness.** `SecretsManager!Fairness`: a process that runs takes its next
step; a program that stopped is started again, and calls `GetSecrets` again
when it failed (what a service that needs its secrets does; the library itself
starts nothing); the service answers a request that reached it. Each is weak
fairness. Nothing is assumed of faults but that they are `MaxFaults` in
number, and rotations of the key count as faults: rotated for ever, the
retries of `PostQuery` would never end, in the code as in the model.
`EventuallyBound` excepts a client id the service holds another device key
for (`Orphaned`): a late request of an earlier start did bind it, and the key
pair is gone. It does not hold if the token is not given again at a restart
(section 5), or if a service does not repeat the app key and its answer is lost
(`Resends = FALSE`). `RecordCreation!CreationFairSpec`: the decoding of an
answer goes on, a single-threaded loop.

**What the instances leave open.** With a cache `BoundIdentity` does not hold:
a binding answer of an earlier identity is adopted from the cache by a start
that has made a new key pair, and the configuration then holds an app key with
a private key the service does not know. `IdentityKept` is what is left; it is
checked with a cache and proved for both. With two writers, or with readers
that start while the file is being created, `ImplementsStore` does not hold:
updates are lost.

## 4. What is proved

Every theorem holds for all values of the constants, within the assumption
declared beside them and the one named here.

| Theorem | Under |
|---|---|
| `SecretsManagerProofs!TypeCorrect`, `KeyIdAlwaysUsable`, `IdentityIsKept` | — (with a cache and without) |
| `BoundIdentityHolds`, `BindingImplemented`, `ReadableAlways` | `UseCache = FALSE` |
| `FileStorageProofs!TypeCorrect` | — (any writers, any readers) |
| `OnlyFaultsGarble`, `StoreImplemented` | `OneWriter`: one writer, readers start when the file is there |
| `FilesProofs!TypeCorrect`, `SavesLoseNothing` (of Records) | — |
| `FilesProofs!FilesAreRecords`, `FilesTypeCorrect`, `UploadsLoseNothingElse`, `UploadsAreComplete`, `ReferencesAlwaysResolve` | — |
| `RecordFieldsProofs!FieldsTyped`, `SettersTouchOneField`, `SettersAreReadBack`, `UploadsKeepReferences`, `RemovalsAreExact` | every field has a type; any bounds `MaxFields`, `MaxItems` |
| `FoldersProofs!TypeCorrect`, `WritesReadable`, `KeysFoundInOrder` | `Folder` finite |
| `FoldersProofs!CreationIsFolders`, `CreationTypeCorrect`, `RecordsStayReadable` (of RecordCreation) | `Folder` finite |
| `NotationProofs!TypeCorrect`, `RecordAskedFor`, `ReadAsWritten`, `SameFromBoth` | what the service shares is finite; a symbol of a text is a word, a uid or a delimiter |
| `PureFunctionsProofs!PaddingUndone`, `NoiseKept`, `CodesLast`, `CodesAreLastDigits`, `PasswordsAsAsked` | the arguments have their types |

The invariants are not inductive by themselves. What strengthens them:

- **`IdentityInv`** (no cache). That a configuration with an app key has the
  registered private key says nothing of the step that sets the app key. The
  invariant follows the identity along its way: while a query is being posted
  the configured client id is that of the payload; a call under way carries
  it and is signed with the configured private key; an answer with status ok,
  and the answer being decoded, belong to an application whose device key is
  the configured one (`Owned`); and in the steps of `init` that rewrite the
  identity the configuration is unbound. `FreshKeyPair` keeps a late request
  from registering a key for the client id that the client has since left.
  `BindingImplemented` uses the same invariant: only `ServerBinds` and
  `LateRequest` map to `Redeem`, only `AdoptAppKey` to `Bind`, everything else
  stutters.
- **`KeptInv`** (cache or not) is why a bound client loses nothing to a cached
  answer: by the time it asks for secrets it has no client key left that would
  decrypt another app key, and the steps of `init` that rewrite the identity
  are reached unbound only. It needs no agreement with the service.
- **`ReadableInv`** adds that without a token in the environment the stored
  client key is the one the client id was made of, from the start to the
  moment it is used.
- **`OneWriterInv`** = `TypeOK` + `ReaderInv` + `WriterInv`: readers find the
  file there, and are about to create it or put braces into it only as members
  of `blind`; so what the writer finds missing stays so until it creates it,
  and what it has emptied holds an empty map, whole or not yet, until it writes.
  `ReaderStep` says that a reader outside `blind` leaves the file alone and one
  in it can only empty it (`LateLoss`) or garble it with its braces. From there
  `GarbledByFaultOnly` and the refinement go step by step.
- **`FilesProofs!IInv`** (Records) = `TypeOK` + `CopiesKnow`: every copy of the record
  that is anywhere (an answer, the cache, an object, a request) is of the
  past, and one that has the current revision holds all that is stored. The
  check of the revision by the service then does the rest.
- **`FilesProofs!FInv`**: a reference in an object, an answer, the cache or the
  record is to a file that is attached or whose upload failed, and one in a
  request may also be to the file of an upload under way, whose request still
  carries it; `Phases` ties the place of an upload in the code to what the
  service and the store have. `FilesAreRecords` shows every step of an upload
  to be a step of Records or none of its, which carries `SavesLoseNothing` over.
- **`FoldersProofs!IInv`** = `TypeOK` + what the service keeps
  (`ServiceInv`: `ReadableByAll`, and keys below a shared folder are under the
  key of a folder) + what the client holds: keys in
  `held` are right, the entries of an answer agree with one
  another (every parent in it has the same shared folder), the climb is on
  the way from the current folder to its shared folder, and `KeysFound` for
  those decoded.

- **`CreationInv`** = types + `FetchedShared` (a folder that came in an answer
  is a shared folder for good: those are never moved under another) + `RecordsReadable`,
  on top of `FoldersProofs!IInv`, which `CreationIsFolders` carries over.
- **RecordFieldsProofs** is about action properties, and its invariant is
  `TypeOK`, inductive because it says more than types: `raw = Json(raw)`, so
  what `SaveAndFetch` makes the dictionary again has lists of one kind and no
  cell that two fields share. `SameFound` does the main work: a lookup finds
  the same place in two sections that agree on types and labels, whatever
  their items are. From it a setter's value is found again after the save
  (`JsonReads`, `FoundAgain`), and `WithListIs` and `WithFirstIs` say which
  fields a write reaches, sharing included. `RemovalsAreExact` follows the loop
  of `RemoveField` from the last field to the first (`LeftStep`): after each
  turn what is left is the rest of the section in its order.
- **`NotationProofs!IInv`** adds to `FoundIsAsked` that the answers are finite
  (the lookups count them) and which phase a cached answer can come in
  (`Asking`). `ReadAsWritten` and `SameFromBoth` need of a behaviour only that
  `parsed` is what the parser makes of what the program wrote (`Written`,
  `Looking`); the rest is about the parser. `UpToIs` gives its scan at every
  place, `EscapedIs` the text that is written, and `ScanText`, by induction on
  the text, shows that the scan of an escaped text up to a delimiter gives the
  text back and stops there: an escaped delimiter is never taken for the end,
  nor the end of a text for an escape. `ReadBack` puts the sections together
  (`WrittenPlaces`: where each one begins). `EndsInEscape`, the
  labels that end in `\`, is the only place where it fails: the `[` after such
  a label is taken for an escaped one and stays part of it (core.go 1999).
- **PureFunctionsProofs** rests on the uniqueness of division with remainder:
  `UnpadPad` and `PadUnpad`, `Window` for the moments a code is good for,
  `LastDigits` for what taking a remainder and printing it leave of a number,
  `ModuliAre` for the remainders that can be taken.
  `EveryPassword` follows `GeneratePassword` through its cases, with sums over the four
  categories written out.
- **Recursion** is how the recursive functions of the models are reasoned
  about: `SetInduction` and `StrongInduction` take the property as the set of
  the numbers that have it, `CourseOfValues` takes a definition by recursion as
  a rule, a function from a number and the values before it to its value. The
  existence and uniqueness of the function are proved from the smallest
  element of a set of numbers, nothing is assumed.

The assumptions on the constants: no word is a delimiter, and numbers are words
(`WordAssumption`); a program asks for a label that is not empty, its index is
a number or empty brackets, and where it gives a property without an index the
property is no number, which would be the index (`AskAssumption`); two records
of one uid in an answer have the same content (`ServicesAssumption`); every
field has a type (`FieldsAssumption`).

**Only model-checked**: the liveness properties, `EventuallyBound` and
`DecodingEnds`, for temporal reasoning with `ENABLED` is out of the prover's
reach. Every other property of a passing run is stated by a theorem above.
`BoundIdentity`, `ImplementsBinding` and `DeliveredReadable` are proved, and
checked, without a cache; `ImplementsStore` for one writer (section 3 says what
happens otherwise).

## 5. Where the code and its documents disagree

Each is a run that TLC ends with a counterexample.

- `env_token` — a token given in `KSM_TOKEN` only is redeemed and then missed
  (core.go 136-138, 235-247, 1006-1009): the app key is lost.
- `field_edits` — `InsertField`, `UpdateField` and `RemoveField` do not
  refresh what `Save` sends (dtos.go 647-763).
- `set_then_get` — a single value set in an empty field is stored as a
  `[]string`, which the getters do not read (dtos.go 95, 233), until the record
  was saved and fetched.
- `wrong_record` — with a cache `GetNotationResults` takes a cached record
  without looking at its uid (core.go 2187-2194).

Seen while modelling, with no run. What happens:

- A start without the token, after a first start that did not get its answer,
  logs "Already bound" and deletes the token, the only copy (core.go 202-206).
- An index after a label that ends in a backslash cannot be written
  (core.go 1999); `WrittenIsRead` leaves these labels out by name.
- With a cache an error that names another server key is never handled
  (core.go 746-757).
- The owner's key is lost for good by a stop between the writes of the app key
  and of the owner key (core.go 1012-1025).
- `fileKeyValueStorage.Set` cannot report a failed write, so the branch at
  core.go 871 is never taken; a configuration file that holds `null` makes the
  next `Set` panic (storage.go 68).
- Parents in a cycle would loop for ever in `GetSharedFolderKey` (core.go 895).
- A file reference is in the object before anything is uploaded (core.go 619)
  and stays there if the upload fails; `ReferencesResolve` says this is the
  only way to a reference without its file.
- A call that creates something and is tried again after its answer was lost
  creates it twice (core.go 1526).
- A `Stat` of the configuration file that fails otherwise than with "not exist"
  is logged, and `os.Create` empties the file (storage.go 145-154, utils.go
  270-279): `Get`, `Contains` and `IsEmpty` can erase a bound configuration.
  `ImplementsStore` counts this among what a failure may take.
- A URL with ten digits or more overflows the divisor, one with negative digits
  makes it zero, which panics (utils.go 390, 506); a negative period gives a
  negative `TimeLeft` (utils.go 397-401, 450). `CodeIsLastDigits` and
  `CodeLastsTimeLeft` say so.
- `SaveFile` returns true when the write failed or nothing was downloaded
  (dtos.go 1265).
- `NewRecord` means to drop every unknown property of a field and deletes
  another key instead (dtos.go 947).
- The comment at dtos.go 562 calls the matching of labels case sensitive; the
  code compares with `EqualFold`.
- `GetTotpCode` computes a code with the default period where the URL says
  zero, and reports the period as zero.
- `randomSample` draws below the length in bytes and looks up in runes
  (utils.go 528): a custom set with a character of several bytes can be
  overrun.
- The result of `NewFolderFromJson` is not tested: the test after the call is
  of the JSON it was given (core.go 1056).

Those that a program can run into are in the list of hazards, with their lines.

## 6. What is not modelled

- Hostnames and regions of tokens, `KSM_CONFIG`, proxies, failing entropy,
  failing writes of the configuration below the client: all tokens are of one
  region and the storage is there. What its failures do to the file is
  FileStorage; the client over it is not composed.
- Transactions (`SaveBeginTransaction`, `CompleteTransaction`): two requests
  that leave no state in the client. What lies between them is the service's.
- Downloading and saving a file: one request and one write.
- The contents of record types (`record_data.go`), the content of records and
  files, JSON, base64, formatting, the logger, the example.
- A program that calls `SaveStorage` itself, and the lookup of the paths of
  the configuration and of the cache; a cache file shared by processes.
- An application without its owner key: `RecordCreation` assumes it is there,
  and creation fails with an error if it is not.
- The base64 form of a notation, `FindNotation` on a list of the program, and
  objects with a property called `value`.
- `TOTP.Generate` called with a `UnixTime` before 1970; `GetTotpCode` takes the
  time from the clock.
- The arithmetic of the cryptography, and the random choice of characters.
- Concurrent use of one client by several goroutines: the code documents no
  such use and has no locks.

## 7. Plan

Done in this order, the most important behaviour first: SecretsManager with
DeviceBinding, FileStorage with KeyValueStore, Folders, Records, Notation and
the proofs of the first four; then the cache and its failures in
SecretsManager, RecordFields, PureFunctions, Files, RecordCreation, and the
proofs of the last three and of the lookup of Notation; then the proofs of
RecordFields, of the parser of Notation and both extractions, of one-time
codes and of passwords, with Recursion under them.

What would add most next, in order:

1. **Client on a file**: SecretsManager over FileStorage instead of an atomic
   configuration, with readers that start clients of their own.
2. **QueryCache**: a cache file that processes of different queries share.
3. **Proofs** with a cache: which part of `DeliveredReadable` is left when a
   cached answer may be of another identity; and for more writers than one,
   what `KeyValueStore` promises to each if they take turns.
4. **Transactions**, with a record that others change between the two requests.
