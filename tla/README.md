# A TLA+ verification of obsign

obsign records what an AI agent does through the Model Context Protocol. A
*gateway* sits between the agent and an MCP server, decides every act against a
policy, and writes the attempt, the decision and the effect to a hash-chained,
origin-signed write-ahead log **before** the act is forwarded. A *ledger*, which
holds the sealing key on another host, seals the log into chained checkpoints,
anchors them in time and exports evidence packs that an auditor verifies offline.

The claim the system makes is about histories: what crossed the gateway is in
the log, what is in the log cannot be changed unnoticed, and this stays true
through crashes, concurrent requests, renewed identities and concurrent readers.
Those are the statements this project checks and proves.

## 1. Inventory

| Component | Source (`crates/`) | State | Operations |
|---|---|---|---|
| Write-ahead log | `obsign-wal` | a JSONL file, page cache and disk, directory entry | `open`, `open_authenticated`, `append`, `read` |
| Hash chain | `obsign-audit-core` (`lib`, `record`, `origin`) | next `seq`, head hash | `new`, `resume`, `append` |
| Session | `obsign-proxy/session.rs` | counters, `pending`, `pending_to_agent`, `relayed_to_agent`, agent record in force | `write`, `record_*` |
| Arbitration | `obsign-proxy/gateway.rs` | (the session's) | `handle_from_agent`, `handle_from_server`, `handle_server_initiated`, `arbitrate_notification` |
| Identity in force | `obsign-proxy/auth.rs`, `obsign-identity` | delegation, generation, presented token, identity bundle | `present`, `refresh`, `reload` |
| stdio transport | `obsign-proxy/main.rs` | two pumps over one session | startup, restart, relay |
| HTTP transport | `obsign-proxy/http.rs` | session registry, waiters, event stream | `POST`, `GET`, `DELETE`, dispatcher |
| Ledger | `obsign-ledger` | checkpoints, keys, anchors | `seal`, `run`, `anchor`, `export` |
| Evidence | `obsign-audit-core` (`evidence`, `checkpoint`, `merkle`, `deployment`, `attestation`) | the pack | `seal_interval`, `export`, `verify_with`, `verify_attestation` |
| Two-tier keys | `obsign-audit-core/origin.rs`, `obsign-proxy/origin.rs` | identity key, session key, deployment bundle | `certify_session`, `open_session`, `resume_session_trust` |
| Policy engine | `obsign-policy` | the loaded bundle | `load`, `evaluate`, `evaluate_capability`, `evaluate_listing` |
| Identity bundles | `obsign-identity` | none | `sign`, `verify`, `Verifier::verify`, claims |
| Control plane | `obsign-control-plane` | a git working tree, `trusted-keys.json`, `releases/`, the current files | `compile`, `publish` |
| PKCS#11, TPM enrolment, front end | `obsign-pkcs11`, `obsign-tpm-enroll`, `obsign` | configuration | sign, enrol |

How they interact. The agent's messages reach `handle_from_agent` from one pump
(stdio) or from one thread per POST (HTTP); the server's messages reach
`handle_from_server` from one dispatcher. All of them share the session behind
one mutex (and the identity behind a second, always taken inside the first),
and all records go through `Session::write` to the log. The ledger shares
nothing but files: it reads the log that the gateway is appending to, and its
store may be opened by a pass, an anchor command and an export at once. The
control plane shares files too: it signs the bundles that the gateway loads and
checks, and that a pack may carry for the auditor, who has nothing but public
keys from elsewhere.

What is hard here: a crash between any two of chain, sign, line, newline and
fsync; a reader in the middle of an append; concurrent requests under different
tokens on one session; answers that arrive out of order, twice or unasked under
reused ids; a lock released between taking a call and closing it; a log that
changes under a ledger between two passes; several processes on one store; a
publish that dies half way and the rollback after it; signed artifacts whose
older formats leave fields out; packs put together from parts of several chains.
`PROJECT.json` lists these hazards at their lines, with the properties that
would catch them.

What makes each component correct:

* **Log** - an acknowledged record replays for ever; an honest log is never
  refused; the chain in memory agrees with the file; nothing is chained on a
  record that is not trusted or not understood; a refused open destroys nothing
  (it does when the log is not authenticated, section 4).
* **Gateway** - nothing leaves unrecorded; each call ends in one effect, its
  own; acts are attributed to whoever asked, under a delegation in force; the
  log accounts for every change of what is trusted; the server gets no answer it
  did not ask for; a chain's identifiers are unique.
* **Ledger** - acknowledged seals stay; the seals of a store certify one
  history of authentic records; an honest log raises no incident and ends up
  sealed; a pack that verifies holds what was sealed.
* **Evidence** - what verifies was written, on that chain; what is sealed was
  certified, from the first seal on; what is attested was measured; an honest
  pack verifies, key rotations and all.
* **Policy and identity** - what is enforced is what was signed; a request
  cannot choose the fail-open path; a listing shows what the bearer may call.
* **Control plane** - a sha stamps what its commit holds; a version has one
  content; the current manifest is trusted and names the current files; a
  rollback works.

## 2. Modules

| Module | Models |
|---|---|
| `AuditLog` | what a log promises: it grows at the end, an acknowledged prefix never changes, a crash loses an unacknowledged suffix |
| `Wal` | `obsign-wal`, `ChainWriter` and `Session::write` over a file of lines; refines `AuditLog` |
| `WalProofs`, `WalRefinement` | the theorems about `Wal`; the proof that it implements `AuditLog` |
| `Auth` | `auth.rs` and `source.rs` as operators from a state to its outcomes |
| `Gateway` | one session: `gateway.rs`, `session.rs`, the parts of `http.rs` and `main.rs` that feed it; uses `Auth` |
| `HttpSession` | the life of one session of `http.rs`: POST threads and waiters, the event stream, the dispatcher, DELETE |
| `Ledger` | `pass.rs`, `store.rs`, `main.rs` of the ledger; its log is an instance of `AuditLog` |
| `Attestation` | `attestation.rs`: what the verifier concludes from a certify and a quote, as operators |
| `Evidence` | the life of a pack: gateways open chains and write, the ledger seals and exports, whoever holds the pack edits it, `verify_with` judges it; uses `Attestation` |
| `Identity` | `obsign-identity`: what a bundle signs, which tokens verify, what delegation they yield, as operators |
| `Policy` | `obsign-policy` and the parts of `gateway.rs`, `auth.rs` and `main.rs` that call it: bundles are compiled, signed, rewritten on disk, loaded and asked; uses `Identity` |
| `Release` | `worktree.rs`, `source.rs`, `compile.rs` and `release.rs` of the control plane over a git repository and a distribution directory |
| `EvidenceProofs`, `GatewayProofs`, `HttpSessionProofs`, `LedgerProofs`, `PolicyProofs`, `ReleaseProofs` | the theorems about these modules |
| `MCWal`, `MCGateway`, `MCLedger`, `MCEvidence`, `MCPolicy`, `MCRelease` | small instances; `MCWal` also states the refinement mapping |

The composition runs through `AuditLog`: `Wal` is shown to implement it
(`ImplementsAuditLog`), and `Ledger` takes its log from it, so the ledger is
checked against what the log provides and not against a friendlier one.

### State and actions against the code

*Wal.* A file is a sequence of lines, each a record, text that does not parse,
or bytes that are not UTF-8, with or without its newline; `file` is the page
cache every process reads, `disk` what the last fsync left. `Wal::append` is
three actions (`WriteLine`, `WriteNewline`, `SyncData`) because a crash can
fall between its three system calls; `BeginWrite` is `ChainWriter::append`,
which moves the chain before anything is written. `open_impl` is `OpenNew` and
`SyncDir` on a new file and one action on an existing one, in the order of the
code: replay, origin check, trim, payload check, resume. The origin check trusts
the gateway's own records only (`Trusted`): a newer build's record is signed over
a hash this build does not compute, so an authenticated open takes it for a
foreign one, and only a plain open gets as far as the payload check, after the
trim. A hash is the number of the write that made the record, so hashes never
collide; for a payload this build has no schema for it is another number, as in
the code. Another writer leaves whole synced lines (`OtherWriter`) or dies on the
way like the gateway itself (`OtherKilled`).

*Gateway.* A handler runs under the session lock and is one action, whose
records are written one after the other until one fails (`Written`): the
handler then stops where the code's `?` does. `Arbitrate` is `handle_from_agent`
on an arbitrated method; over stdio, and over HTTP with a method that is a
string, it is reached by `HandleAct`. With another method, HTTP relays the message
whatever `handle_from_agent` made of it (`HandleMalformed`, with an id) or without
asking (`RelayMalformed`). Where the code lets go of the
lock there are two actions: the dispatcher's `TakePending` and `CloseEffect`,
and a message that passed and its delivery (`Deliver`). The engine's verdict is
a free choice. `hist` is history the properties read; no action depends on it,
except through the bound `MaxAsked`. It says who asked for an act and which
bundle was in force; what the log says of either is read from `log` alone.

*HttpSession.* `Gateway` looks at a session through its handlers, `HttpSession`
at the threads around them: there is one action per critical section, because
`waiters`, `events`, `child_stdin`, `finished`, the registry and the session
each have a lock and a thread lets go of one before it takes the next. What
happens under the session lock is abridged from `Gateway`. HTTP statuses are
left out, except DELETE's.

*Ledger.* A pass is `ReadLog`, `OpenAndDecide` (or `OpenBroken`), `RecordKey`,
`AppendLine`, `AppendNewline`, `Acknowledge`: the log read comes first, so the
log may change before the decision. Checkpoints are the parsed lines plus how
the file ends (`tail`); two checkpoints on one line parse as neither. `dir` is
the directory on disk: a file created, or renamed over, since the directory was
last written back may be missing, or be the old one, after a power loss
(`PowerLost`), because the store syncs files and never their directory. That is
what POSIX leaves open; a file system that commits a name with its file's fsync
does not do it, so these are two faults, `create` and `rename`, to be chosen:
`ledger_tamper` has the second, section 4 says what each of them breaks.
What a power loss does to the line being written is `Crash`'s.

*Evidence.* A hash is what was hashed and a signature is its key with what was
signed, so both are free of collisions and forgeries; what exactly is hashed and
signed (`Hash`, `OriginBytes`, `CertBytes`, `SealBytes`, `BundleBytes`) follows
the `signing_bytes` functions field by field, because the properties depend on
which fields are in. The actions of the gateway and of the ledger (`Open`,
`Write`, `Seal`, `Export`) produce honest material; the edits use all of it plus
the session keys of the chains in `Leaked` and a key of the editor's own.
`Valid` is `verify_with` in its order, each conjunct saying when the code pushes
no finding of severity `Error`; each invariant quantifies over the auditor's key
files (`TrustSets`).

*Policy.* Cedar is external: a rule permits, forbids or fails to evaluate, by its
scope and by what it reads, and the combination is Cedar's (a forbid overrides, a
failing rule is skipped and reported). What the crate adds is modelled: the
catalogue, argument extraction, fail modes by tool and by action, the refusal of
fields an older format does not sign. The files on the gateway's disk may be
rewritten between signing and loading.

*Release.* The three places a file lives in (working tree, index, commit) change
by `Edit`, `Stage`, `Mark`, `Commit`, `Checkout` and, as faults, `ResetSoft` and
`DropCacheTree`; `tree` is what the index's TREE extension tells: valid, with an
invalidated entry, or not there. Versions are one namespace (`Refs`): a commit's
sha or a label, which may be a sha. A publish is `Load`, `Check`, `Trust`, then per
artifact `CompareArtifact` and `WriteArtifact`, `StoreManifest`, `Repoint` per
artifact and `RepointManifest`; it may die between any two writes, since each is a
rename. Two publishers may both find an artifact missing. Reading and writing
`trusted-keys.json`, or a manifest, are one step, which is exact for one publish at
a time, and what is claimed of them assumes it. `served` is history: every file that was
ever current. So is `count.unseen`, which records what a publish has no means to
notice: `"checkout"`, that HEAD moved under the index, the TREE extension was dropped,
the checkout changed between two reads of a publish, or a publish went out under a
label that is a sha; `"deployment"`, that a publish read a `deployment/` other than
the commit's. `RulesAsCommitted` and `RollbackSucceeds` claim nothing from then on.

## 3. Runs

| Run | Shows | Bounds |
|---|---|---|
| `wal` | durability, honest logs replay, the chain in step, recovery, refinement | 5 records, 4 faults: enough for a torn write, its repair, a second one on the repaired file, and writes after each |
| `wal_all_faults` | nothing laundered, refusals keep the evidence, with all eight faults, on an authenticated log (section 4 for one that is not) | 4 records, one of them somebody else's (whole, torn or without its newline), 3 faults |
| `wal_gap` | *violation*: a kill between line and newline | 3 records, 2 faults |
| `gateway_identity` | attribution, reloads account for what is trusted, parents, expiry | 2 principals, 3 tokens, 3 bundles, 2 acts, 1 failed call record, 1 restart, both transports |
| `gateway_wire` | records before forwarding, sound effects, solicited answers | one id shared by calls and machinery, 2 server ids, a rogue server, 1 failed write, stdio |
| `gateway_calls` | calls end in their own effect (liveness) | 2 ids, 2 calls, machinery under an id of its own, both transports |
| `ledger` | seals kept, store opens, no false incident, everything gets sealed (liveness) | 4 records, 4 seals, 2 crashes, a key rotation, `--min-new 2` |
| `ledger_tamper` | one history, authentic records, valid packs hold what is sealed | 3 records of 2 origins, 2 seals, a loss, a rewrite, a crash or a power loss that undoes `keys.json`, an export that reads a half-written line |
| `http` | nothing heard unrecorded or crossed, a deleted session's log holds every answer, undelivered requests are closed, no POST waits for a server that is gone (liveness) | 2 POST threads, 3 POSTs (`initialize` included), 1 stream, 1 server request, 4 of these in all; ids reused at will; a server and a client that may go |
| `release` | rules as committed, one content per version, the manifest holds, rollbacks succeed | 2 contents of each input (`deployment/` included), 1 edit, 2 commits, 3 publishes (by sha or under a label that is the first commit's sha), a reset, a dropped cache tree, a key rotation, 1 crash, 1 rewritten release file |
| `policy` | signed is enforced, fail-open is not steered, listings agree | rule sets of up to 2 rules, 3 tools (one outside the catalogue), 3 targets, 3 fail modes, the 3 identity bundle formats, 2 of 5 tokens presented, 1 rewritten file, 1 request |
| `evidence` | verified is written, sealed is certified, attested is measured, honest packs verify | 2 chains of up to 3 records, 2 seals, a rotation of the identity key, leaked session keys of one chain, 2 edits of different kinds |

`MCEvidence.cfg` has a constraint, `Short`: an attested host writes one record
(attestations are about keys, not about logs), and the chain whose session keys
leaked holds its certificate and no more, which is all an edit can copy from it,
and nothing where the identity key rotates. The other bounds are in the guards of the actions.
`http` bounds its messages together (`MaxMessages`): three POSTs and a stream, or
two POSTs, a stream and a request of the server; three POSTs are what it takes
for two requests to share an id while a third waits.

The type invariants of `Gateway`, `Ledger` and `HttpSession` hold on these instances
too, and `UniqueIds` of `Gateway` where no process restarts (`gateway_wire`,
`gateway_calls`); add them to the INVARIANTS when a module changes.

Deadlock is not checked: every specification is bounded (records, calls,
faults), and a bounded system stops when its bounds are spent.

The bounds are on how often something happens. The cases they must reach are
shown to be reached by the mutants: each property comes with a mutated definition
(`... Mutant of ...` in the modules) under which TLC finds it violated.

### Fairness

* `Wal`: a process that is down is started again (a supervisor, or the client
  that spawns a stdio gateway) and an open in progress goes on. Nothing is
  assumed of writes or faults.
* `Gateway`: a thread that holds a message delivers it, the dispatcher finishes
  what it started (weak), and the server answers what it received (strong,
  since the dispatcher may be busy infinitely often). The last one is an
  assumption about the server, needed by `CallsEnd` and by nothing else.
* `HttpSession`: the POST threads and the dispatcher run (the operating system
  schedules them). Nothing is assumed of the client or of the server.
* `Ledger`: passes are made for ever (`run`, or cron); weak fairness of each
  ledger's steps.

## 4. Where the code does not hold

`wal_gap` is the one run that is a counterexample, because it loses what was
acknowledged: `obsign-wal/lib.rs:160` extends a last line that lacks its newline by a
zero byte, the next record joins that line and is lost with it, while `:151-153`
says that a trimmed line was never acknowledged ("findings" in `PROJECT.json`).

The other counterexamples appear when a constant or a property of a configuration is
changed, one at a time, with the other properties of that configuration left out.
A line that quotes a claim names the comment or document that makes it.

| Change | Fails | Because |
|---|---|---|
| `"create"` in `MCWal.cfg` | `AckedReplay` | a file that exists is never directory-synced |
| `"utf8"` in `MCWal.cfg` | `HonestLogReplays` | a tail cut inside a character is an I/O error |
| `"carry_on"` in `MCWal.cfg` | `WriterAtTail`, `HonestLogReplays` | the chain moved on before the failed write |
| `Authenticated = FALSE` in `MCWalAll.cfg` | `RefusalKeepsEvidence` | a plain open trims or extends the file (`obsign-wal/lib.rs:159`) and then refuses a newer build's record (`:179`), while `:126-127` says "a refused open leaves the evidence exactly as found"; it holds again without `gap` |
| `TrustReadsDirectly` in `MCGatewayAuth.cfg` | `TrustReadsDirectly` | no record of an opening names the identity bundle (`session.rs:246-253`), while `session.rs:123-126`, `record.rs:645-648` and the repository's `README.md:335-340` say that which keys were trusted "reads directly" from the last reload or opening above the act; what holds is `TrustFollowsReloads` |
| `"deleg"` in `FailAt` (`MCGatewayAuth.cfg`) | `AttributedToBearer` | over HTTP a renewed identity is adopted before its records are written (`gateway.rs:395`) and not recorded again, while `:391-393` says "subsequent calls attach to it" |
| `"reload"` in `FailAt` (`MCGatewayAuth.cfg`) | `TrustFollowsReloads`, `AttributedToBearer` | reloads are drained before they are written, and the identity they came with is not recorded either |
| `UniqueIds`, `MaxRestarts = 1` in `MCGatewayWire.cfg` | `UniqueIds` | the call counter restarts at 0 |
| `MachineryIds = {1}` in `MCGatewayCalls.cfg` | `EffectClosedByOwnAnswer` | machinery takes no slot, its answer takes the call's |
| `Transports = {"http"}` in `MCGatewayWire.cfg` | `ForwardedIsRecorded`, `AnswersAreSolicited` | `handle_post` discards the handler's refusal of what has no method that is a string and relays the bytes (`http.rs:339-341`, without an id `:404-413`), so the log says blocked of what the server received, while `gateway.rs:195-199` says "recorded, then refused, never forwarded" |
| `DeletedIsComplete` in `HttpSession.cfg` | `DeletedIsComplete` | a POST that looked the session up before DELETE writes records after its 200; `http.rs:905-909` says "the client can rely on the WAL holding the complete session when DELETE returns" |
| the premise `~hist.reused` left out | `AnswerIsOwn`, `HeardIsRecorded` | a waiter is replaced by a request under its id |
| `"bad_line"` in `HttpSession.cfg` | `DeletedHoldsAnswers` | the dispatcher stops at a line that is not UTF-8 |
| `"bad_line"` in `HttpSession.cfg` | `NobodyWaitsForTheDead` | a waiter registered between the clearing of the map and the closing of the input |
| `"create"` in `MCLedger.cfg` | `AckedSealsKept` | `checkpoints.jsonl` is created and synced, its directory never is (`store.rs:269-276`), while `:268` says "durable before acknowledging" |
| `"rename"` in `MCLedger.cfg` | `StoreNeverBroken` | a power loss undoes the rename of `keys.json` (`store.rs:219`) and leaves a checkpoint of a key the store does not know, while `:141-143` says what would be rejected on reload is rejected on write |
| `"create"` in `MCLedgerTamper.cfg` | `ValidPackHoldsSealed` | the store loses its file and seals the same records again |
| `"gap"` in `MCLedger.cfg` | `AckedSealsKept` | as `wal_gap`, in the store |
| `MaxLosses = 1` in `MCLedger.cfg` | `NoFalseIncident` | unacknowledged records are sealed |
| `"early"` in `MCLedger.cfg` | `StoreNeverBroken` | an anchor over a checkpoint that a power loss takes |
| two ledgers in `MCLedger.cfg` | `StoreNeverBroken` | nothing locks the store |
| `"peek"`, `MaxExports = 1` in `MCLedger.cfg` | `AckedSealsKept` | an opener trims a line being written |
| `Faults = {"reset"}`, `Labels <- MCNames` in `MCRelease.cfg`, first disjunct of the property left out | `RulesAsCommitted`, `RollbackSucceeds` | index and tree agree, HEAD points elsewhere (a blind spot `worktree.rs:24-26` accepts); from then on a clean publish of that commit is a `VersionConflict`, while `lib.rs:14-15` says "rolling back is republishing an old sha" |
| the same with `"notree"` | `RulesAsCommitted` | no TREE extension, nothing is stale (`worktree.rs:404`), while `:21-22` says staged state "is caught too" |
| the same with `"race"` | `RulesAsCommitted` | what is compiled is read before the comparison (`main.rs:176`, `:185`), while `worktree.rs:150-154` says "this is the read whose bytes are about to be signed" |
| the same with no fault and `Labels <- MCShaLabels` | `RulesAsCommitted`, `RollbackSucceeds` | `--label` may be a sha (`main.rs:178-190`), while `worktree.rs:9-10` says a label names the build "without citing a commit" |
| `StampedIsCommitted` in `MCRelease.cfg` | `StampedIsCommitted`, and `RollbackSucceeds` as above | `deployment/` is not compared (`worktree.rs:80-89`), while `lib.rs:10-11` says "the sha never stamps bytes its commit does not contain" |
| two publishers and 2 publishes in `MCRelease.cfg`, also with `NeverRewritten` | `OneContentPerVersion`, `ManifestHolds`, `NeverRewritten` | nothing locks the directory: both find an artifact missing (`release.rs:158`) and both write it (`:163`), while `lib.rs:13` says `releases/<sha>/` "is never rewritten" |
| `"mixed"` in `MCPolicy.cfg` | `ListingAgrees` | an answer that holds two lists is filtered in the first only (`gateway.rs:742-776`) |
| `SignedRulesEvaluate` in `MCPolicy.cfg` | `SignedRulesEvaluate` | a rule without a tool in its scope may read an argument that other tools do not declare; it compiles and fails on them, and the fail mode decides, while `compile.rs:62-66` says "this proves they can *evaluate*" |

`create` and `rename` need a file system that does not commit a new name with the
fsync of its file. `obsign-wal` syncs its directory for that reason, the ledger does
not.

Three settings that keep every property of their run were checked beside the runs,
which they would make long:

* `MCLedgerTamper.cfg` with `SealKeys <- ReboundKeys` (a key id bound to two keys, so
  that `record_key` refuses the second), `MaxRecords = 2` and `"early"`;
* `MCRelease.cfg` with `"race"` (a checkout that changes during a publish) and
  `MaxPublishes = 2`;
* `MCWalAll.cfg` with `Authenticated = FALSE`, `MaxOther = 2`, `MaxCrashes = 2` and
  without `"gap"`.

Smaller remarks, met while modelling:

* A capability applies its fail mode although its target is the request's
  (`engine.rs:348-356`), unlike a tool that declares arguments (`:291-302`).
* A `VersionConflict` may leave artifacts of the refused publish in the release
  directory; they are new files of that version, which `OneContentPerVersion`
  allows.
* Publishing a release without an identity leaves the previous
  `identity-bundle.json` current, named by no manifest.
* `require_attestation` asks for attestations of the keys of an embedded bundle.
  A pack without a bundle, whose origin keys the auditor supplies, passes
  (`evidence.rs:230`), which is why `AttestedIsMeasured` speaks of key files
  without origin keys.
* The ops key of a bundle is resolved by its id, whatever its role
  (`evidence.rs:771-774`).
* A GET that looked the session up before the end of file takes the event slot
  after the dispatcher emptied it (`http.rs:983`), and its stream goes on until
  the client leaves.
* A hot backup in the order of `docs/runbook-backup-restore.md:38` may copy a
  store that seals records the copied log does not hold; such a pack is flagged
  (`ValidPackHoldsSealed`).

## 5. Proofs

TLAPS checks the theorems below for every value of the constants: any number of
records, requests, threads, ledgers, crashes. A theorem without an assumption
holds under all the faults its module has. Each assumption excludes something
section 4 shows to break the statement, or says so below.

| Module | Theorem | Property | Assumes |
|---|---|---|---|
| `WalProofs` | `TypeCorrect` | `TypeOK` | |
| | `Durability` | `AckedReplay` | `Contained` |
| | `WriterInStep` | `WriterAtTail` | `Contained` |
| | `HonestReplay` | `HonestLogReplays` | `Contained`, no `utf8` |
| | `NothingLaundered` | `NoLaundering` | |
| | `RefusalIsHarmless` | `RefusalKeepsEvidence` (an action property) | the log is authenticated, or no `gap` |
| `WalRefinement` | `Implements` | `ImplementsAuditLog` | `Plain` |
| `HttpSessionProofs` | `TypeCorrect` | | |
| | `DeletedIsAnswered` | `DeletedHoldsAnswers` | no `bad_line` |
| | `NothingStranded` | `NotStranded` | |
| | `OwnAnswer`, `NothingHeardUnrecorded` | `AnswerIsOwn`, `HeardIsRecorded` | |
| `GatewayProofs` | `TypeCorrect` | | |
| | `ActsUnexpired` | `NoActUnderExpired` (an action property) | |
| | `ParentsOrdered` | `ParentsAbove` | |
| | `ActsAttributed` | `AttributedToBearer` | the identity's own records are written |
| | `TrustFollows` | `TrustFollowsReloads` | reload records are written |
| | `ForwardedRecorded` | `ForwardedIsRecorded` | no restart, stdio |
| | `ForwardedActs` | the same of methods that are strings | no restart |
| | `EffectsSound` | `EffectsAreSound` | no restart |
| | `OwnAnswer` | `EffectClosedByOwnAnswer` | no rogue server, ids of their own for machinery |
| | `AnswersSolicited` | `AnswersAreSolicited` | stdio |
| `LedgerProofs` | `TypeCorrect` | | |
| | `OneHistory` | `SealsFormOneHistory` | |
| | `AuthenticOnly` | `OnlyAuthenticSealed` | |
| | `SealsKept` | `AckedSealsKept` | `Alone` |
| | `PacksHoldSealed` | `ValidPackHoldsSealed` | `Alone` |
| | `StoreAlwaysOpens` | `StoreNeverBroken` | `Undisturbed` |
| | `NoFalseAlarm` | `NoFalseIncident` | one ledger, no loss |
| `EvidenceProofs` | `NothingForged` | | |
| | `VerifiedWritten` | `VerifiedIsWritten` | |
| | `SealedCertified` | `SealedIsCertified` | |
| | `AttestedMeasured` | `AttestedIsMeasured` | |
| | `HonestVerifies` | `HonestPackVerifies` | |
| | `RootDetermines`, `SealedByRoot` | | |
| `PolicyProofs` | `Enforced` | `EnforcedAsSigned` | |
| | `FailOpenIsNotSteered` | `FailOpenNotSteered` | |
| | `ListingIsExact` | `ListingAgrees` | no `mixed` |
| `ReleaseProofs` | `TypeCorrect` | | |
| | `OneContent` | `OneContentPerVersion` | one publisher |
| | `ServedAsCommit` | `RulesAsCommitted` | |
| | `RollbackHolds` | `RollbackSucceeds` | one publisher |
| | `ManifestVerifies` | `ManifestHolds` | one publisher |

*Wal.* `Contained` says that none of the faults `gap`, `create` and `carry_on`
occurs. Torn lines, lines torn inside a character, power loss, I/O and signing
errors and foreign writers are all covered. `AckedReplay` is not inductive: it
speaks of the page cache only, and a power loss replaces the cache by the disk.
The invariant proved is `DurableInv`: acknowledged records are settled on disk
*and* the cache agrees with the disk up to there (`AckedDurable`); the process's
position determines what the last line and the chain look like (`WriterState`);
a durable file has no record without its newline (`NoDangling`); a file with
acknowledged records has a durable directory entry (`EntryState`). Lemmas say
what `Put`, `PutNewline`, `Trim` and a power loss preserve of a good prefix.
`NothingLaundered` holds under every fault: its invariant says what a gateway that
is up has checked of the head it extends. `RefusalIsHarmless` has two cases. An
authenticated open refuses before it writes, so nothing about the file is needed.
A plain one trims first; what it trims holds no record as long as every record
but the one being written has its newline (`ClosedInv`), which a death between a
line and its newline breaks, whoever dies. The refinement
assumes `Plain` (`Contained`, and no foreign records, which `AuditLog` does not
have): a step of `Wal` maps to an append, an acknowledgement, a loss of an
unacknowledged suffix, or a stutter.

*HttpSession.* The invariants are about ownership between critical sections.
`OwnAnswer` and `NothingHeardUnrecorded` carry, from the moment a POST registers,
which of waiter, channel, server and dispatcher holds the request under an id,
and that the effect is written before the waiter is found; they hold until an id
in progress is reused, which is the premise of both properties. `NotStranded`
needs that a slot is entered before its request is queued and left only by the
three ways the property names. `DELETE` returns after the dispatcher has ended,
and the dispatcher ends only at end of file, hence the exception of `bad_line`.

*Gateway.* Two lemmas describe a handled act (`ActStep`) and a presented token
(`BearerStep`) by what they leave behind: a prefix of the reload records, then of
the delegation's, then of the attempt's, each begun only when the one before is
complete. `StepKinds` sorts the other actions by what they do to the log, the
identity and the acts noted. None of the properties is inductive; the
strengthenings are:

* `Grounded` (parents): the session's agent and every call that waits in a slot
  or with the dispatcher are named by a record, so whoever writes next has a
  parent above.
* `Attributed`: the last delegation record under the agent the session writes as
  is that of the identity in force. It is false from the moment an identity's
  record fails to be written: `auth` has moved and `sess.agent` has not, hence
  `IdentityWritten` (no failed `reload`, `deleg`, `label`, `actor` or `agent`;
  calls, decisions and effects may fail). Restarts are covered although they
  reuse generation 1, because it is the *last* delegation above that counts.
* `Trusted`: the last reload applied since the opening names the bundle in force;
  with none, it is the one the process opened with. The opening's record does not
  say which that was, so the proof carries a set of (opening, bundle) pairs that
  exists and that the log does not determine.
* `Sound`: numbers in the log stay at or below the counter, a call that waits is
  allowed, has no effect yet and waits in one place only (`Apart`). A restart
  sets the counter back to 0 on the same chain, after which `call-1` names two
  calls (section 4); the statement is about one process, `MaxRestarts = 0`.
  `ForwardedActs` adds, under the same assumption, that what was cleared to
  go stays cleared (`Sent`, `Grows`); `ForwardedRecorded` that over stdio nothing
  else is sent.
* `OneHolder`: a request on its way or at the server holds the slot under its id.
  A server that answers what it was not asked closes another call's slot, and so
  does the answer to machinery under the id of a call: the two assumptions.
* `Balance`: answers given and questions still open together are never more
  than the questions asked. Over HTTP the refusal of an unsolicited answer is discarded
  and its bytes relayed (section 4), hence stdio.

*Ledger.* Nothing locks the store, so three kinds of statement differ. What holds
with any number of ledgers, losses and rewrites (`HistoryInv`): a checkpoint that
is in the file *or in the making* has a number of its own, and two of them with
`prev` pointing from one to the other fit together; the property follows because
a store that opens is a chain of `prev`. What one ledger keeps (`KeptInv`): how
the file ends (`tail`) is determined by the position of the pass, so a trim
removes what the pass itself has begun and nothing acknowledged. `Alone` is one
ledger, no `gap`, no `peek`, no `create`; `Undisturbed` excludes `early` and
`rename` too. `StoreInv` adds that the key of a checkpoint is in `keys.json` before
its line is. The first two theorems hold also when a power loss takes the files
of the store or puts an old `keys.json` back: what is left continues itself, or
does not open. `HonestInv`
adds that what the store covers begins the log, which is false as soon as an
unacknowledged record that was read can be lost (`MaxLosses = 0`).

*Evidence.* Hosts, trust sets, leaked keys and the number of edits are
parameters: `EvidenceAssumption` says that a trust set is the operator's own (it
holds the sealing key, every key stands under its own id, none is a session key
or an editor's) and that PCRs are finitely many. The properties compare a
verdict with what was written and are not inductive; the invariant proved
(`NothingForged`) has two parts. `Kept` is what gateways, ledger and operator
leave behind: every record is numbered, linked and signed by a key that an
earlier record certifies or that is an identity, every seal covers records of
the log and points to the seal before it. `PackInv` is what a pack can hold:
a signature by a key no editor has is over bytes one of them signed
(`Unforged`), and as long as nobody edits, the pack is what was exported. Each
edit preserves `Unforged` because whatever it adds is copied or signed by a key
that leaked. From there:

* `VerifiedWritten`, for a chain whose session keys did not leak: an accepted
  record carries a signature over bytes which name the chain, so it is the record
  of that chain's log with that number. A session key counts only after its
  certificate, signed by an identity over the chain's name, has been found the
  same way.
* `SealedCertified` holds with every session key leaked, so signatures on records
  are of no help. `prev` and growing intervals make the accepted seals the first
  ones of the chain; from a seal's head downwards the `prev` hashes make the
  records under it those of the log.
* `RootDetermines` is the claim of `merkle.rs:11-13`: promoting an odd node gives
  every batch a root of its own, whatever the lengths. Going down from equal
  roots, a level of `2l` nodes would have to meet one of `2l - 1` whose last node
  equals the pair that ends the other; that node is a leaf or was paired further
  down, and no node but a last one occurs at two heights (`InnerNodesDiffer`). Hence
  `SealedByRoot`: a checkpoint binds its records also where the links between
  them are broken.
* `AttestedMeasured` needs that the digest over one set of PCRs determines their
  values, proved through the position of each PCR in that set.

Induction over positions and levels is done with sets of numbers, through the
well-foundedness of `<` (`NumbersUpTo`, `LeastNumber`, `GreatestNumber`).

*Policy.* The proofs are about the operators: which fields a format signs and
which of the others the loader refuses, that skipping failing rules gives one
verdict for all arguments of a fail-open tool, that a listing filters by the
rules which read no argument.

*Release.* `OneContent` is about one publish at a time: the file a publish is about
to write is still missing (`Stored`), which another publish would not respect. It
needs nothing of the checkout, the index or the labels. `ServedAsCommit` holds for
any number of publishers, because what they store under a sha is the same content.
It carries that a publish past its check holds what the commit named in its manifest
holds (`ReadAsCommitted`), which rests on an index without an invalidated entry
being HEAD's tree (`IndexIsHead`). Both are lost with what a publish cannot notice,
and the steps that lose them are the ones that mark `count.unseen` (`NoticedStep`);
nothing else does, whatever the authors, the publishers and a tampering hand do in
between. `RollbackHolds` adds that every artifact in a sha's directory is its
commit's, for `deployment/` too, so it also ends with `"deployment"`. `ManifestVerifies`
assumes one publisher; its invariant says which artifacts are already current at
each position of a publish.

Every invariant and action property of the passing runs is proved, some
under the assumptions in the table. Only model-checked is liveness (`Recovers`,
`CallsEnd`, `AckedGetsSealed`, `NobodyWaitsForTheDead`): the prover has neither
fairness nor `ENABLED`.

## 6. What is not modelled

* Cryptography and encodings: a hash determines what was hashed and a signature
  cannot be made without its key. Canonical encoding, RFC 3161 tokens, P-256,
  TPM byte formats and PKCS#11 are parsing and arithmetic without state; so are
  the inclusion proofs of `merkle.rs`.
* Cedar: a rule is what it does (permit, forbid, fail) on a request.
* JSON: names, arguments and claims are values; JSON-pointer paths of a claim map
  are the claims they select.
* Clocks: a delegation has expired or not; a reload may be rate-limited at any
  time. The validity window of a session certificate is not enforced by the code
  either (`evidence.rs:707-711`).
* Declared identities, and the reload that `Auth::oidc` may attempt at startup.
* An anchor's append is atomic; a sealer that fails is a crash before the key
  is recorded.
* HTTP parsing, limits and origin checks; two requests of different sessions
  (sessions share only the registry).
* The console, the dossier export and the schema command of the control plane,
  TPM enrolment, the PKCS#11 binding and the front end: views, one-shot tools and
  dispatch.

## 7. Plan

1. `Backup`: a hot copy of log and store in the runbook's order, over `Ledger`.
2. Inclusion proofs, over `Paired`: a path that verifies against a root leads to
   one of its records.
