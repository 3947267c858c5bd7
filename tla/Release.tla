------------------------------ MODULE Release -------------------------------
(***************************************************************************)
(* The control plane's `publish' (obsign-control-plane/src): a source tree *)
(* in a git checkout is loaded (source.rs), compared with the index        *)
(* (worktree.rs), compiled and signed (compile.rs) and placed in the       *)
(* distribution directory that gateways watch (release.rs).                *)
(*                                                                         *)
(* A file's bytes stand for themselves: a signed bundle is the triple      *)
(* <<version, content, key>> it determines (compilation is deterministic), *)
(* and a hash is what it hashes.                                           *)
(***************************************************************************)
EXTENDS Naturals, Sequences, FiniteSets

CONSTANTS
    Publishers,   \* operators or jobs that run `publish' on this directory
    OpsKeys,      \* signing keys: [id, pub]
    Forger,       \* a key nobody trusts, of the same shape
    Labels,       \* what --label can be given: any string, so a sha as well
    Contents,     \* what a source file can hold
    Broken,       \* contents that loading or compiling refuses
    Authored,     \* the inputs that change while the model runs
    Flags,        \* odd states of an index entry (see AllFlags)
    Faults,       \* see AllFaults
    MaxEdits,     \* bound: changes to working files and index entries
    MaxCommits,   \* bound: commits
    MaxPublishes, \* bound: publishes started
    MaxCrashes,   \* bound: publishes that die
    MaxForged     \* bound: versions tampered with

(* The files `SourceTree::load' reads, by the artifact they end up in:     *)
(* policies/, tools.json and fail-mode.json; identity/; deployment/.       *)
Inputs == {"policies", "identity", "deployment"}

(* The loops of `publish' run over the artifacts sorted by file name.      *)
Order == <<"deployment", "identity", "policies">>

(* intent    git add --intent-to-add                                       *)
(* unmerged  a conflict in progress: a stage other than 0                  *)
(* link      a symbolic link or a submodule                                *)
AllFlags == {"intent", "unmerged", "link"}

(* race    the checkout changes during a publish                           *)
(* reset   git reset --soft                                                *)
(* notree  the index is written without its TREE extension, which the      *)
(*         format makes optional                                           *)
(* tamper  somebody rewrites a file of a release directory                 *)
AllFaults == {"race", "reset", "notree", "tamper"}

Absent == "absent"       \* no such file, no such index entry
NoFile == [none |-> TRUE]
NoLabel == <<"no label">>

(* What a version can be.  A commit's sha and a label are strings of one   *)
(* namespace: they name the release directory and are stamped alike.       *)
Sha(k) == <<"sha", k>>
Shas == {Sha(k) : k \in 1 .. MaxCommits}
Refs == Shas \cup Labels

ASSUME ReleaseAssumption ==
    /\ Broken \subseteq Contents
    /\ Contents \ Broken # {}
    /\ MaxCommits \in Nat \ {0}
    /\ Authored \subseteq Inputs
    /\ Flags \subseteq AllFlags
    /\ Faults \subseteq AllFaults
    /\ Forger \notin OpsKeys
    /\ NoLabel \notin Labels

VARIABLES
    work,      \* the working tree: [Inputs -> Contents, Absent]
    index,     \* .git/index: [Inputs -> [flag, blob]]
    tree,      \* the index's cache tree: "valid", "invalid", "none"
    commits,   \* the trees committed so far
    head,      \* the commit HEAD names
    proc,      \* the publishes in progress
    result,    \* how each publisher's last publish ended
    trusted,   \* trusted-keys.json
    rel,       \* releases/<version>/
    cur,       \* the current files
    between,   \* the current files are between two releases
    served,    \* history: bundles that were ever current
    forged,    \* history: versions whose directory was tampered with
    count      \* history: [edits, publishes, crashes, unseen]

vars == <<work, index, tree, commits, head, proc, result, trusted, rel, cur,
          between, served, forged, count>>

gitVars == <<work, index, tree, commits, head>>
distVars == <<trusted, rel, cur, between, served, forged>>

Bundle == [ref : Refs, content : Contents, key : OpsKeys]
Manifest == [ref : Refs, key : OpsKeys \cup {Forger}, arts : [Inputs -> Bundle \cup {NoFile}]]

(* An entry of .git/index, in order or in one of the odd states.           *)
Tracked(blob) == [flag |-> "plain", blob |-> blob]
OddEntries == [flag : Flags, blob : {Absent}]

Idle == [pc |-> "idle"]

Init ==
    /\ LET c == CHOOSE c \in Contents \ Broken : TRUE
       IN  commits = <<[f \in Inputs |-> c]>>
    /\ head = 1
    /\ work = commits[1]
    /\ index = [f \in Inputs |-> Tracked(work[f])]
    /\ tree = "valid"
    /\ proc = [p \in Publishers |-> Idle]
    /\ result = [p \in Publishers |-> [outcome |-> "none"]]
    /\ trusted = {}
    /\ rel = [r \in Refs |-> [n \in Inputs \cup {"manifest"} |-> NoFile]]
    /\ cur = [n \in Inputs \cup {"manifest"} |-> NoFile]
    /\ between = FALSE
    /\ served = {}
    /\ forged = {}
    /\ count = [edits |-> 0, publishes |-> 0, crashes |-> 0, unseen |-> {}]

-----------------------------------------------------------------------------
(***************************************************************************)
(* The author, with git.                                                   *)
(***************************************************************************)

(* Without "race" nobody touches the checkout during a publish.            *)
TreeIsFree == "race" \in Faults \/ \A p \in Publishers : proc[p].pc = "idle"

(* A publish has read the bytes and not yet compared them.                 *)
Racing == \E p \in Publishers : proc[p].pc \in {"head", "check"}

(* count.unseen records what a publish has no means to notice:             *)
(* checkout    the checkout changed between its reads, or in one of the    *)
(*             ways worktree_divergence is blind to, or --label was a sha  *)
(* deployment  deployment/, which is not compared, was not the commit's    *)
Author(edits, unseen) ==
    /\ TreeIsFree
    /\ count' = [count EXCEPT !.edits = @ + edits,
          !.unseen = @ \cup unseen \cup (IF Racing THEN {"checkout"} ELSE {})]
    /\ UNCHANGED <<proc, result, distVars>>

Editing == count.edits < MaxEdits /\ Author(1, {})

Edit ==
    /\ Editing
    /\ \E f \in Authored, c \in Contents \cup {Absent} :
          /\ c # work[f]
          /\ work' = [work EXCEPT ![f] = c]
    /\ UNCHANGED <<index, tree, commits, head>>

(* git add, git rm --cached: the entry's trees, if kept, are invalidated.  *)
Stage ==
    /\ Author(0, {})
    /\ \E f \in Authored :
          /\ index[f] # Tracked(work[f])
          /\ index' = [index EXCEPT ![f] = Tracked(work[f])]
    /\ tree' = IF tree = "none" THEN "none" ELSE "invalid"
    /\ UNCHANGED <<work, commits, head>>

(* git add --intent-to-add, a merge conflict, a link.                      *)
Mark ==
    /\ Editing
    /\ \E f \in Authored, e \in OddEntries : index' = [index EXCEPT ![f] = e]
    /\ UNCHANGED <<work, tree, commits, head>>

Commit ==
    /\ Author(0, {})
    /\ Len(commits) < MaxCommits
    /\ \E f \in Inputs : index[f].blob # commits[head][f]
    /\ \A f \in Inputs : index[f].flag = "plain"
    /\ commits' = Append(commits, [f \in Inputs |-> index[f].blob])
    /\ head' = Len(commits) + 1
    /\ tree' = "valid"
    /\ UNCHANGED <<work, index>>

(* git checkout --force: untracked files stay where they are.              *)
Checkout ==
    /\ Author(0, {})
    /\ \E k \in 1 .. Len(commits) :
          /\ head' = k
          /\ work' = [f \in Inputs |->
                IF index[f] = Tracked(Absent) /\ commits[k][f] = Absent
                THEN work[f] ELSE commits[k][f]]
          /\ index' = [f \in Inputs |-> Tracked(commits[k][f])]
    /\ tree' = "valid"
    /\ <<work', index', head', tree'>> # <<work, index, head, tree>>
    /\ UNCHANGED commits

(* git reset --soft: HEAD moves, index and working tree stay.              *)
ResetSoft ==
    /\ "reset" \in Faults
    /\ Author(0, {"checkout"})
    /\ \E k \in 1 .. Len(commits) : k # head /\ head' = k
    /\ UNCHANGED <<work, index, tree, commits>>

(* The index is written anew without a cache tree.                         *)
DropCacheTree ==
    /\ "notree" \in Faults
    /\ Author(0, {"checkout"})
    /\ tree # "none"
    /\ tree' = "none"
    /\ UNCHANGED <<work, index, commits, head>>

-----------------------------------------------------------------------------
(***************************************************************************)
(* load_and_compile.                                                       *)
(***************************************************************************)

(* read_cedar, read_tools, read_fail_mode: policies/ and tools.json must   *)
(* be there, nothing duplicated, no override for an unknown tool.          *)
RulesLoad(src) == src["policies"] \notin Broken \cup {Absent}

(* read_identity, read_deployment, read_attestations: each may be absent   *)
(* but not half there, and every key must be usable and of its role.       *)
TrustLoads(src) == src["identity"] \notin Broken /\ src["deployment"] \notin Broken

(* in_scope: what the index and the disk are compared on.                  *)
Compared == {"policies", "identity"}

Finish(p, outcome) ==
    /\ proc' = [proc EXCEPT ![p] = Idle]
    /\ result' = [result EXCEPT ![p] =
          [outcome |-> outcome, ref |-> proc[p].ref, key |-> proc[p].key]]

(* The bytes are read first; with --label nothing else is looked at.       *)
Load(p) ==
    /\ proc[p].pc = "idle"
    /\ count.publishes < MaxPublishes
    /\ \E key \in OpsKeys, label \in Labels \cup {NoLabel} :
          /\ count' = [count EXCEPT !.publishes = @ + 1,
                !.unseen = @ \cup (IF label \in Shas THEN {"checkout"} ELSE {})]
          /\ IF RulesLoad(work) /\ TrustLoads(work)
             THEN /\ proc' = [proc EXCEPT ![p] =
                       [pc  |-> IF label = NoLabel THEN "head" ELSE "trust",
                        key |-> key, src |-> work, ref |-> label, at |-> 1,
                        manifest |-> NoFile]]
                  /\ UNCHANGED result
             ELSE /\ result' = [result EXCEPT ![p] = [outcome |-> "Source"]]
                  /\ UNCHANGED proc
    /\ UNCHANGED <<gitVars, distVars>>

(* git_head                                                                *)
Head_(p) ==
    /\ proc[p].pc = "head"
    /\ proc' = [proc EXCEPT ![p].pc = "check", ![p].ref = Sha(head)]
    /\ UNCHANGED <<gitVars, distVars, result, count>>

(* Mutant of Diverged: staged and uncommitted changes pass.                *)
DivergedButStaged ==
    \/ \E f \in Compared : index[f].flag # "plain"
    \/ \E f \in Compared : index[f].blob # work[f]

(* Index -> disk: the entry is odd, or its file missing or modified.       *)
EntryDiverged(f) ==
    \/ index[f].flag # "plain"
    \/ index[f].blob # Absent /\ work[f] # index[f].blob

(* Disk -> index: a file the compilation reads is not tracked.             *)
Untracked(f) == index[f].blob = Absent /\ work[f] # Absent

(* The TREE extension has an entry with a negative count; without the      *)
(* extension nothing is stale.                                             *)
CacheTreeStale == tree = "invalid"

(* worktree_divergence                                                     *)
Diverged ==
    \/ \E f \in Compared : EntryDiverged(f) \/ Untracked(f)
    \/ CacheTreeStale

(* Among what was not compared, something is not the commit's.             *)
Uncompared(p) == \E n \in Inputs \ Compared : proc[p].src[n] # commits[head][n]

Check(p) ==
    /\ proc[p].pc = "check"
    /\ IF Diverged
       THEN Finish(p, "DirtyTree") /\ UNCHANGED count
       ELSE /\ proc' = [proc EXCEPT ![p].pc = "trust"]
            /\ count' = [count EXCEPT
                  !.unseen = @ \cup (IF Uncompared(p) THEN {"deployment"} ELSE {})]
            /\ UNCHANGED result
    /\ UNCHANGED <<gitVars, distVars>>

-----------------------------------------------------------------------------
(***************************************************************************)
(* publish.                                                                *)
(***************************************************************************)

(* Mutant of Compiled: the time of the compilation is signed too.          *)
CompiledDated(c) ==
    [n \in Inputs |-> IF c.src[n] = Absent THEN NoFile
                      ELSE [ref |-> c.ref, content |-> c.src[n], key |-> c.key,
                            ts |-> count.publishes]]

(* compile: the bundles, each stamped with the version and signed.         *)
Compiled(c) ==
    [n \in Inputs |-> IF c.src[n] = Absent THEN NoFile
                      ELSE [ref |-> c.ref, content |-> c.src[n], key |-> c.key]]

(* The next artifact of the sorted list, from position i on.               *)
NextArtifact(c, i) ==
    CHOOSE j \in i .. Len(Order) + 1 :
        /\ j > Len(Order) \/ Compiled(c)[Order[j]] # NoFile
        /\ \A k \in i .. j - 1 : Compiled(c)[Order[k]] = NoFile

(* record_trusted_key: one id, one key.  The read and the write of         *)
(* trusted-keys.json, like those of a manifest, are one step: only another *)
(* publish could come between them, and ManifestHolds is claimed for one   *)
(* publish at a time.                                                      *)
Trust(p) ==
    LET c == proc[p] IN
    /\ c.pc = "trust"
    /\ IF \E k \in trusted : k.id = c.key.id /\ k # c.key
       THEN Finish(p, "KeyConflict") /\ UNCHANGED trusted
       ELSE /\ trusted' = trusted \cup {c.key}
            /\ proc' = [proc EXCEPT ![p].pc = "store", ![p].at = NextArtifact(c, 1)]
            /\ UNCHANGED result
    /\ UNCHANGED <<gitVars, rel, cur, between, served, forged, count>>

(* Mutant of CompareArtifact: a differing file is repaired like a missing  *)
(* one.                                                                    *)
CompareArtifactAnyway(p) ==
    LET c == proc[p]
        n == Order[c.at] IN
    /\ c.pc = "store"
    /\ c.at <= Len(Order)
    /\ proc' = IF rel[c.ref][n] = Compiled(c)[n]
               THEN [proc EXCEPT ![p].at = NextArtifact(c, c.at + 1)]
               ELSE [proc EXCEPT ![p].pc = "write"]
    /\ UNCHANGED <<gitVars, distVars, result, count>>

(* releases/<version>/: the same bytes are kept, a missing file is         *)
(* (re)written, different bytes are a conflict.                            *)
CompareArtifact(p) ==
    LET c == proc[p]
        n == Order[c.at] IN
    /\ c.pc = "store"
    /\ c.at <= Len(Order)
    /\ \/ /\ rel[c.ref][n] = Compiled(c)[n]
          /\ proc' = [proc EXCEPT ![p].at = NextArtifact(c, c.at + 1)]
          /\ UNCHANGED result
       \/ /\ rel[c.ref][n] = NoFile
          /\ proc' = [proc EXCEPT ![p].pc = "write"]
          /\ UNCHANGED result
       \/ /\ rel[c.ref][n] \notin {NoFile, Compiled(c)[n]}
          /\ Finish(p, "VersionConflict")
    /\ UNCHANGED <<gitVars, distVars, count>>

(* write_atomic: nothing looks again whether the file is still missing.    *)
WriteArtifact(p) ==
    LET c == proc[p]
        n == Order[c.at] IN
    /\ c.pc = "write"
    /\ rel' = [rel EXCEPT ![c.ref][n] = Compiled(c)[n]]
    /\ proc' = [proc EXCEPT ![p].pc = "store", ![p].at = NextArtifact(c, c.at + 1)]
    /\ UNCHANGED <<gitVars, result, trusted, cur, between, served, forged, count>>

(* Mutant of MatchingManifest: the signature is not checked again.         *)
MatchingManifestUnsigned(c, m) ==
    m # NoFile /\ m.arts = Compiled(c)

(* read_matching_manifest                                                  *)
MatchingManifest(c, m) ==
    m # NoFile /\ m.arts = Compiled(c) /\ m.key \in trusted

(* The release's manifest: the one there if it matches, else a fresh one.  *)
StoreManifest(p) ==
    LET c == proc[p]
        there == rel[c.ref]["manifest"]
        fresh == [ref |-> c.ref, key |-> c.key, arts |-> Compiled(c)]
        kept  == MatchingManifest(c, there) IN
    /\ c.pc = "store"
    /\ c.at > Len(Order)
    /\ rel' = IF kept THEN rel ELSE [rel EXCEPT ![c.ref]["manifest"] = fresh]
    /\ proc' = [proc EXCEPT ![p].pc = "repoint", ![p].at = NextArtifact(c, 1),
                            ![p].manifest = IF kept THEN there ELSE fresh]
    /\ UNCHANGED <<gitVars, result, trusted, cur, between, served, forged, count>>

(* The current files, one rename each.                                     *)
Repoint(p) ==
    LET c == proc[p]
        n == Order[c.at] IN
    /\ c.pc = "repoint"
    /\ c.at <= Len(Order)
    /\ cur' = [cur EXCEPT ![n] = Compiled(c)[n]]
    /\ served' = served \cup {<<n, Compiled(c)[n]>>}
    /\ between' = TRUE
    /\ proc' = [proc EXCEPT ![p].at = NextArtifact(c, c.at + 1)]
    /\ UNCHANGED <<gitVars, result, trusted, rel, forged, count>>

RepointManifest(p) ==
    LET c == proc[p] IN
    /\ c.pc = "repoint"
    /\ c.at > Len(Order)
    /\ cur' = [cur EXCEPT !["manifest"] = c.manifest]
    /\ between' = FALSE
    /\ Finish(p, "published")
    /\ UNCHANGED <<gitVars, trusted, rel, served, forged, count>>

-----------------------------------------------------------------------------
(***************************************************************************)
(* What happens around a publish.                                          *)
(***************************************************************************)

(* The process dies between two writes: write_atomic leaves the old file   *)
(* or the new one.                                                         *)
Crash(p) ==
    /\ proc[p].pc \in {"store", "write", "repoint"}
    /\ count.crashes < MaxCrashes
    /\ count' = [count EXCEPT !.crashes = @ + 1]
    /\ Finish(p, "crashed")
    /\ UNCHANGED <<gitVars, distVars>>

(* Between publishes somebody who can write the directory changes a bundle *)
(* of a release, or replaces its manifest by one signed with a key of      *)
(* their own.                                                              *)
Tamper ==
    /\ "tamper" \in Faults
    /\ \A p \in Publishers : proc[p] = Idle
    /\ Cardinality(forged) < MaxForged
    /\ \E r \in Refs \ forged, n \in Inputs \cup {"manifest"} :
          /\ rel[r][n] # NoFile
          /\ rel' = [rel EXCEPT ![r][n] = [@ EXCEPT !.key = Forger]]
          /\ forged' = forged \cup {r}
    /\ UNCHANGED <<gitVars, proc, result, trusted, cur, between, served, count>>

Publish(p) ==
    \/ Load(p) \/ Head_(p) \/ Check(p) \/ Trust(p) \/ CompareArtifact(p)
    \/ WriteArtifact(p) \/ StoreManifest(p) \/ Repoint(p) \/ RepointManifest(p)

Next ==
    \/ Edit \/ Stage \/ Mark \/ Commit \/ Checkout \/ ResetSoft \/ DropCacheTree
    \/ \E p \in Publishers : Publish(p) \/ Crash(p)
    \/ Tamper

Spec == Init /\ [][Next]_vars

-----------------------------------------------------------------------------
(***************************************************************************)
(* Properties.                                                             *)
(***************************************************************************)

Source == [Inputs -> Contents \cup {Absent}]
IndexEntry == [flag : {"plain"} \cup AllFlags, blob : Contents \cup {Absent}]

(* A publish in progress: its next artifact is `at', after the last one 4. *)
Job ==
    [pc : {"head", "check", "trust", "store", "write", "repoint"}, key : OpsKeys,
     src : Source, ref : Refs \cup {NoLabel}, at : 1 .. 4,
     manifest : Manifest \cup {NoFile}]

Result ==
    {[outcome |-> o] : o \in {"none", "Source"}} \cup
    [outcome : {"DirtyTree", "KeyConflict", "VersionConflict", "published", "crashed"},
     ref : Refs, key : OpsKeys]

(* A bundle of a release directory, as it was written or forged.           *)
SignedBundle == [ref : Refs, content : Contents, key : OpsKeys \cup {Forger}]

FileName == Inputs \cup {"manifest"}

TypeOK ==
    /\ work \in Source /\ index \in [Inputs -> IndexEntry]
    /\ tree \in {"valid", "invalid", "none"}
    /\ commits \in Seq(Source) /\ Len(commits) \in 1 .. MaxCommits
    /\ head \in 1 .. Len(commits)
    /\ proc \in [Publishers -> {Idle} \cup Job]
    /\ \A p \in Publishers : proc[p].pc \notin {"idle", "head"} => proc[p].ref \in Refs
    /\ result \in [Publishers -> Result]
    /\ trusted \subseteq OpsKeys
    /\ rel \in [Refs -> [FileName -> SignedBundle \cup Manifest \cup {NoFile}]]
    /\ \A r \in Refs :
          /\ \A n \in Inputs : rel[r][n] \in SignedBundle \cup {NoFile}
          /\ rel[r]["manifest"] \in Manifest \cup {NoFile}
    /\ cur \in [FileName -> Bundle \cup Manifest \cup {NoFile}]
    /\ \A n \in Inputs : cur[n] \in Bundle \cup {NoFile}
    /\ cur["manifest"] \in Manifest \cup {NoFile}
    /\ between \in BOOLEAN
    /\ served \subseteq Inputs \X Bundle
    /\ forged \subseteq Refs
    /\ count \in [edits : Nat, publishes : Nat, crashes : Nat,
                  unseen : SUBSET {"checkout", "deployment"}]

(* What was served under a commit's sha, of the input n, is what the       *)
(* commit holds.                                                           *)
ServedAsCommitted(n) ==
    \A s \in served, k \in 1 .. Len(commits) :
        s[1] = n /\ s[2].ref = Sha(k) => s[2].content = commits[k][n]

(* However edits, staging, odd index entries, commits, checkouts and       *)
(* publishes follow each other, rules and identity served under a sha are  *)
(* those of its commit (worktree_divergence): nothing untracked, modified  *)
(* or merely staged is stamped, unless there was a git reset --soft, an    *)
(* index without a TREE extension, a label that is a sha, or a change of   *)
(* the checkout between the reads of a publish.                            *)
RulesAsCommitted ==
    \/ "checkout" \in count.unseen
    \/ ServedAsCommitted("policies") /\ ServedAsCommitted("identity")

(* "The sha never stamps bytes its commit does not contain" (lib.rs:11),   *)
(* for every file the compilation reads.  worktree_divergence leaves out   *)
(* deployment/.                                                            *)
StampedIsCommitted == \A n \in Inputs : ServedAsCommitted(n)

(* A version's bundle is one content for ever, across reused labels, key   *)
(* rotations, crashes half way through a publish and rewritten release     *)
(* directories (publish: VersionConflict), as long as one publish at a     *)
(* time writes the directory.                                              *)
OneContentPerVersion ==
    \A s, t \in served : s[1] = t[1] /\ s[2].ref = t[2].ref => s = t

(* "`releases/<sha>/` is never rewritten" (lib.rs:13): a bundle that is    *)
(* there stays.  Two publishes can both find it missing (publish).         *)
NeverRewritten ==
    [][\A r \in Refs, n \in Inputs : rel[r][n] # NoFile => rel'[r][n] = rel[r][n]]_vars

(* Outside a publish that has started to replace them, or died doing so,   *)
(* the current manifest verifies under trusted-keys.json and the current   *)
(* files are the bytes it names, also after a rollback to a release whose  *)
(* manifest was replaced (publish, read_matching_manifest).                *)
ManifestHolds ==
    LET m == cur["manifest"] IN
    m # NoFile =>
        /\ m.key \in trusted
        /\ between \/ \A n \in Inputs : m.arts[n] \in {NoFile, cur[n]}

(* With one publish at a time, and as long as none took for a commit what  *)
(* was not (count.unseen), republishing a committed version is refused for *)
(* one of two reasons only: its directory was tampered with, or it was     *)
(* first published under another ops key, whose signature its bundles      *)
(* embed (publish: VersionConflict).                                       *)
Refused(r) ==
    r.outcome = "VersionConflict" /\ r.ref \in Shas =>
        \/ r.ref \in forged
        \/ \E n \in Inputs : rel[r.ref][n] # NoFile /\ rel[r.ref][n].key # r.key

RollbackSucceeds == count.unseen # {} \/ \A p \in Publishers : Refused(result[p])
=============================================================================
